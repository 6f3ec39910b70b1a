CONSTANTS
  None = None
  Versions = {v1, v2}
  Digests = {d1, d2}
  Decisions = {k1}
  Releases = {r1}
  Calls = {c1, c2}

SPECIFICATION MCSpec
INVARIANTS TypeOK Gated TrailDurable
PROPERTIES NeverTakenBack ImplementsLifecycle
SYMMETRY MCSymmetry
