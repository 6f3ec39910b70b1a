CONSTANTS
  None = None
  Versions = {v1}
  Digests = {d1, d2}
  Decisions = {k1}
  Releases = {r1}
  Calls = {c1}

SPECIFICATION Spec
PROPERTY SnapshotsImmutable
