CONSTANTS
  v1 = v1
  v2 = v2
  s1 = s1
  m1 = m1
  g1 = g1
  g2 = g2
  t1 = t1
  alice = alice
  bob = bob
  None = None
  AgentVersions = {v1, v2}
  Skills = {s1}
  Capabilities = {m1}
  Grants <- MCGrants
  Scopes = {g1}
  ToolIds = {t1}
  Definitions <- MCDefinitions
  Proposals <- MCProposals
  RunRequests <- MCRunRequests
  Outcomes = {"COMPLETED", "FAILED"}
  Principals = {alice, bob}
  GrantsOf <- MCGrantsOf
  Runs = {r1}
  Calls = {c1, c2}
  AllowTestDrafts = FALSE

SPECIFICATION Spec
INVARIANT OneOutcome
CHECK_DEADLOCK FALSE
