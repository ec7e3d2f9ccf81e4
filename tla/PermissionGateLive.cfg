\* A single message with two permissions next to an auto-approved MCP tool that uses
\* one of the grants, under the fairness of the event loop.
CONSTANTS
  m1 = m1  m2 = m2  p = p  q = q
  Perms = {p, q}
  FirstParty = {}
  Sessions = {s1}
  NoSession = NoSession
  GrantIds = {g1, g2}
  NoGrant = NoGrant
  Callers = {m1, m2}
  Reqs = {r1, r2}
  Conns = {c1}
  MaxRestarts = 0
  Multi = {}
  AutoApproved = {m2}
  Needs <- MCNeeds
SPECIFICATION FairSpec
INVARIANT WaitingCanBeAnswered
PROPERTY ApprovedMessageRuns
CHECK_DEADLOCK FALSE
