\* One compound message with two permissions to ask for.
CONSTANTS
  m1 = m1  m2 = m2  p = p  q = q
  Perms = {p, q}
  FirstParty = {}
  Sessions = {s1}
  NoSession = NoSession
  GrantIds = {g1, g2}
  NoGrant = NoGrant
  Callers = {m1}
  Reqs = {r1, r2}
  Conns = {c1}
  MaxRestarts = 0
  Multi = {m1}
  AutoApproved = {}
  Needs <- MCNeeds
SPECIFICATION Spec
INVARIANT AllApprovedIsResumed
CHECK_DEADLOCK FALSE
