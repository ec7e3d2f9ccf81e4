\* A compound message whose requests can be answered before they are registered and a
\* single one that shares a permission; revocations, a session switch, one restart.
CONSTANTS
  m1 = m1  m2 = m2  p = p  q = q
  Perms = {p, q}
  FirstParty = {}
  Sessions = {s1}
  NoSession = NoSession
  GrantIds = {g1, g2}
  NoGrant = NoGrant
  Callers = {m1, m2}
  Reqs = {r1, r2, r3}
  Conns = {c1}
  MaxRestarts = 1
  Multi = {m1}
  AutoApproved = {}
  Needs <- MCNeeds
SPECIFICATION Spec
INVARIANTS TypeOK AtMostOneResumePerRound
PROPERTY ResumeNeedsEveryApproval
SYMMETRY MCSymmetry
CHECK_DEADLOCK FALSE
