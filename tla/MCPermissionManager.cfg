\* One permission of a first-party skill: auto-granted at start, revoked, asked
\* for and approved twice, checked by two callers, over two sessions and a restart.
CONSTANTS
  Perms = {p}
  FirstParty = {p}
  Sessions = {s1, s2}
  NoSession = NoSession
  GrantIds = {g1, g2, g3}
  NoGrant = NoGrant
  Callers = {k1, k2}
  Reqs = {r1, r2}
  Conns = {c1}
  MaxRestarts = 1
SPECIFICATION ManagerSpec
INVARIANTS ManagerTypeOK OnceUseBound GrantsMatchApprovals AutoGrantsAccounted
SYMMETRY MCSymmetry
CHECK_DEADLOCK FALSE
