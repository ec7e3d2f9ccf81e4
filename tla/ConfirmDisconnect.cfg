CONSTANTS
  Tasks = {t1}
  Dirs = {d1, d2}
  NoDir = none
  Workspace = d1
  Edits = {u1}
SPECIFICATION Spec
INVARIANT ConfirmedIsApproved
CHECK_DEADLOCK FALSE
