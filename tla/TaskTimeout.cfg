\* One in-process run.
CONSTANTS
  r1 = r1  r2 = r2  r3 = r3  r4 = r4
  Runs = {r1}
  Kind <- MCKind
  Hooked = {}
  MaxConcurrent = 1
  MaxRestarts = 0
SPECIFICATION Spec
INVARIANT TimeoutIsReported
