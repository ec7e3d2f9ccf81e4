\* A run in process, one in a pooled process and an MCP call, a limit of two, a restart,
\* under the fairness of the event loop.
CONSTANTS
  r1 = r1  r2 = r2  r3 = r3  r4 = r4
  Runs = {r1, r2, r3}
  Kind <- MCKind
  Hooked = {r1}
  MaxConcurrent = 2
  MaxRestarts = 1
SPECIFICATION FairSpec
INVARIANTS TaskTypeOK SlotHolders
PROPERTIES OutcomeSpec EveryRunEnds
