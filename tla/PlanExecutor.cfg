\* A goal message with any of three plans, a compound message and a resumption; one
\* steering message, one retry, one crash.
CONSTANTS
  Plans = {p1}
  Compounds = {m1}
  Resumers = {c1}
  Steps <- MCSteps
  Shapes <- MCShapes
  Splits <- JoinOnly
  MaxWaves = 10
  MaxAttempts = 1
  MaxSteering = 1
  MaxCrashes = 1
SPECIFICATION Spec
INVARIANTS PlanTypeOK RunsBounded CompletedLeavesNothing RunningHasWorker SteeringHasAPlan
CHECK_DEADLOCK FALSE
