\* A goal message and two resumptions that may overlap, under the fairness of the
\* event loop; one steering message, one retry.
CONSTANTS
  Plans = {p1}
  Compounds = {}
  Resumers = {c1, c2}
  Steps <- MCSteps
  Shapes <- ResumeShapes
  Splits <- JoinOnly
  MaxWaves = 10
  MaxAttempts = 1
  MaxSteering = 1
  MaxCrashes = 0
SPECIFICATION FairSpec
INVARIANT PausedSavesFailure
PROPERTY EveryMessageEnds
CHECK_DEADLOCK FALSE
