\* A compound message with a chain of three steps.
CONSTANTS
  Plans = {}
  Compounds = {m1}
  Resumers = {}
  Steps <- MCSteps
  Shapes <- ChainOnly
  Splits <- ChainOnly
  MaxWaves = 10
  MaxAttempts = 1
  MaxSteering = 0
  MaxCrashes = 0
SPECIFICATION Spec
PROPERTY DownstreamSkipped
CHECK_DEADLOCK FALSE
