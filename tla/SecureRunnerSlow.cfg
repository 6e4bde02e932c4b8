SPECIFICATION FairSpec
CONSTANTS
  Invocations = {a}
  Nobody = nobody
  Hosted = FALSE
PROPERTY SetupContinues
CHECK_DEADLOCK FALSE
