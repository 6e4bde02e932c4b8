SPECIFICATION Spec
CONSTANTS
  Invocations = {a, b}
  Nobody = nobody
  Hosted = FALSE
SYMMETRY InvocationSymmetry
INVARIANTS RunnerIsArmed CleanPostLeavesNothing NoServiceWithRevokedToken
PROPERTY InstallationsAreKept
CHECK_DEADLOCK FALSE
