SPECIFICATION Spec
CONSTANTS
  Crates = {1, 2, 3}
  Workspaces <- MCWorkspaces
  Jobs = {j1, j2}
  Nobody = nobody
  Budget = 1
  Lifetime = 3
  Delay = 1
  Retries = 1
  Waits = {1}
  Lag = 0
  Overrun = 1
  MaxMint = 1
  MaxTime = 4
SYMMETRY JobSymmetry
INVARIANTS OutcomesAreOwn StartsWithLiveToken NeverRejected NeverStopsAtNewCrate SuccessIsComplete
CHECK_DEADLOCK FALSE
