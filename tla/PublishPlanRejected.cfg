SPECIFICATION Spec
CONSTANTS
  Crates = {1, 2, 3}
  MaxHard = 2
  MaxSoft = 1
  MaxPublished = 1
  Workspaces <- MCWorkspaces
INVARIANT PublishedEdgesCostNothing
CHECK_DEADLOCK FALSE
