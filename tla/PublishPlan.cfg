SPECIFICATION FairSpec
CONSTANTS
  Crates = {1, 2, 3}
  MaxHard = 6
  MaxSoft = 6
  MaxPublished = 3
  Workspaces <- MCWorkspaces
INVARIANTS PlanIsSound HardEdgesHold DroppedOnlyOnCycle NeededEdgesKept
PROPERTY PlanningEnds
CHECK_DEADLOCK FALSE
