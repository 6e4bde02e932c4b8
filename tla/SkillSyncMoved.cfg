CONSTANTS
  Names = {"a", "b"}
  Plugins = {"p", "q"}
  Sources = {"s"}
  Private = {"s"}
  Contents = {1, 2}
  Template = {"plugin"}
  MaxEdits = 2
  Indexed = FALSE
SPECIFICATION SyncSpec
INVARIANT EverySkillHasItsCopy
CHECK_DEADLOCK FALSE
