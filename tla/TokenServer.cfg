SPECIFICATION FairHook
CONSTANTS
  Tokens = {t1, t2, t3}
  First = t1
  NoToken = none
  RenewBefore = 2
  RetryAfter = 1
  MaxLease = 2
  MaxTime = 3
  Scans = {s1}
  MaxCollected = 3
INVARIANTS ServerInv CleanupComplete
PROPERTIES AnswersAreUsable ImplementsLifecycle SurrenderedEnds
CHECK_DEADLOCK FALSE
