SPECIFICATION Spec
CONSTANTS
  Tokens = {t1, t2, t3, t4}
  First = t1
  NoToken = none
  RenewBefore = 2
  RetryAfter = 1
  MaxLease = 5
  MaxTime = 5
SYMMETRY TokenSymmetry
INVARIANTS TypeOK NoForgottenToken AcceptedNotRevoked RenewalArmed FewUnexpired CurrentOutlastsOthers
PROPERTY ClosedIsFinal
CHECK_DEADLOCK FALSE
