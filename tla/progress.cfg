SPECIFICATION FairSpec
CONSTANTS
  Request = {r1, r2, r3}
  Worker = {w1}
  Student = {s1}
  Agent = {a1}
  Leaver = leaver
  None = None
  StartKey = {legacy}
  LegacyKey = legacy
  TransferKey = {t1}
  MaxCrash = 1
  Asked = {"offboard", "transfer", "assign", "employ"}
  Targets = {a1, leaver}
  Op <- MCOp
CHECK_DEADLOCK FALSE
PROPERTIES
  EveryRequestEnds
