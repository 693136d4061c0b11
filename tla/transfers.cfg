SPECIFICATION Spec
CONSTANTS
  Request = {r1, r2, r3, r4}
  Worker = {w1, w2}
  Student = {s1, s2}
  Agent = {a1}
  Leaver = leaver
  None = None
  StartKey = {legacy}
  LegacyKey = legacy
  TransferKey = {t1, t2}
  MaxCrash = 0
  Asked = {"offboard", "transfer"}
  Targets = {a1}
  Op <- MCOp
CHECK_DEADLOCK FALSE
SYMMETRY Symmetry
CONSTRAINT TwoAtATime
INVARIANTS
  CountersMatch
  ReplaysAgree
