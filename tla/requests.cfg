SPECIFICATION Spec
CONSTANTS
  Request = {r1, r2, r3}
  Worker = {w1}
  Student = {s1, s2}
  Agent = {a1}
  Leaver = leaver
  None = None
  StartKey = {k1, legacy}
  LegacyKey = legacy
  TransferKey = {t1}
  MaxCrash = 1
  Asked = {"start", "offboard", "transfer"}
  Targets = {a1, leaver}
  Op <- MCOp
CHECK_DEADLOCK FALSE
SYMMETRY Symmetry
INVARIANTS
  TypeOK
  OneBatch
PROPERTIES
  KeepsPromise
