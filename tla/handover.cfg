SPECIFICATION Spec
CONSTANTS
  Agent = {a1, a2}
  Admin = {root}
  Student = {s1, s2}
  None = None
  KeyKinds = {"lead_contact", "scheduled_follow_up"}
  WorkKey <- MCWorkKey
  KindOf <- MCKindOf
  StudentOf <- MCStudentOf
SYMMETRY Symmetry
CONSTRAINT NoHelp
INVARIANTS
  AssignedWorkFollowsAgent
  PendingAreTheLeavers
  BatchAccounts
PROPERTIES
  NoPendingStudentDropped
