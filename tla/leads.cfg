SPECIFICATION Spec
CONSTANTS
  Agent = {a1, a2}
  Admin = {root, deputy}
  Student = {s1}
  None = None
  KeyKinds = {"lead_contact", "help_request", "scheduled_follow_up", "enrollment_settlement"}
  WorkKey <- MCWorkKey
  KindOf <- MCKindOf
  StudentOf <- MCStudentOf
SYMMETRY Symmetry
INVARIANTS
  TypeOK
  ActiveWorkHasOwner
  HelpIffAsked
  OffboardedFollowNobody
  AnActiveAdminRemains
PROPERTIES
  LeadLostOnlyByReclaim
