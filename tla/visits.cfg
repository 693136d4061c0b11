SPECIFICATION Spec
CONSTANTS
  Agent = {a1}
  Admin = {root}
  Student = {s1}
  None = None
  KeyKinds = {"home_visit", "campus_visit", "enrollment_settlement"}
  WorkKey <- MCWorkKey
  KindOf <- MCKindOf
  StudentOf <- MCStudentOf
SYMMETRY Symmetry
CONSTRAINT NoHelp
INVARIANTS
  TerminalHasNoTask
  SourceMirrored
  EnrolledHasRecord
