SPECIFICATION Spec
CONSTANTS
  Outcomes = {"interested_wechat", "missed_call", "phone_invalid"}
  Students = {s1, s2}
  MaxAsks = 1
  MaxPicks = 3
  MaxLogs = 2
  MaxReminders = 1
  MaxNotes = 1
SYMMETRY Symmetry
INVARIANTS
  UntouchedHasNoDate
PROPERTIES
  
  NoteReachesService
