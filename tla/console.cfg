SPECIFICATION Spec
CONSTANTS
  None = None
  Leaving = {1, 2, 3}
  BatchOf <- TwoBatches
  Staff = {ann, bob}
  Agents = {ann, bob}
  Leads = {x, y}
  Pages = {"handover", "agents", "leads", "settlement", "reclaim", "visits"}
  Pupils = {1, 2, 3}
  PageSize = 2
  RegionOf <- TwoRegions
  Callers = {ann, bob}
  Enrolling = {x, y}
  Sellers = {ann, bob}
  Visits = {x, y}
  MaxClicks <- Clicks
  Given = {1, 2, 3}
  SchoolOf <- TwoRegions
  Holders = {ann, bob}
  MaxElsewhere <- Others
SYMMETRY Alike
PROPERTIES
  MovesWhatWasCounted
  SuspendsWhatWasSeen
  StartAgainFindsBatch
  
  SettledStaysPaid
  TakesWhatWasPreviewed
  WorkStaysWithHolder
  FirstRecordStands
CHECK_DEADLOCK FALSE
