SPECIFICATION Spec
CONSTANTS
  Students = {1, 2, 3}
  Groups = {g1, g2}
  First = {g1}
  PhonePage = 1
  DeskPage = 2
  MaxClicks = 3
  MaxElsewhere = 2
INVARIANTS
  NothingSkipped
  UngroupedIsTrue
  
PROPERTIES
  BarMeansAll
CHECK_DEADLOCK FALSE
