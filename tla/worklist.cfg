SPECIFICATION Spec
CONSTANTS
  Students = {1, 2}
  FirstClass = {2}
  MaxEdits = 2
  MaxLoads = 2
INVARIANTS
  SettledRowIsTrue
  
PROPERTIES
  LoadKeepsCard
