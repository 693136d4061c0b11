SPECIFICATION Spec
CONSTANTS
  Tabs = {t1, t2}
  Accounts = {agent}
  Ops = {1, 2}
  MaxRuns = 2
  MaxClicks = 2
  MaxResets = 1

  
  
PROPERTIES
  TabsSettle
CHECK_DEADLOCK FALSE
