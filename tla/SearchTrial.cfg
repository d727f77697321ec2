SPECIFICATION Spec
CONSTANTS
  tab1 = tab1
  tab2 = tab2
  none = none
  Tabs = {tab1, tab2}
  None = none
  MaxSteps = 3
  MaxFlight = 2
  MaxPolls = 1
  MaxFaults = 0
INVARIANT OneFreeSearchADay
CHECK_DEADLOCK FALSE
