SPECIFICATION Spec
CONSTANTS
  tab1 = tab1
  tab2 = tab2
  none = none
  Tabs = {tab1, tab2}
  None = none
  MaxSteps = 4
  MaxFlight = 2
  MaxPolls = 1
  MaxFaults = 1
SYMMETRY Symmetric
INVARIANTS
  TypeOK
  ResultsAreReadable
  ShowsWhatWasAsked
CHECK_DEADLOCK FALSE
