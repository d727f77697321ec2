SPECIFICATION Spec
CONSTANTS
  root = root
  ada = ada
  tab1 = tab1
  tab2 = tab2
  name1 = name1
  name2 = name2
  none = none
  Accounts = {root, ada}
  Admins = {root}
  Tabs = {tab1, tab2}
  Names = {name1, name2}
  None = none
  MaxSteps = 3
  MaxFlight = 2
  MaxFaults = 1
  SessionSteps = 3
  DocumentSteps = 2
INVARIANTS
  TypeOK
  ViewsConverge
  EditsLand
  RemovedAsAsked
  ProfileIsOfSession
CHECK_DEADLOCK FALSE
