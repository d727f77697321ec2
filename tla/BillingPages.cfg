SPECIFICATION Spec
CONSTANTS
  none = none
  None = none
  MaxSteps = 5
  MaxEdits = 1
  MaxFlight = 2
  MaxDeliveries = 2
  MaxFaults = 1
INVARIANTS
  TypeOK
  PaidMeansPaid
  CancelledStays
CHECK_DEADLOCK FALSE
