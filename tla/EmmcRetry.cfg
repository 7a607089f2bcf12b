\* One fault, three attempts.
SPECIFICATION Spec
CONSTANTS
  Attempts = 3
  MaxRetries = 3
  MaxXfer = 1
  Lbas = {1}
  MaxBusy = 0
  MaxFaults = 1
  DoneAfterTimeout = FALSE
INVARIANTS RetriesAreTries
CHECK_DEADLOCK FALSE
