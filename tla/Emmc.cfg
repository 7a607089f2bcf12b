\* Three attempts and tries as in do_data_command, reads of up to two sectors and
\* one too many, three faults, either kind of card.
SPECIFICATION FairSpec
CONSTANTS
  Attempts = 3
  MaxRetries = 3
  MaxXfer = 2
  Lbas = {1, 3}
  MaxBusy = 1
  MaxFaults = 3
  DoneAfterTimeout = FALSE
INVARIANTS ReadIsWhole InitMeansReady
PROPERTIES FaultlessInit ReadEnds
\* A dead driver has panicked.
CHECK_DEADLOCK FALSE
