\* A line without faults, and one request that is repeated although the answer is
\* about to be sent.
SPECIFICATION Spec
CONSTANTS
  CodeLen = 2
  TextLen = 3
  MaxFaults = 0
  MaxLate = 1
  MaxReboots = 1
  MaxAhead = 20
INVARIANTS ExtraAsksDrained
CHECK_DEADLOCK FALSE
