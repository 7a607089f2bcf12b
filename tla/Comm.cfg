\* The message as it is, one misread bit on either side.
SPECIFICATION FairSpec
CONSTANTS
  Message <- SyncMessage
  MagicBytes = {1, 2, 3, 4}
  LengthBytes = {10, 11, 12, 13}
  HeaderBytes = 13
  MaxFaults = 1
  CrcInTime = TRUE
  PrintIsSlow = TRUE
INVARIANTS InStep Faithful DoneMeansAgreed
PROPERTIES BothComplete DoneTogether
\* After the handshake, or a panic, there is no more to do.
CHECK_DEADLOCK FALSE
