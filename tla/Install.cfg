\* Two ttys, one change of /dev before the boot and one after it; Boot with two damaged
\* bytes, a request repeated too late and a reboot; a FIFO of two characters.
SPECIFICATION InstallFairSpec
CONSTANTS
  CodeLen = 2
  TextLen = 3
  MaxFaults = 2
  MaxLate = 1
  MaxReboots = 1
  MaxAhead = 20
  Names <- MCNames
  Serial = {"ttyACM0", "ttyUSB0"}
  Times = {1, 2}
  MaxChanges = 1
  Outputs <- MCOutputs
  exit_string <- MCExitString
  Unprintable = {"CR"}
  FifoLen = 2
INVARIANTS DoneMeansRunning NoCharLost
PROPERTIES JumpReported InstallSettles HostExits
CHECK_DEADLOCK FALSE
