\* One worker; no eviction between the store to cmd_seq and the clean of the function.
SPECIFICATION FairSpec
CONSTANTS
  NumCores = 2
  Work = work
  EnableMmu = enable_mmu
  NullFunc = null
  SeqMod = 3
  EvictsInWindow = FALSE
INVARIANTS CheckDoneSound NoStaleLine
PROPERTIES CallRunsFunction WaitReturns
