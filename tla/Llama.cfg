SPECIFICATION Spec
CONSTANTS
  WordMod = 65536
  LinkStart = 1000
  DefaultSize = 4096
  MaxAsk = 1500
  Regions <- MCRegions
  Alignments = {128}
  MaxAlign = 128
  Cpus = {0, 1, 2}
  OneMB = 1024
  PtLevel1N = 32
  Raw = 10
  Space = 1
  Continuation = {4}
  Printable = {1, 2, 5}
  MinScore <- MCMinScore
  CoinMod = 4
  Runs <- MCRuns
  Tokenizers <- MCTokenizers
  Distributions <- MCDistributions
  STEPS = 3
  SEG_HEAP = 1024
  HeapBytes = 3072
  STACK_ADDR = 3072
  INT_STACK_ADDR = 8192
  WorkerStacks = {800, 1000}
  Peripherals <- MCPeripherals
  SizeofConfig = 28
  SizeofHeader = 41
  CodeWords = 3
  MaxCandidates = 2
  MaxSamples = 4
INVARIANTS BlocksSafe XlateIdentity LogitsExact SampleSound EncodeSpells EchoesPrompt DumpIsTop
PROPERTIES UsesHeapAsProved
