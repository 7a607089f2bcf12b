\* Clusters of 16 sectors, where the sectors of an end mark lie before the first
\* cluster, and of 8, where they are not on the card.  Files longer than the heap, and one that
\* has, with the cluster the end mark is taken for, as many bytes as there are addresses.
SPECIFICATION FairSpec
CONSTANTS
  EntryMod = 128
  AddrMod = 2048
  CardSectors = 1024
  ClusterBytes = 4
  PerCluster = 2
  SizeMod = 128
  HeapStarts = {12, 46, 48}
  HeapEnd = 48
  SectorBytes = 1
  FatBytes = 2
  DirentBytes = 1
  FileBytes = 1
  Last = 34
  Lengths = {20, 28, 31}
  ClusterSizes = {8, 16}
  EndMarks = {120, 127}
  MediaEntries = {112}
  Names <- SomeNames
  NoString = ""
  Strings <- SomeStrings
  Volumes <- SomeVolumes
INVARIANTS WithinBuffer FileIsWhole LookupExact ListingComplete
PROPERTIES CallReturns
\* A failed demand stops the machine.
CHECK_DEADLOCK FALSE
