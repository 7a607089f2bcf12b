\* Clusters of 8 sectors: the sectors of an end mark are not on the card.
SPECIFICATION FairSpec
CONSTANTS
  EntryMod = 128
  AddrMod = 2048
  CardSectors = 1024
  ClusterBytes = 4
  PerCluster = 2
  SizeMod = 128
  HeapStarts = {1}
  HeapEnd = 48
  SectorBytes = 1
  FatBytes = 2
  DirentBytes = 1
  FileBytes = 1
  Last = 34
  Lengths = {}
  ClusterSizes = {8}
  EndMarks = {127}
  MediaEntries = {120}
  Names <- SomeNames
  NoString = ""
  Strings <- SomeStrings
  Volumes <- SomeVolumes
INVARIANT NeverPanics
CHECK_DEADLOCK FALSE
