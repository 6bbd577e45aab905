CONSTANTS
  MaxLen = 12
  HeadMaxLen = 8
  OptionCap = 3
  Reserve = 3
  MinOption = 2
  MinHead = 1
  Threads <- TwoThreads
  Requests <- AllRequests
  Runtimes <- AllRuntimes
  Capacity = 1
SPECIFICATION Spec
INVARIANTS
  AnswersAreDirect
  MarkersAreMasks
  CutOnlyWhenFull
  CacheSound
  AloneIsSafe
