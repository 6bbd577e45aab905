SPECIFICATION MCSpec
CONSTANTS
  Batches <- AllBatches
  Wishes <- AllWishes
  Machines <- AllMachines
  Checkpoints <- AllCheckpoints
INVARIANTS
  ReachIsExact
  EmptyOnlyIfNegative
  SeesWholeRow
  PlanIsReal
