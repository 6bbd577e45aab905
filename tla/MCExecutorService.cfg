SPECIFICATION Spec
CONSTANTS
  NoJob = NoJob
  j1 = j1
  j2 = j2
  j3 = j3
  j4 = j4
  Jobs <- MCJobs
  Timed <- MCTimed
  Capacity = 2
  Concurrency = 1
  MaxStops = 1
  Generations = 3
SYMMETRY JobSymmetry
INVARIANTS
  ThreadsBounded
PROPERTIES
  ImplementsService
