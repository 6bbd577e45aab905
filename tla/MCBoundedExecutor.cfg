SPECIFICATION FairSpec
CONSTANTS
  NoJob = NoJob
  Jobs = {j1, j2, j3}
  Timed = {j1, j2}
  Capacity = 2
  Concurrency = 1
  MaxStops = 1
  Generations = 2
INVARIANTS
  NoLostJob
  AnswerMatchesRun
PROPERTIES
  NoWorkForTheAnswered
  DeadlineAnswers
  Drains
