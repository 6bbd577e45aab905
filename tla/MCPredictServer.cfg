SPECIFICATION FairServerSpec
CONSTANTS
  r1 = r1
  r2 = r2
  a = a
  Nobody = Nobody
  Requests <- MCRequests
  Aliases <- MCAliases
  AliasOf <- MCAliasOf
  Capacity = 1
  Concurrency = 2
  Timeout = 1
INVARIANTS
  TwoDeadlines
PROPERTIES
  EveryRequestAnswered
