CONSTANTS
  p1 = p1
  p2 = p2
  r1 = r1
  weights = weights
  tokenizer = tokenizer
  special = special
  Nobody = Nobody
  Packagers <- MCPackagers
  Readers <- MCReaders
  Items <- MCItems
  Required <- MCRequired
SPECIFICATION Spec
CHECK_DEADLOCK FALSE
INVARIANTS
  ReturnedIsComplete
  DamageIsFound
PROPERTY PublishedStays
