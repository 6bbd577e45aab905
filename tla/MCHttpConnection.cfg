SPECIFICATION FairSpec
CONSTANTS
  MaxHead = 2
  MaxLength = 3
  MaxBytes = 7
  HeadLimit = 1
  BodyLimit = 2
  Chunk = 3
INVARIANTS
  WholeBodies
  
  OneForOne
  AbortIsFirst
PROPERTIES
  CompleteIsAnswered
