CONSTANTS
  MaxQuestions = 2
  MaxOptions = 2
  TokenRequired = TRUE
  Requests <- AllRequests
  MaxBody = 4
  ServerLimit = 3
  ClientLimit = 2
SPECIFICATION FairSpec
INVARIANTS
  AnswerIsTheServers
  RunsAsTold
  QuestionsAgree
PROPERTY CallEnds
