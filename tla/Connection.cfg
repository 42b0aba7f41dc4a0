SPECIFICATION FairSpec
CONSTANTS
  LENGTH_PREFIX = 4
  RecvSize = 12
  Sizes <- MCSizes
  Undecodable = {4}
  AnswerSize = 1
  Window = 3
INVARIANTS TypeOK
PROPERTIES ImplementsExchange Answered
CHECK_DEADLOCK FALSE
