CONSTANTS
  DNS_ERROR_COUNT = 1
  DNS_TIMEOUT = 1
  Ids = 2
  MaxRequests = 2
  MaxSpent = 3
SPECIFICATION Spec
INVARIANT TypeOK
INVARIANT TriesBounded
INVARIANT CallsBalance
INVARIANT SuccessReachesAsker
INVARIANT AnswerIsFresh
PROPERTY EveryRequestEnds
CHECK_DEADLOCK FALSE
