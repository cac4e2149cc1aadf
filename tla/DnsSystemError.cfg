CONSTANTS
  DNS_ERROR_COUNT = 1
  DNS_TIMEOUT = 1
  Ids = 2
  MaxRequests = 1
  MaxSpent = 1
SPECIFICATION Spec
INVARIANT NoSystemError
CHECK_DEADLOCK FALSE
