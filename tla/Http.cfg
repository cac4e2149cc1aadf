CONSTANTS
  HTTP_TCP_CEP_NUM = 2
  RCV_BUF_SIZE = 3
  BODY_BUF_SIZE = 2
  HdrSize = 2
  MaxFile = 3
SPECIFICATION Spec
INVARIANT TypeOK
INVARIANT OneCallAtATime
INVARIANT ReceiveInBounds
INVARIANT FilesFollowConnections
INVARIANT BufferHoldsWhatIsSent
INVARIANT WholeResponse
PROPERTY ServesAgain
