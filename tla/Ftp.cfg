SPECIFICATION Spec
CONSTANTS
  SERVER_MAX_OPEN_FILE = 2
  DATA_BUF_SIZE = 2
CONSTRAINT Fresh
INVARIANT TypeOK
INVARIANT FilesAreClosed
INVARIANT WholeTransfer
INVARIANT Answered
PROPERTY ResetEnds
