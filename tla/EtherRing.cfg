CONSTANTS
  RxDescriptors = 2
  MaxRxFrames = 4
  TxDescriptors = 2
  MaxTxFrames = 3
SPECIFICATION Spec
INVARIANT TypeOK
INVARIANT HeldFrameStable
INVARIANT ReadInOrder
PROPERTY SendsInOrder
PROPERTY ReceptionRestarts
PROPERTY AcceptedFramesLeave
