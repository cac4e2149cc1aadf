CONSTANTS
  Callback = TRUE
  MaxChanges = 3
  MaxCalls = 2
SPECIFICATION Spec
INVARIANT TypeOK
INVARIANT ChangesTracked
PROPERTY LinkFollowed
PROPERTY MagicPacketEndsMode
