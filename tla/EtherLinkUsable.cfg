CONSTANTS
  Callback = TRUE
  MaxChanges = 1
  MaxCalls = 0
SPECIFICATION Spec
INVARIANT EnabledMeansUsable
