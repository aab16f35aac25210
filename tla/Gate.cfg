SPECIFICATION Spec
CONSTANTS
  a = a
  b = b
  hash1 = hash1
  hash2 = hash2
  Handler <- TwoHandlers
  Key <- TwoKeys
  Throttled <- FirstKey
  Settings <- NoneOneThree
  Interval = 1
  Scopes <- SerialAndOverlapping
CHECK_DEADLOCK FALSE
INVARIANTS LimitsHold JamsOnlyAfterChange
PROPERTIES RefusedForCause
