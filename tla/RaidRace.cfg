SPECIFICATION Spec
CONSTANTS
  a = a
  b = b
  Handler <- TwoHandlers
  Level <- LowToHighest
  Gap = 1
  Duration = 1
  Scopes <- OnlyOneAlarm
CHECK_DEADLOCK FALSE
INVARIANTS PriorIsRemembered
