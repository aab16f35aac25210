SPECIFICATION FairSpec
CONSTANTS
  a = a
  b = b
  Handler <- TwoHandlers
  Level <- LowToHighest
  Gap = 1
  Duration = 2
  Scopes <- InTurnAndAtOnce
CHECK_DEADLOCK FALSE
INVARIANTS PriorIsRememberedInTurn AlarmsApart
PROPERTIES LiftsInTime LockdownEnds
