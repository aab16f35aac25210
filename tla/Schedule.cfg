SPECIFICATION Spec
CONSTANTS
  a = a
  b = b
  ban = ban
  pony = pony
  filly = filly
  Handler <- TwoHandlers
  Sanctioned <- OneBan
  Celebrated <- TwoPonies
  MaxRows = 2
  Durations <- OnlyOne
  Repeats <- OnceOrTwo
  Day = 1
  Year = 2
  Prompt = TRUE
  LastTime = 4
  MaxCommands = 2
  MaxOutages = 1
  MaxRestarts = 1
  MaxFailures = 0
  MaxDeletions = 0
  MaxMoves = 0
SYMMETRY Interchangeable
CHECK_DEADLOCK FALSE
INVARIANTS HasEnd NoOverstay NoneSkipped RepeatsBounded
