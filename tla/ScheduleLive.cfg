SPECIFICATION FairSpec
CONSTANTS
  a = a
  b = b
  ban = ban
  pony = pony
  filly = filly
  Handler <- OneHandler
  Sanctioned <- OneBan
  Celebrated <- NoPony
  MaxRows = 2
  Durations <- OnlyOne
  Repeats <- OnlyOnce
  Day = 1
  Year = 2
  Prompt = TRUE
  LastTime = 3
  MaxCommands = 2
  MaxOutages = 1
  MaxRestarts = 0
  MaxFailures = 1
  MaxDeletions = 1
  MaxMoves = 1
CHECK_DEADLOCK FALSE
PROPERTIES DueHappens
