SPECIFICATION SpamOnly
CONSTANTS
  p1 = p1
  p2 = p2
  e1 = e1
  e2 = e2
  f1 = f1
  f2 = f2
  c1 = c1
  c2 = c2
  Poster <- TwoPosters
  Text = {"quiet", "loud"}
  Weight <- TextWeight
  BasePressure = 1
  RepeatPressure = 1
  FilterPressure = 2
  MaxPressure = 2
  PressureDecay = 1
  Brief = 1
  SpamScopes <- DefaultScope
  Editor <- TwoEditors
  Filter <- TwoFilters
  Word = {"rude", "bad("}
  Broken = {"bad("}
  Room = {"chat"}
  Trigger = {"hello", "bad(", "a)(b"}
  Unclosed = {"a)(b"}
  MaxEdits = 4
  Caller <- TwoCallers
  Item = {"rock", "hat", "cup"}
  Name = {"deaths"}
  User = {"mare"}
  Role = {1, 2}
  MaxItems = 2
  MaxHP = 2
  MaxValue = 2
  MaxQuotes = 2
  Groups <- StoreGroups
  MaxCommands = 4
  MaxByHand = 1
  g1 = g1
  g2 = g2
  h1 = h1
  h2 = h2
  n1 = n1
  n2 = n2
  Guild <- TwoGuilds
  Hand <- TwoHands
  Username <- TwoNames
  Person = {"mare"}
  Lookback = 1
  MaxDay = 3
  MaxEvents = 3
CHECK_DEADLOCK FALSE
INVARIANT SpammerIsSilenced
