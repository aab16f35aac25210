SPECIFICATION Spec
CONSTANTS
  w1 = w1
  w2 = w2
  g1 = g1
  g2 = g2
  art = art
  fun = fun
  i1 = i1
  i2 = i2
  Files <- OldFiles
  MaxCrashes = 2
  MaxChanges = 2
  Requests <- AllRequests
  Events <- AllEvents
  Category <- Categories
  Type <- TypeOf
  Default <- DefaultOf
  Lower <- LowerCase
  Valid <- ValidWords
  Typed <- AllSettings
  MaxSettings = 2
  Worker <- TwoWorkers
  Guild <- TwoServers
  TagName <- TwoTags
  Content <- TwoContents
  Existing <- FirstTags
  Importable <- OneServer
  MaxUnique = 2
  Queries <- FewQueries
  MaxRows = 4
  MaxWork = 4
  r1 = r1
  r2 = r2
  ReadyHook <- TwoReadys
  Platforms = 2
  MaxReleases = 1
  MaxFaults = 1
CHECK_DEADLOCK FALSE
SYMMETRY Alike
INVARIANTS MigrationKeepsChoices RulesAreKept SettingsReadBack SearchAsWritten UpdatesArrive
PROPERTIES ServersApart
