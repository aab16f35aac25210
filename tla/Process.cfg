SPECIFICATION ProcessSpec
CONSTANTS
  a = a
  b = b
  g1 = g1
  g2 = g2
  Handler <- TwoHandlers
  EventHandler <- TwoHandlers
  Guild <- TwoGuilds
  MemberCap = 1
  DeferCap = 1
  UpdateGrace = 1
  MaxUpdateGrace = 2
  Starts <- FewEvents
  Width = 4
  MaxMissed = 3
  MaxLate = 2
  Statements = 2
  Timeout = 1
  Broken <- Nothing
  DropsLoading = FALSE
  MaxDrops = 2
CHECK_DEADLOCK FALSE
INVARIANTS LateCostsTwo UsesPrepared
PROPERTIES GraceRespected HandlersReturn AttachedIsAskedFor ShutdownCompletes DeadlockEndsProcess ReconnectsInTime
