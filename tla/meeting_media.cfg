SPECIFICATION PartSpec
CONSTANTS
  Participants = {1, 2}
  None = None
  MaxPeers = 3
  Scenarios <- MCScenarios
  Nothing = Nothing
  VoiceLimits <- MCVoiceLimits
CHECK_DEADLOCK FALSE
INVARIANTS
  DevicesReleased StalePeersWereBare SendersFollowCamera MissedOnlyUnheard
  DictationKeepsOrder OnlyRemadeTurnsBlock
