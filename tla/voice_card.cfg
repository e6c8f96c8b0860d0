SPECIFICATION VoiceSpec
CONSTANTS
  Nothing = Nothing
  VoiceLimits <- MCTwoThoughts
CHECK_DEADLOCK FALSE
INVARIANT WrittenWhereSaid
