SPECIFICATION VoiceSpec
CONSTANTS
  Nothing = Nothing
  VoiceLimits <- MCOneSession
CHECK_DEADLOCK FALSE
INVARIANT DictationGoesOn
