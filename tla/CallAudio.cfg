SPECIFICATION FairSpec
CONSTANTS
    MaxMsgs = 2
    MaxParts = 2
    MaxModels = 2
    MaxUtterances = 2
    MaxEvents = 2
    VoiceInterruption = FALSE
CHECK_DEADLOCK FALSE
INVARIANTS
    SpokenInFull
PROPERTIES
    NotHeardWhileSpeaking
    MicReopens
