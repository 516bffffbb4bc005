SPECIFICATION SpeechSpec
CONSTANTS
    MaxCalls = 2
    MaxAudio = 2
INVARIANT FramesAreRead
CHECK_DEADLOCK FALSE
