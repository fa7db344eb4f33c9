SPECIFICATION Spec
CONSTANTS
    MaxFrames <- Frames
    MaxAttempt <- Attempts
    PipeCap <- Cap
PROPERTY
    BacksOffAfterExit
