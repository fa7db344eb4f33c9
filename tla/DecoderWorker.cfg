SPECIFICATION FairSpec
CONSTANTS
    MaxFrames <- Frames
    MaxAttempt <- Attempts
    PipeCap <- Cap
INVARIANTS
    TypeOK
    NoOrphanFfmpeg
PROPERTIES
    ImplementsFrameStream
    ImplementsFairFrameStream
    DeadFfmpegIsReplaced
