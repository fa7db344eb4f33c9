SPECIFICATION Spec
CONSTANTS
    N = 2
    MaxConcurrentStarts = 2
    StreamID <- Cam
    IdOf <- IdDistinct
    OwnTopic <- NoTopic
INVARIANT
    ShutdownDoesNotPanic
