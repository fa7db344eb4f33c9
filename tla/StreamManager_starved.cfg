SPECIFICATION FairSpec
CONSTANTS
    N = 2
    MaxConcurrentStarts = 1
    StreamID <- Cam
    IdOf <- IdDistinct
    OwnTopic <- NoTopic
PROPERTY
    EveryStreamStarts
