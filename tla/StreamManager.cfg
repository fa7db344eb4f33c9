SPECIFICATION FairSpec
CONSTANTS
    N = 3
    MaxConcurrentStarts = 2
    StreamID <- Cam
    IdOf <- IdWithDuplicate
    OwnTopic <- SecondHasTopic
INVARIANTS
    TypeOK
    SlotsAreAccounted
    StopPassIsComplete
    UnstoppedIsExplained
PROPERTIES
    CloseComesLast
    StartReturnsAfterCancel
    StopReturns
    CancelledReturns
    OnlyStreamsHoldUpStart
