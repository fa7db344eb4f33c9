SPECIFICATION FairSpec
CONSTANTS
    StreamID <- Cam
    All = All
    Status = {All, running}
    Boot <- OneBoot
    MaxInFlight = 2
    MaxEdits = 1
INVARIANTS
    TypeOK
    ShowsWhatIsAsked
    ActionIsShown
PROPERTY
    LoadingEnds
