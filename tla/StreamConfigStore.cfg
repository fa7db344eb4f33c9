SPECIFICATION Spec
CONSTANTS
    StreamID <- Cam
    Unset <- NoID
    Boot <- TwoBoot
    Foreign <- Memory
    MaxOps = 2
INVARIANTS
    TypeOK
    LaunchesWhatWasThere
PROPERTIES
    ImplementsStreamList
