SPECIFICATION Spec
CONSTANTS
    Box <- AllBoxes
    ThresholdNum = 3
    ThresholdDen = 10
    MaxLost = 1
    Scenes <- Frames
    MaxDets = 3
    MaxFrames = 4
INVARIANTS
    TypeOK
    TracksAreBounded
    SharingOnlyOfNewTracks
    ContinuousFaceKeepsTrack
PROPERTIES
    IdsAreNeverReused
