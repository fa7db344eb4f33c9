SPECIFICATION Spec
CONSTANTS
    Bits = {1, 2, 3}
    Samples = {1}
    Image <- Images
    FilterLists <- Lists
    BlurThreshold = 100
    HashThreshold = 1
    DetectEvery = 3
    MaxFrames = 10
INVARIANTS
    TypeOK
    DuplicatesResembleOutput
    OutputsDiffer
    MovingSceneIsDetected
    OutputCarriesDetections
