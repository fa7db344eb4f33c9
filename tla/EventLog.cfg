SPECIFICATION Spec
CONSTANTS
    Level = {info, warning}
    Any = Any
    Filter = {Any, warning}
    PageSize = 1
    IdLists <- Requests
    MaxInFlight = 2
    MaxEvents = 2
INVARIANTS
    TypeOK
    PageIsFull
    ShowsSelectedLevel
    AckedMeansAcked
PROPERTIES
    OnlyRequestedAreAcked
