CONSTANTS
    Labels <- MCLabels
    QueryLabels <- MCQueryLabels
    ZoneName <- MCZoneName
    MaxLocDepth = 2
    MaxQueryDepth = 3
    MaxLocations = 3
    InteriorWildcards = FALSE
    Nil = Nil
SPECIFICATION Spec
INVARIANTS
    TypeOK
    MatchAgreesWithReference
