\* Zones whose locations may carry "*" below the leftmost label (a location
\* "*.*"), so that a wildcard can exist only as an empty non-terminal.
CONSTANTS
    Labels <- MCLabels
    QueryLabels <- MCQueryLabels
    ZoneName <- MCZoneName
    MaxLocDepth = 2
    MaxQueryDepth = 3
    MaxLocations = 3
    InteriorWildcards = TRUE
    Nil = Nil
SPECIFICATION Spec
INVARIANTS
    MatchAgreesWithReference
