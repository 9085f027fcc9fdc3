\* Three concurrent requests of two users, every operation and both lists, a supported and an unsupported record type.
CONSTANTS
    u1 = u1
    u2 = u2
    r1 = r1
    r2 = r2
    r3 = r3
    r4 = r4
    zone = zone
    www = www
    Users <- MCUsers
    Requests <- MCRequests
    ZoneNames <- MCZoneNames
    LocNames <- MCLocNames
    RTypes <- MCRTypes
    SupportedTypes <- MCSupportedTypes
    Ops <- MCAllOps
    Nil = Nil
SYMMETRY MCSymmetry
SPECIFICATION Spec
\* All requests end; the handlers really stop.
CHECK_DEADLOCK FALSE
INVARIANTS
    TypeOK
    
    
