\* Three concurrent requests of two users on one zone name and one location name.
CONSTANTS
    u1 = u1
    u2 = u2
    r1 = r1
    r2 = r2
    r3 = r3
    r4 = r4
    zone = zone
    www = www
    Users <- MCUsers
    Requests <- MCRequests
    ZoneNames <- MCZoneNames
    LocNames <- MCLocNames
    RTypes <- MCRTypesSupported
    SupportedTypes <- MCSupportedTypes
    Ops <- MCZoneLocationOps
    Nil = Nil
SPECIFICATION Spec
\* All requests end; the handlers really stop.
CHECK_DEADLOCK FALSE
PROPERTIES
    DuplicateOnlyForOwnZone
