---------------------------- MODULE MCAdminStore ----------------------------
(* AdminStore for TLC: two users, one zone name, one location name.        *)
EXTENDS AdminStore, TLC

CONSTANTS u1, u2, r1, r2, r3, r4, zone, www

MCUsers == {u1, u2}
MCRequests == {r1, r2, r3}
\* Four requests: enough for a location write to race a zone delete and its
\* re-creation with a new location.
MCRequests4 == {r1, r2, r3, r4}
MCZoneNames == {zone}
MCLocNames == {www}
\* An unsupported type for rtypeValid to reject.
MCRTypes == {"A", "TYPE0"}
MCRTypesSupported == {"A"}
MCSupportedTypes == {"A"}
\* The zone and location operations, with record sets only as what a
\* delete cascades to.
MCZoneLocationOps == ZoneOps \cup LocationOps
\* The record-set operations racing the deletes of their location and zone.
MCRecordSetOps == RecordSetOps \cup {"DeleteZone", "DeleteLocation"}
MCAllOps == ZoneOps \cup LocationOps \cup RecordSetOps \cup GetOps \cup ListOps
\* A list racing the delete and re-creation of its zone: with MCRequests4 a
\* fourth request can add a location to the re-created zone.
MCReadRaceOps == {"AddZone", "DeleteZone", "AddLocation", "GetLocations"}

\* Requests behave alike and so do users; the properties are safety ones.
MCSymmetry == Permutations(MCUsers) \cup Permutations(MCRequests)
MCSymmetry4 == Permutations(MCUsers) \cup Permutations(MCRequests4)
=============================================================================
