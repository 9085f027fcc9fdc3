----------------------------- MODULE AdminStore -----------------------------
(***************************************************************************)
(* The zone and location operations of the admin API: the Gin handlers of *)
(* src/internal/api/handlers/zone/handlers.go and the DataBase methods of *)
(* src/internal/api/database/db.go they call.                              *)
(*                                                                         *)
(* Every request runs as its own goroutine, and every DataBase method is a *)
(* sequence of SQL statements outside any transaction: an ownership check  *)
(* (the can* methods), a SELECT of the zone or location, then the INSERT, *)
(* UPDATE or DELETE.  Each statement is atomic and is one step here, so   *)
(* the statements of concurrent requests interleave as they can on MySQL.  *)
(*                                                                         *)
(* The can* methods are not in the source tree; they are modelled as what *)
(* their name and their callers say: the zone exists and is owned by the  *)
(* user, or ErrUnauthorized.  The schema is not in the source tree either; *)
(* the model assumes what parseError and the callers rely on: Zone.Name   *)
(* is unique (error 1062), (Zone_Id, Name) of a location is unique, and   *)
(* Location.Zone_Id is a foreign key to Zone.Id that cascades on delete.  *)
(*                                                                         *)
(* Users exist and are never deleted here (GetUser always finds them).    *)
(* Zone settings, location flags and HTTP status codes are abstracted:    *)
(* a write is recorded in the history `writes`, a response is the error   *)
(* the DataBase method returned ("ok" for nil).                            *)
(***************************************************************************)
EXTENDS Naturals, FiniteSets

CONSTANTS
    Users,       \* authenticated users (model values)
    ZoneNames,   \* zone names requests may use
    LocNames,    \* location names requests may use
    RTypes,          \* record types requests may use
    SupportedTypes,  \* database.SupportedTypes
    Ops,             \* the operations requests may perform
    Requests,        \* concurrent requests, one goroutine each
    Nil

VARIABLES
    zones,    \* Zone table: name |-> Nil or [id, owner]
    locs,     \* Location table: a set of [id, zid, name]
    rsets,    \* RecordSet table: a set of [id, lid, type]
    nextId,   \* the next NewObjectId()
    req,      \* r |-> the handler goroutine of request r
    writes,   \* history: every row change, who made it and to whose zone
    reads     \* history: every list of rows returned, to whom and of whose zone

vars == <<zones, locs, rsets, nextId, req, writes, reads>>

ZoneOps == {"AddZone", "UpdateZone", "DeleteZone"}
LocationOps == {"AddLocation", "UpdateLocation", "DeleteLocation"}
RecordSetOps == {"AddRecordSet", "UpdateRecordSet", "DeleteRecordSet"}
GetOps == {"GetZone", "GetLocation", "GetRecordSet"}
ListOps == {"GetZones", "GetLocations", "GetRecordSets"}

ASSUME Ops \subseteq ZoneOps \cup LocationOps \cup RecordSetOps \cup GetOps \cup ListOps

\* The operations that take a record type.
RTypeOps == RecordSetOps \cup {"GetRecordSet"}

\* The handlers that bind a JSON body (ShouldBindJSON) or a ListRequest
\* query (ShouldBindQuery) before calling the db.
BodyOps == {"AddZone", "UpdateZone", "AddLocation", "UpdateLocation",
            "AddRecordSet", "UpdateRecordSet", "GetZones", "GetLocations"}

Responses == {"none", "ok", "BadRequest", "ErrUnauthorized", "ErrNotFound",
              "ErrInvalid", "ErrDuplicateEntry", "ErrForeignKey"}

ZoneRow == [id : Nat, owner : Users]
LocRow == [id : Nat, zid : Nat, name : LocNames]
RSetRow == [id : Nat, lid : Nat, type : RTypes]

-----------------------------------------------------------------------------
(* The data helpers.                                                       *)

\* getZoneOwner: SELECT User_Id FROM Zone WHERE Name = ?
Owner(z) == IF zones[z] = Nil THEN Nil ELSE zones[z].owner

\* The can* ownership checks (not in the source tree).
Can(u, z) == Owner(z) = u

ZoneIdExists(id) == \E z \in ZoneNames : zones[z] # Nil /\ zones[z].id = id
OwnerOfZoneId(id) == Owner(CHOOSE z \in ZoneNames : zones[z] # Nil /\ zones[z].id = id)

LocById(id) == {l \in locs : l.id = id}
LocByName(zid, n) == {l \in locs : l.zid = zid /\ l.name = n}
LocIdExists(id) == LocById(id) # {}
ZoneIdOfLoc(id) == (CHOOSE l \in LocById(id) : TRUE).zid
RSetById(id) == {x \in rsets : x.id = id}
RSetByType(lid, t) == {x \in rsets : x.lid = lid /\ x.type = t}

\* parseError: MySQL error 1062 is ErrDuplicateEntry, sql.ErrNoRows is
\* ErrNotFound, any other error is returned as it is.
parseError(err) == CASE err = "1062"      -> "ErrDuplicateEntry"
                     [] err = "ErrNoRows" -> "ErrNotFound"
                     [] OTHER             -> err

\* What the callers of a nested Get make of its ErrNotFound.
NotFoundIsInvalid(err) == IF err = "ErrNotFound" THEN "ErrInvalid" ELSE err

\* rtypeValid: a non-empty type of SupportedTypes.
rtypeValid(t) == t \in SupportedTypes

Goto(r, pc) == req' = [req EXCEPT ![r].pc = pc]

\* A DataBase method returns err to the handler, which responds with it.
Respond(r, resp) == req' = [req EXCEPT ![r].pc = "done", ![r].resp = resp]

\* A row change made by request r to a row of the zone with id zid.
Write(r, zid) ==
    writes' = writes \cup {[by |-> req[r].user, owner |-> OwnerOfZoneId(zid),
                            zid |-> zid, authId |-> req[r].authId]}

\* Rows of the zone with id zid returned to request r, if there are any.
Read(r, zid, rows) ==
    reads' = IF rows = {} THEN reads
             ELSE reads \cup {[by |-> req[r].user, owner |-> OwnerOfZoneId(zid),
                               zid |-> zid, authId |-> req[r].authId]}

-----------------------------------------------------------------------------
(* The handlers.                                                           *)

\* extractUser, c.Param, ShouldBindJSON and the db call: a body that does
\* not bind ends the request; the path parameters are never empty on the
\* routes RegisterHandlers declares.
HandlerStart(r, ops, first) ==
    /\ req[r].pc = "handler"
    /\ req[r].op \in ops
    /\ \/ /\ req[r].op \in BodyOps
          /\ Respond(r, "BadRequest")
       \/ Goto(r, first[req[r].op])
    /\ UNCHANGED <<zones, locs, rsets, nextId, writes, reads>>

\* addZone, getZone, updateZone, deleteZone; addZone's db.GetUser always finds the user.
ZoneHandler(r) ==
    HandlerStart(r, ZoneOps \cup {"GetZone"},
                 [AddZone |-> "addZone.owner", GetZone |-> "getZone.can",
                  UpdateZone |-> "updateZone.can", DeleteZone |-> "deleteZone.can"])

\* addLocation, getLocation, updateLocation, deleteLocation.
LocationHandler(r) ==
    HandlerStart(r, LocationOps \cup {"GetLocation"},
                 [AddLocation |-> "addLocation.can", GetLocation |-> "getLocation.can",
                  UpdateLocation |-> "updateLocation.can",
                  DeleteLocation |-> "deleteLocation.can"])

\* addRecordSet, getRecordSet, updateRecordSet, deleteRecordSet.
RecordSetHandler(r) ==
    HandlerStart(r, RTypeOps, [AddRecordSet |-> "addRecordSet.can",
                               GetRecordSet |-> "getRecordSet.valid",
                               UpdateRecordSet |-> "updateRecordSet.valid",
                               DeleteRecordSet |-> "deleteRecordSet.valid"])

\* getZones, getLocations, getRecordSets.
ListHandler(r) ==
    HandlerStart(r, ListOps, [GetZones |-> "getZones.query",
                              GetLocations |-> "getLocations.can",
                              GetRecordSets |-> "getRecordSets.can"])

\* The first ownership check of every method but AddZone; it records the
\* zone it authorised (authId) for the history.
FirstCheck(r, from, to) ==
    LET z == req[r].zone IN
    /\ req[r].pc = from
    /\ IF Can(req[r].user, z)
       THEN req' = [req EXCEPT ![r].pc = to, ![r].authId = zones[z].id]
       ELSE Respond(r, "ErrUnauthorized")
    /\ UNCHANGED <<zones, locs, rsets, nextId, writes, reads>>

-----------------------------------------------------------------------------
(* DataBase.AddZone                                                        *)

\* getZoneOwner: no owner -> INSERT; the user's own zone -> ErrDuplicateEntry;
\* another user's zone -> ErrInvalid.
AddZoneOwner(r) ==
    LET u == req[r].user
        z == req[r].zone
    IN /\ req[r].pc = "addZone.owner"
       /\ CASE Owner(z) = Nil -> Goto(r, "addZone.insert")
            [] Owner(z) = u   -> Respond(r, "ErrDuplicateEntry")
            [] OTHER          -> Respond(r, "ErrInvalid")
       /\ UNCHANGED <<zones, locs, rsets, nextId, writes, reads>>

\* INSERT INTO Zone: the unique Name turns a row inserted since the owner
\* check into error 1062, which parseError maps to ErrDuplicateEntry.
AddZoneInsert(r) ==
    LET z == req[r].zone IN
    /\ req[r].pc = "addZone.insert"
    /\ IF zones[z] # Nil
       THEN /\ Respond(r, parseError("1062"))
            /\ UNCHANGED <<zones, nextId>>
       ELSE /\ zones' = [zones EXCEPT ![z] = [id |-> nextId, owner |-> req[r].user]]
            /\ nextId' = nextId + 1
            /\ Respond(r, "ok")
    /\ UNCHANGED <<locs, rsets, writes, reads>>

-----------------------------------------------------------------------------
(* DataBase.GetZone, GetLocation and GetRecordSet: the can* check, the     *)
(* nested Get, then the SELECT.  Called by their own handlers, they return *)
(* the row; called by the other methods, they pass its id on, and a        *)
(* missing row becomes whatever that caller makes of ErrNotFound.          *)

\* A SELECT that finds no row, as the request's method returns it:
\* parseError makes it ErrNotFound, which the methods of ops asIs return
\* as it is and the others turn into ErrInvalid.
GetError(op, asIs) ==
    LET e == parseError("ErrNoRows") IN
    IF op \in asIs THEN e ELSE NotFoundIsInvalid(e)

\* The can* check of a nested Get; for a request of that Get it is the
\* first check and is recorded (authId) for the history.
GetCheck(r, from, to, op) ==
    LET z == req[r].zone IN
    /\ req[r].pc = from
    /\ IF Can(req[r].user, z)
       THEN req' = [req EXCEPT ![r].pc = to,
                               ![r].authId = IF req[r].op = op THEN zones[z].id ELSE @]
       ELSE Respond(r, "ErrUnauthorized")
    /\ UNCHANGED <<zones, locs, rsets, nextId, writes, reads>>

\* canGetZone
GetZoneCan(r) == GetCheck(r, "getZone.can", "getZone.select", "GetZone")

\* SELECT Id ... FROM Zone WHERE Name = ?
GetZoneSelect(r) ==
    LET z == req[r].zone
        op == req[r].op
    IN /\ req[r].pc = "getZone.select"
       /\ CASE zones[z] = Nil ->
                 /\ Respond(r, GetError(op, {"GetZone", "UpdateZone"}))
                 /\ UNCHANGED reads
            [] op = "GetZone" ->
                 /\ Read(r, zones[z].id, {zones[z]})
                 /\ Respond(r, "ok")
            [] OTHER ->
                 /\ req' = [req EXCEPT ![r].zid = zones[z].id,
                                       ![r].pc = CASE op = "UpdateZone"   -> "updateZone.update"
                                                   [] op = "AddLocation"  -> "addLocation.insert"
                                                   [] op = "GetLocations" -> "getLocations.query"
                                                   [] OTHER               -> "getLocation.select"]
                 /\ UNCHANGED reads
       /\ UNCHANGED <<zones, locs, rsets, nextId, writes>>

\* canGetLocation, then GetZone.
GetLocationCan(r) == GetCheck(r, "getLocation.can", "getZone.can", "GetLocation")

\* SELECT Id ... FROM Location WHERE Zone_Id = ? AND Name = ?, with the zone
\* id GetZone returned.
GetLocationSelect(r) ==
    LET found == LocByName(req[r].zid, req[r].loc)
        op == req[r].op
    IN /\ req[r].pc = "getLocation.select"
       /\ CASE found = {} ->
                 /\ Respond(r, GetError(op, {"GetLocation", "UpdateLocation", "DeleteLocation"}))
                 /\ UNCHANGED reads
            [] op = "GetLocation" ->
                 /\ Read(r, req[r].zid, found)
                 /\ Respond(r, "ok")
            [] OTHER ->
                 /\ req' = [req EXCEPT ![r].lid = (CHOOSE l \in found : TRUE).id,
                                       ![r].pc = CASE op = "UpdateLocation" -> "updateLocation.update"
                                                   [] op = "DeleteLocation" -> "deleteLocation.delete"
                                                   [] op = "AddRecordSet"   -> "addRecordSet.insert"
                                                   [] op = "GetRecordSets"  -> "getRecordSets.query"
                                                   [] OTHER                 -> "getRecordSet.select"]
                 /\ UNCHANGED reads
       /\ UNCHANGED <<zones, locs, rsets, nextId, writes>>

\* canGetRecordSet, then GetLocation.
GetRecordSetCan(r) == GetCheck(r, "getRecordSet.can", "getLocation.can", "GetRecordSet")

\* SELECT Id ... FROM RecordSet WHERE Location_Id = ? AND Type = ?
GetRecordSetSelect(r) ==
    LET found == RSetByType(req[r].lid, req[r].rtype)
        op == req[r].op
    IN /\ req[r].pc = "getRecordSet.select"
       /\ CASE found = {} ->
                 /\ Respond(r, GetError(op, {"GetRecordSet", "UpdateRecordSet", "DeleteRecordSet"}))
                 /\ UNCHANGED reads
            [] op = "GetRecordSet" ->
                 /\ Read(r, ZoneIdOfLoc(req[r].lid), found)
                 /\ Respond(r, "ok")
            [] OTHER ->
                 /\ req' = [req EXCEPT ![r].rid = (CHOOSE x \in found : TRUE).id,
                                       ![r].pc = IF op = "UpdateRecordSet"
                                                 THEN "updateRecordSet.update"
                                                 ELSE "deleteRecordSet.delete"]
                 /\ UNCHANGED reads
       /\ UNCHANGED <<zones, locs, rsets, nextId, writes>>

-----------------------------------------------------------------------------
(* DataBase.UpdateZone and DataBase.DeleteZone                             *)

UpdateZoneCan(r) == FirstCheck(r, "updateZone.can", "getZone.can")

\* UPDATE Zone SET ... WHERE Name = ?: whatever row has the name now; the
\* number of rows is returned and the handler answers success for any.
UpdateZoneUpdate(r) ==
    LET z == req[r].zone IN
    /\ req[r].pc = "updateZone.update"
    /\ IF zones[z] # Nil THEN Write(r, zones[z].id) ELSE UNCHANGED writes
    /\ Respond(r, "ok")
    /\ UNCHANGED <<zones, locs, rsets, nextId, reads>>

DeleteZoneCan(r) == FirstCheck(r, "deleteZone.can", "deleteZone.delete")

\* Mutant: the zone row is deleted and its locations are left behind.
DeleteZoneDeleteNoCascade(r) ==
    LET z == req[r].zone IN
    /\ req[r].pc = "deleteZone.delete"
    /\ IF zones[z] = Nil
       THEN /\ Respond(r, "ErrNotFound")
            /\ UNCHANGED <<zones, writes>>
       ELSE /\ Write(r, zones[z].id)
            /\ zones' = [zones EXCEPT ![z] = Nil]
            /\ Respond(r, "ok")
    /\ UNCHANGED <<locs, rsets, nextId, reads>>

\* DELETE FROM Zone WHERE Name = ?: its locations and their record sets go
\* with it (cascade); no row is ErrNotFound.
DeleteZoneDelete(r) ==
    LET z == req[r].zone
        gone == {l \in locs : l.zid = zones[z].id}
    IN /\ req[r].pc = "deleteZone.delete"
       /\ IF zones[z] = Nil
          THEN /\ Respond(r, "ErrNotFound")
               /\ UNCHANGED <<zones, locs, rsets, writes>>
          ELSE /\ Write(r, zones[z].id)
               /\ rsets' = {x \in rsets : \A l \in gone : x.lid # l.id}
               /\ locs' = locs \ gone
               /\ zones' = [zones EXCEPT ![z] = Nil]
               /\ Respond(r, "ok")
       /\ UNCHANGED <<nextId, reads>>

-----------------------------------------------------------------------------
(* DataBase.AddLocation, UpdateLocation and DeleteLocation                 *)

AddLocationCan(r) == FirstCheck(r, "addLocation.can", "getZone.can")

\* INSERT INTO Location with the zone id read by GetZone: a zone deleted
\* since is a foreign-key error (returned as is), a taken name is 1062.
AddLocationInsert(r) ==
    LET zid == req[r].zid IN
    /\ req[r].pc = "addLocation.insert"
    /\ CASE ~ZoneIdExists(zid) ->
              /\ Respond(r, "ErrForeignKey")
              /\ UNCHANGED <<locs, nextId, writes, reads>>
         [] LocByName(zid, req[r].loc) # {} ->
              /\ Respond(r, parseError("1062"))
              /\ UNCHANGED <<locs, nextId, writes, reads>>
         [] OTHER ->
              /\ locs' = locs \cup {[id |-> nextId, zid |-> zid, name |-> req[r].loc]}
              /\ nextId' = nextId + 1
              /\ Write(r, zid)
              /\ Respond(r, "ok")
    /\ UNCHANGED <<zones, rsets, reads>>

UpdateLocationCan(r) == FirstCheck(r, "updateLocation.can", "getLocation.can")

\* UPDATE Location SET Enabled = ? WHERE Id = ?
UpdateLocationUpdate(r) ==
    LET id == req[r].lid IN
    /\ req[r].pc = "updateLocation.update"
    /\ IF LocIdExists(id) THEN Write(r, ZoneIdOfLoc(id)) ELSE UNCHANGED writes
    /\ Respond(r, "ok")
    /\ UNCHANGED <<zones, locs, rsets, nextId, reads>>

DeleteLocationCan(r) == FirstCheck(r, "deleteLocation.can", "getLocation.can")

\* Mutant: the location row is deleted and its record sets are left behind.
DeleteLocationDeleteNoCascade(r) ==
    LET id == req[r].lid IN
    /\ req[r].pc = "deleteLocation.delete"
    /\ IF ~LocIdExists(id)
       THEN /\ Respond(r, "ErrNotFound")
            /\ UNCHANGED <<locs, writes>>
       ELSE /\ Write(r, ZoneIdOfLoc(id))
            /\ locs' = locs \ LocById(id)
            /\ Respond(r, "ok")
    /\ UNCHANGED <<zones, rsets, nextId, reads>>

\* DELETE FROM Location WHERE Id = ?, its record sets with it; no row is
\* ErrNotFound.
DeleteLocationDelete(r) ==
    LET id == req[r].lid IN
    /\ req[r].pc = "deleteLocation.delete"
    /\ IF ~LocIdExists(id)
       THEN /\ Respond(r, "ErrNotFound")
            /\ UNCHANGED <<locs, rsets, writes>>
       ELSE /\ Write(r, ZoneIdOfLoc(id))
            /\ rsets' = {x \in rsets : x.lid # id}
            /\ locs' = locs \ LocById(id)
            /\ Respond(r, "ok")
    /\ UNCHANGED <<zones, nextId, reads>>

-----------------------------------------------------------------------------
(* DataBase.AddRecordSet, UpdateRecordSet and DeleteRecordSet              *)

\* canAddRecordSet, then rtypeValid, then GetLocation.
AddRecordSetCan(r) ==
    LET z == req[r].zone IN
    /\ req[r].pc = "addRecordSet.can"
    /\ CASE ~Can(req[r].user, z)   -> Respond(r, "ErrUnauthorized")
         [] ~rtypeValid(req[r].rtype) -> Respond(r, "ErrInvalid")
         [] OTHER -> req' = [req EXCEPT ![r].pc = "getLocation.can",
                                        ![r].authId = zones[z].id]
    /\ UNCHANGED <<zones, locs, rsets, nextId, writes, reads>>

\* INSERT INTO RecordSet with the location id read by GetLocation: a
\* location deleted since is a foreign-key error, a taken type is 1062.
AddRecordSetInsert(r) ==
    LET lid == req[r].lid IN
    /\ req[r].pc = "addRecordSet.insert"
    /\ CASE ~LocIdExists(lid) ->
              /\ Respond(r, "ErrForeignKey")
              /\ UNCHANGED <<rsets, nextId, writes, reads>>
         [] RSetByType(lid, req[r].rtype) # {} ->
              /\ Respond(r, parseError("1062"))
              /\ UNCHANGED <<rsets, nextId, writes, reads>>
         [] OTHER ->
              /\ rsets' = rsets \cup {[id |-> nextId, lid |-> lid, type |-> req[r].rtype]}
              /\ nextId' = nextId + 1
              /\ Write(r, ZoneIdOfLoc(lid))
              /\ Respond(r, "ok")
    /\ UNCHANGED <<zones, locs, reads>>

\* UpdateRecordSet and DeleteRecordSet (and the GetRecordSet they call)
\* reject an unsupported type before any statement.
RecordSetTypeCheck(r, from, to) ==
    /\ req[r].pc = from
    /\ IF rtypeValid(req[r].rtype) THEN Goto(r, to) ELSE Respond(r, "ErrInvalid")
    /\ UNCHANGED <<zones, locs, rsets, nextId, writes, reads>>

UpdateRecordSetValid(r) ==
    RecordSetTypeCheck(r, "updateRecordSet.valid", "updateRecordSet.can")

UpdateRecordSetCan(r) == FirstCheck(r, "updateRecordSet.can", "getRecordSet.can")

\* UPDATE RecordSet SET Value = ?, Enabled = ? WHERE Id = ?
UpdateRecordSetUpdate(r) ==
    LET hit == RSetById(req[r].rid) IN
    /\ req[r].pc = "updateRecordSet.update"
    /\ IF hit # {} THEN Write(r, ZoneIdOfLoc((CHOOSE x \in hit : TRUE).lid))
                   ELSE UNCHANGED writes
    /\ Respond(r, "ok")
    /\ UNCHANGED <<zones, locs, rsets, nextId, reads>>

DeleteRecordSetValid(r) ==
    RecordSetTypeCheck(r, "deleteRecordSet.valid", "deleteRecordSet.can")

\* rtypeValid, for a request of GetRecordSet itself.
GetRecordSetValid(r) == RecordSetTypeCheck(r, "getRecordSet.valid", "getRecordSet.can")

DeleteRecordSetCan(r) == FirstCheck(r, "deleteRecordSet.can", "getRecordSet.can")

\* DELETE FROM RecordSet WHERE Id = ?; no row is ErrNotFound.
DeleteRecordSetDelete(r) ==
    LET hit == RSetById(req[r].rid) IN
    /\ req[r].pc = "deleteRecordSet.delete"
    /\ IF hit = {}
       THEN /\ Respond(r, "ErrNotFound")
            /\ UNCHANGED <<rsets, writes>>
       ELSE /\ Write(r, ZoneIdOfLoc((CHOOSE x \in hit : TRUE).lid))
            /\ rsets' = rsets \ hit
            /\ Respond(r, "ok")
    /\ UNCHANGED <<zones, locs, nextId, reads>>

-----------------------------------------------------------------------------
(* DataBase.GetLocations and GetRecordSets: the can* check, the nested Get *)
(* (whose ErrNotFound becomes ErrInvalid), then one SELECT of the rows of  *)
(* the id it returned.  The LIKE filter and the LIMIT page are abstracted: *)
(* the rows returned are all rows of that id, as with an empty q.          *)

GetZonesQuery(r) ==
    /\ req[r].pc = "getZones.query"
    /\ Respond(r, "ok")
    /\ UNCHANGED <<zones, locs, rsets, nextId, writes, reads>>

GetLocationsCan(r) == FirstCheck(r, "getLocations.can", "getZone.can")

\* SELECT Name FROM Location WHERE Zone_Id = ?, with the id GetZone returned.
GetLocationsQuery(r) ==
    LET zid == req[r].zid IN
    /\ req[r].pc = "getLocations.query"
    /\ Read(r, zid, {l \in locs : l.zid = zid})
    /\ Respond(r, "ok")
    /\ UNCHANGED <<zones, locs, rsets, nextId, writes>>

GetRecordSetsCan(r) == FirstCheck(r, "getRecordSets.can", "getLocation.can")

\* SELECT Type FROM RecordSet WHERE Location_Id = ?, with the id
\* GetLocation returned.
GetRecordSetsQuery(r) ==
    LET lid == req[r].lid IN
    /\ req[r].pc = "getRecordSets.query"
    /\ Read(r, ZoneIdOfLoc(lid), {x \in rsets : x.lid = lid})
    /\ Respond(r, "ok")
    /\ UNCHANGED <<zones, locs, rsets, nextId, writes>>

-----------------------------------------------------------------------------
(* The specification.  Each request's user, operation and arguments are    *)
(* chosen at the start.  The tables start in any state the operations can  *)
(* build: each zone absent or owned by a user, each location of an        *)
(* existing zone present or not, and likewise each record set of a        *)
(* supported type.                                                         *)

\* NewObjectId of the rows present at the start: distinct numbers.
Injective(f) == \A x, y \in DOMAIN f : x # y => f[x] # f[y]
IdsFrom(S, first) == CHOOSE f \in [S -> first .. first + Cardinality(S) - 1] : Injective(f)

InitZoneId == IdsFrom(ZoneNames, 1)
InitLocId == IdsFrom(ZoneNames \X LocNames, 1 + Cardinality(ZoneNames))
InitRSetId == IdsFrom(ZoneNames \X LocNames \X SupportedTypes,
                      1 + Cardinality(ZoneNames) + Cardinality(ZoneNames \X LocNames))

InitRequest == [pc : {"handler"}, user : Users, op : Ops, zone : ZoneNames,
                loc : LocNames, rtype : RTypes, resp : {"none"},
                authId : {0}, zid : {0}, lid : {0}, rid : {0}]

Init ==
    /\ \E owner \in [ZoneNames -> Users \cup {Nil}] :
          zones = [z \in ZoneNames |-> IF owner[z] = Nil THEN Nil
                                       ELSE [id |-> InitZoneId[z], owner |-> owner[z]]]
    /\ \E present \in SUBSET ({z \in ZoneNames : zones[z] # Nil} \X LocNames) :
          /\ locs = {[id |-> InitLocId[p], zid |-> InitZoneId[p[1]], name |-> p[2]] :
                     p \in present}
          /\ \E typed \in SUBSET (present \X SupportedTypes) :
                rsets = {[id |-> InitRSetId[<<p[1][1], p[1][2], p[2]>>],
                          lid |-> InitLocId[p[1]], type |-> p[2]] : p \in typed}
    /\ nextId = 1 + Cardinality(ZoneNames) + Cardinality(ZoneNames \X LocNames)
                  + Cardinality(ZoneNames \X LocNames \X SupportedTypes)
    /\ req \in [Requests -> {x \in InitRequest :
                                x.op \notin RTypeOps => x.rtype = CHOOSE t \in SupportedTypes : TRUE}]
    /\ writes = {}
    /\ reads = {}

Next ==
    \E r \in Requests :
        \/ ZoneHandler(r) \/ LocationHandler(r) \/ RecordSetHandler(r) \/ ListHandler(r)
        \/ AddZoneOwner(r) \/ AddZoneInsert(r)
        \/ GetZoneCan(r) \/ GetZoneSelect(r)
        \/ GetLocationCan(r) \/ GetLocationSelect(r)
        \/ GetRecordSetCan(r) \/ GetRecordSetSelect(r)
        \/ UpdateZoneCan(r) \/ UpdateZoneUpdate(r)
        \/ DeleteZoneCan(r) \/ DeleteZoneDelete(r)
        \/ AddLocationCan(r) \/ AddLocationInsert(r)
        \/ UpdateLocationCan(r) \/ UpdateLocationUpdate(r)
        \/ DeleteLocationCan(r) \/ DeleteLocationDelete(r)
        \/ AddRecordSetCan(r) \/ AddRecordSetInsert(r)
        \/ UpdateRecordSetValid(r) \/ UpdateRecordSetCan(r) \/ UpdateRecordSetUpdate(r)
        \/ DeleteRecordSetValid(r) \/ DeleteRecordSetCan(r) \/ DeleteRecordSetDelete(r)
        \/ GetRecordSetValid(r) \/ GetZonesQuery(r)
        \/ GetLocationsCan(r) \/ GetLocationsQuery(r)
        \/ GetRecordSetsCan(r) \/ GetRecordSetsQuery(r)

Spec == Init /\ [][Next]_vars

-----------------------------------------------------------------------------
(* Properties.                                                             *)

\* The tables keep their types and their foreign keys: every location
\* references a zone and every record set a location.
TypeOK ==
    /\ zones \in [ZoneNames -> ZoneRow \cup {Nil}]
    /\ locs \subseteq LocRow
    /\ rsets \subseteq RSetRow
    /\ nextId \in Nat
    /\ \A l \in locs : ZoneIdExists(l.zid)
    /\ \A x \in rsets : LocIdExists(x.lid)
    /\ \A r \in Requests : req[r].resp \in Responses /\ req[r].op \in Ops
    /\ \A w \in writes \cup reads : w.by \in Users /\ w.owner \in Users

\* Every row a request changes belongs to a zone of its own user: the
\* ownership check of UpdateZone, DeleteZone and the location and record
\* set methods protects the row the later UPDATE, DELETE or INSERT reaches.
NoForeignWrites == \A w \in writes : w.owner = w.by

NoForeignReads == \A x \in reads : x.owner = x.by

DuplicateOnlyForOwnZone ==
    [][\A r \in Requests :
          (/\ req[r].op = "AddZone"
           /\ req'[r].resp = "ErrDuplicateEntry" /\ req[r].resp = "none")
          => Owner(req[r].zone) = req[r].user]_vars
=============================================================================
