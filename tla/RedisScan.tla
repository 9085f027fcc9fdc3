----------------------------- MODULE RedisScan -----------------------------
(***************************************************************************)
(* The cursor-based reads of src/pkg/hiredis/hiredis.go and the commands   *)
(* they race with: Del(pattern), which lists the keys with GetKeys (SCAN   *)
(* MATCH until the cursor is 0) and then deletes them with one DEL;        *)
(* SMembers (SSCAN until the cursor is 0); GetHKeys (HSCAN until the      *)
(* cursor is 0); Set, SAdd, SRem and HSet; and the point reads Get, HGet *)
(* and SIsMember.                                                          *)
(*                                                                         *)
(* Every method takes a connection from the redigo pool and closes it when *)
(* it returns (defer conn.Close()).  Del takes one, and GetKeys, called    *)
(* from it, takes a second while the first is still held.  The pool hands *)
(* out at most MaxActive connections (0: no limit).  When they are all in  *)
(* use, Get waits for one to be closed if wait is set, and otherwise       *)
(* returns a connection whose every command fails with ErrPoolExhausted.   *)
(* Any command may also fail (a network error), at most MaxErrors times.  *)
(*                                                                         *)
(* The Redis server is modelled by what SCAN guarantees: the keyspace is a *)
(* table of NumSlots buckets, a SCAN at cursor i returns the matching keys *)
(* of bucket i+1 and the next cursor, 0 after the last bucket; SSCAN and   *)
(* HSCAN do the same over the set and the hash.  Keys, members and hash    *)
(* fields are model values; prefix and suffix are added to a key and      *)
(* trimmed from it again, which gives the key back, so they are left out. *)
(***************************************************************************)
EXTENDS Naturals, FiniteSets

CONSTANTS
    Callers,      \* goroutines calling the Redis methods
    Names,        \* keys of the keyspace (without prefix and suffix)
    Matching,     \* the keys the pattern of Del matches
    Members,      \* members of the set SMembers reads
    Fields,       \* fields of the hash GetHKeys reads
    NumSlots,     \* buckets of the server's tables
    KeySlot,      \* key |-> its bucket
    MemberSlot,   \* member |-> its bucket
    FieldSlot,    \* field |-> its bucket
    MaxActive,    \* Connection.MaxActiveConnections
    Waits,        \* the values of Connection.WaitForConnection to check
    MaxErrors,    \* the most commands that fail
    MaxCalls      \* the most calls each caller makes

ASSUME /\ Matching \subseteq Names
       /\ NumSlots \in Nat \ {0}
       /\ KeySlot \in [Names -> 1..NumSlots]
       /\ MemberSlot \in [Members -> 1..NumSlots]
       /\ FieldSlot \in [Fields -> 1..NumSlots]
       /\ MaxActive \in Nat /\ Waits \subseteq BOOLEAN

VARIABLES
    store,     \* the keys that exist
    members,   \* the members of the set
    fields,    \* the fields of the hash
    active,    \* connections the pool has handed out and not got back
    errs,      \* commands that failed with a network error
    cl,        \* caller |-> its call: see Call
    wait       \* Connection.WaitForConnection, fixed by NewRedis

vars == <<store, members, fields, fields, active, errs, cl, wait>>

Ops == {"Del", "Set", "Get", "SMembers", "SAdd", "SRem", "SIsMember",
        "GetHKeys", "HSet", "HGet"}
FirstPc == [op \in Ops |-> CASE op = "Del"      -> "Del.get"
                            [] op = "SMembers" -> "SMembers.get"
                            [] op = "GetHKeys" -> "GetHKeys.get"
                            [] OTHER           -> "Cmd.get"]

\* The argument of a call: a key, a member or a field; Del's pattern and
\* the set and hash names are fixed.
ArgOf(op) == CASE op \in {"Set", "Get"}               -> Names
               [] op \in {"SAdd", "SRem", "SIsMember"} -> Members
               [] op \in {"HSet", "HGet"}              -> Fields
               [] OTHER                               -> {"none"}

\* The fields conn (the method's connection) and inner (GetKeys's) are
\* "none", "ok" or "exhausted" (the errorConn of an exhausted pool).
Idle == [pc |-> "idle", op |-> "none", arg |-> "none", conn |-> "none",
         inner |-> "none", cursor |-> 0, found |-> {}, stable |-> {},
         resp |-> "none", calls |-> 0]

-----------------------------------------------------------------------------
(* The pool and the commands.                                              *)

\* pool.Get(): a connection if one is free; an errorConn if the pool is
\* exhausted and Wait is off; with Wait on, not enabled until one is closed.
PoolGet(c, f, pc) ==
    \/ /\ MaxActive = 0 \/ active < MaxActive
       /\ active' = active + 1
       /\ cl' = [cl EXCEPT ![c][f] = "ok", ![c].pc = pc]
    \/ /\ MaxActive > 0 /\ active >= MaxActive /\ ~wait
       /\ cl' = [cl EXCEPT ![c][f] = "exhausted", ![c].pc = pc]
       /\ UNCHANGED active

\* conn.Close(): an errorConn gives nothing back.
Released(c, f) == IF cl[c][f] = "ok" THEN 1 ELSE 0

\* conn.Do(...) returns an error.
DoFails(c, f) ==
    \/ cl[c][f] = "exhausted" /\ UNCHANGED errs
    \/ cl[c][f] = "ok" /\ errs < MaxErrors /\ errs' = errs + 1

\* The method returns resp and its deferred Close runs.
Return(c, resp) ==
    /\ active' = active - Released(c, "conn") - Released(c, "inner")
    /\ cl' = [cl EXCEPT ![c].pc = "idle", ![c].resp = resp,
                        ![c].conn = "none", ![c].inner = "none"]

\* SCAN / SSCAN at cursor i: the elements of bucket i+1 and the next cursor.
Batch(S, slot, i) == {x \in S : slot[x] = i + 1}
NextCursor(i) == (i + 1) % NumSlots

-----------------------------------------------------------------------------
(* The methods.                                                            *)

\* A caller calls a method.  stable records, for the properties, the keys
\* (members) the call must see: those there at its start and not removed
\* since.
Call(c) ==
    /\ cl[c].pc = "idle"
    /\ cl[c].calls < MaxCalls
    /\ \E op \in Ops : \E arg \in ArgOf(op) :
        /\ cl' = [cl EXCEPT ![c] = [Idle EXCEPT !.pc = FirstPc[op], !.op = op,
                     !.arg = arg, !.calls = cl[c].calls + 1,
                     !.stable = CASE op = "Del" -> store \cap Matching
                                  [] op = "SMembers" -> members
                                  [] op = "GetHKeys" -> fields
                                  [] OTHER -> {}]]
    /\ UNCHANGED <<store, members, fields, active, errs, wait>>

\* Del: conn := redis.pool.Get().
DelGet(c) ==
    /\ cl[c].pc = "Del.get"
    /\ PoolGet(c, "conn", "GetKeys.get")
    /\ UNCHANGED <<store, members, fields, errs>>

\* GetKeys: conn := redis.pool.Get(), while Del still holds its own.
GetKeysGet(c) ==
    /\ cl[c].pc = "GetKeys.get"
    /\ PoolGet(c, "inner", "GetKeys.scan")
    /\ UNCHANGED <<store, members, fields, errs>>

\* Mutant: the loop leaves on cursor 0 before adding the reply's keys.
GetKeysScanBreakFirst(c) ==
    LET i == cl[c].cursor IN
    /\ cl[c].pc = "GetKeys.scan"
    /\ cl[c].inner = "ok"
    /\ IF NextCursor(i) = 0
       THEN /\ active' = active - 1
            /\ cl' = [cl EXCEPT ![c].inner = "none", ![c].pc = "Del.del"]
       ELSE /\ cl' = [cl EXCEPT ![c].found = @ \cup Batch(store \cap Matching, KeySlot, i),
                                ![c].cursor = NextCursor(i)]
            /\ UNCHANGED active
    /\ UNCHANGED <<store, members, fields, errs>>

\* Mutant: the loop compares the cursor with the wrong end value.
GetKeysScanNoEnd(c) ==
    LET i == cl[c].cursor IN
    /\ cl[c].pc = "GetKeys.scan"
    /\ cl[c].inner = "ok"
    /\ cl' = [cl EXCEPT ![c].found = @ \cup Batch(store \cap Matching, KeySlot, i),
                        ![c].cursor = NextCursor(i)]
    /\ UNCHANGED <<store, members, fields, active, errs>>

\* GetKeys: one SCAN of the loop.  An error returns from GetKeys and Del;
\* the reply's keys go into keySet; cursor 0 ends the loop and GetKeys
\* returns, closing its connection.
GetKeysScan(c) ==
    LET i == cl[c].cursor IN
    /\ cl[c].pc = "GetKeys.scan"
    /\ \/ DoFails(c, "inner") /\ Return(c, "error")
       \/ /\ cl[c].inner = "ok"
          /\ cl' = [cl EXCEPT ![c].found = @ \cup Batch(store \cap Matching, KeySlot, i),
                              ![c].cursor = NextCursor(i),
                              ![c].pc = IF NextCursor(i) = 0 THEN "Del.del" ELSE @,
                              ![c].inner = IF NextCursor(i) = 0 THEN "none" ELSE @]
          /\ active' = IF NextCursor(i) = 0 THEN active - 1 ELSE active
          /\ UNCHANGED errs
    /\ UNCHANGED <<store, members, fields>>

\* Del: no keys, return nil; otherwise DEL them all on Del's connection.
DelDel(c) ==
    LET keys == cl[c].found IN
    /\ cl[c].pc = "Del.del"
    /\ \/ keys = {} /\ Return(c, "ok") /\ UNCHANGED <<store, errs>>
       \/ keys # {} /\ DoFails(c, "conn") /\ Return(c, "error") /\ UNCHANGED store
       \/ /\ keys # {} /\ cl[c].conn = "ok"
          /\ store' = store \ keys
          /\ active' = active - 1
          /\ cl' = [d \in Callers |->
                      IF d = c THEN [cl[c] EXCEPT !.pc = "idle", !.resp = "ok",
                                                  !.conn = "none"]
                      ELSE IF cl[d].op = "Del" THEN [cl[d] EXCEPT !.stable = @ \ keys]
                      ELSE cl[d]]
          /\ UNCHANGED errs
    /\ UNCHANGED <<members, fields>>

\* SMembers: conn := redis.pool.Get().
SMembersGet(c) ==
    /\ cl[c].pc = "SMembers.get"
    /\ PoolGet(c, "conn", "SMembers.scan")
    /\ UNCHANGED <<store, members, fields, errs>>

\* Mutant: the loop leaves on cursor 0 before adding the reply's members.
SMembersScanBreakFirst(c) ==
    LET i == cl[c].cursor IN
    /\ cl[c].pc = "SMembers.scan"
    /\ cl[c].conn = "ok"
    /\ IF NextCursor(i) = 0
       THEN /\ active' = active - 1
            /\ cl' = [cl EXCEPT ![c].pc = "idle", ![c].resp = "ok", ![c].conn = "none"]
       ELSE /\ cl' = [cl EXCEPT ![c].found = @ \cup Batch(members, MemberSlot, i),
                                ![c].cursor = NextCursor(i)]
            /\ UNCHANGED active
    /\ UNCHANGED <<store, members, fields, errs>>

\* One SSCAN (HSCAN) of the loop over the set (hash) coll: an error returns
\* it; the reply's elements go into the result; cursor 0 returns them.
ScanStep(c, coll, slot) ==
    LET i == cl[c].cursor IN
    /\ \/ DoFails(c, "conn") /\ Return(c, "error")
       \/ /\ cl[c].conn = "ok"
          /\ LET found == cl[c].found \cup Batch(coll, slot, i) IN
             IF NextCursor(i) = 0
             THEN /\ active' = active - 1
                  /\ cl' = [cl EXCEPT ![c].found = found, ![c].pc = "idle",
                                      ![c].resp = "ok", ![c].conn = "none"]
             ELSE /\ cl' = [cl EXCEPT ![c].found = found, ![c].cursor = NextCursor(i)]
                  /\ UNCHANGED active
          /\ UNCHANGED errs
    /\ UNCHANGED <<store, members, fields>>

\* SMembers: the SSCAN loop.
SMembersScan(c) == cl[c].pc = "SMembers.scan" /\ ScanStep(c, members, MemberSlot)

\* GetHKeys: conn := redis.pool.Get().
GetHKeysGet(c) ==
    /\ cl[c].pc = "GetHKeys.get"
    /\ PoolGet(c, "conn", "GetHKeys.scan")
    /\ UNCHANGED <<store, members, fields, errs>>

\* GetHKeys: the HSCAN loop; the fields of each reply's field/value pairs
\* go into keySet.
GetHKeysScan(c) == cl[c].pc = "GetHKeys.scan" /\ ScanStep(c, fields, FieldSlot)

\* The single-command methods: conn := redis.pool.Get().
CmdGet(c) ==
    /\ cl[c].pc = "Cmd.get"
    /\ PoolGet(c, "conn", "Cmd.do")
    /\ UNCHANGED <<store, members, fields, errs>>

\* Removes the member m from the stable sets of running SMembers calls.
Unstable(m) ==
    [d \in Callers |-> IF cl[d].op = "SMembers" THEN [cl[d] EXCEPT !.stable = @ \ {m}]
                       ELSE cl[d]]

\* SET key value.
SetDo(c) ==
    /\ cl[c].pc = "Cmd.do" /\ cl[c].op = "Set"
    /\ \/ DoFails(c, "conn") /\ Return(c, "error") /\ UNCHANGED store
       \/ cl[c].conn = "ok" /\ store' = store \cup {cl[c].arg}
          /\ Return(c, "ok") /\ UNCHANGED errs
    /\ UNCHANGED <<members, fields>>

\* SADD set member.
SAddDo(c) ==
    /\ cl[c].pc = "Cmd.do" /\ cl[c].op = "SAdd"
    /\ \/ DoFails(c, "conn") /\ Return(c, "error") /\ UNCHANGED members
       \/ cl[c].conn = "ok" /\ members' = members \cup {cl[c].arg}
          /\ Return(c, "ok") /\ UNCHANGED errs
    /\ UNCHANGED <<store, fields>>

\* HSET key field value.
HSetDo(c) ==
    /\ cl[c].pc = "Cmd.do" /\ cl[c].op = "HSet"
    /\ \/ DoFails(c, "conn") /\ Return(c, "error") /\ UNCHANGED fields
       \/ cl[c].conn = "ok" /\ fields' = fields \cup {cl[c].arg}
          /\ Return(c, "ok") /\ UNCHANGED errs
    /\ UNCHANGED <<store, members>>

\* Mutant: SRem without its deferred conn.Close().
SRemDoNoClose(c) ==
    /\ cl[c].pc = "Cmd.do" /\ cl[c].op = "SRem"
    /\ cl[c].conn = "ok"
    /\ members' = members \ {cl[c].arg}
    /\ cl' = [Unstable(cl[c].arg) EXCEPT ![c].pc = "idle", ![c].resp = "ok",
                                         ![c].conn = "none"]
    /\ UNCHANGED <<store, fields, active, errs>>

\* SREM set member.
SRemDo(c) ==
    /\ cl[c].pc = "Cmd.do" /\ cl[c].op = "SRem"
    /\ \/ DoFails(c, "conn") /\ Return(c, "error") /\ UNCHANGED members
       \/ /\ cl[c].conn = "ok"
          /\ members' = members \ {cl[c].arg}
          /\ active' = active - 1
          /\ cl' = [Unstable(cl[c].arg) EXCEPT ![c].pc = "idle", ![c].resp = "ok",
                                               ![c].conn = "none"]
          /\ UNCHANGED errs
    /\ UNCHANGED <<store, fields>>

\* A point read: one command on the method's connection.  A failed Do
\* returns its error; otherwise the reply's conversion gives resp.
PointRead(c, op, resp) ==
    /\ cl[c].pc = "Cmd.do" /\ cl[c].op = op
    /\ \/ DoFails(c, "conn") /\ Return(c, "error")
       \/ cl[c].conn = "ok" /\ Return(c, resp) /\ UNCHANGED errs
    /\ UNCHANGED <<store, members, fields>>

\* GET key: redisCon.String turns the nil reply of a missing key into
\* ErrNil, which Get returns.
GetDo(c) == PointRead(c, "Get", IF cl[c].arg \in store THEN "ok" ELSE "error")

\* HGET key field: likewise for a missing field.
HGetDo(c) == PointRead(c, "HGet", IF cl[c].arg \in fields THEN "ok" ELSE "error")

\* SISMEMBER set member: redisCon.Bool of the integer reply.
SIsMemberDo(c) == PointRead(c, "SIsMember", IF cl[c].arg \in members THEN "true" ELSE "false")

-----------------------------------------------------------------------------

Init ==
    /\ store \in SUBSET Names
    /\ members \in SUBSET Members
    /\ fields \in SUBSET Fields
    /\ active = 0
    /\ errs = 0
    /\ cl = [c \in Callers |-> Idle]
    /\ wait \in Waits

\* The steps of a call once it has started.
Step(c) ==
    /\ \/ DelGet(c) \/ GetKeysGet(c) \/ GetKeysScan(c) \/ DelDel(c)
       \/ SMembersGet(c) \/ SMembersScan(c) \/ GetHKeysGet(c) \/ GetHKeysScan(c)
       \/ CmdGet(c) \/ SetDo(c) \/ SAddDo(c) \/ SRemDo(c) \/ HSetDo(c)
       \/ GetDo(c) \/ HGetDo(c) \/ SIsMemberDo(c)
    /\ UNCHANGED wait

\* The pool.Get steps: the pool's waiters are served from a channel in
\* FIFO order, so one that is enabled again and again gets a connection.
Get(c) ==
    /\ DelGet(c) \/ GetKeysGet(c) \/ SMembersGet(c) \/ GetHKeysGet(c) \/ CmdGet(c)
    /\ UNCHANGED wait

Next == \E c \in Callers : Call(c) \/ Step(c)

Fairness == \A c \in Callers : WF_vars(Step(c)) /\ SF_vars(Get(c))

Spec == Init /\ [][Next]_vars /\ Fairness

-----------------------------------------------------------------------------
(* Properties.                                                             *)

TypeOK ==
    /\ store \subseteq Names /\ members \subseteq Members /\ fields \subseteq Fields
    /\ active = Cardinality({<<c, f>> \in Callers \X {"conn", "inner"} : cl[c][f] = "ok"})
    /\ MaxActive > 0 => active <= MaxActive
    /\ errs \in 0..MaxErrors
    /\ \A c \in Callers : cl[c].cursor \in 0..NumSlots - 1

\* A Del that returns nil has deleted every matching key that existed from
\* its call to its return: the SCAN loop of GetKeys visits every bucket
\* before the cursor comes back to 0, keySet keeps the keys of every
\* reply, and the single DEL names them all.
DelRemovesStable ==
    [][\A c \in Callers :
         (cl[c].pc = "Del.del" /\ cl'[c].pc = "idle" /\ cl'[c].resp = "ok")
            => cl[c].stable \cap store' = {}]_vars

\* An SMembers (GetHKeys) that returns has returned every member (field)
\* that was in the set (hash) from its call to its return, however SADD,
\* SREM and HSET interleave with its SSCAN (HSCAN) calls.
ScanComplete ==
    \A c \in Callers :
        (cl[c].op \in {"SMembers", "GetHKeys"} /\ cl[c].pc = "idle" /\ cl[c].resp = "ok")
            => cl[c].stable \subseteq cl[c].found

\* Every call returns: no caller waits forever on the pool, even while Del
\* holds its own connection and GetKeys asks for a second.
CallsReturn == \A c \in Callers : cl[c].pc # "idle" ~> cl[c].pc = "idle"
=============================================================================
