---------------------------- MODULE AdminUsers ----------------------------
(***************************************************************************)
(* The user and verification methods of src/internal/api/database/db.go:  *)
(* AddUser, AddVerification, Verify and DeleteUser.                       *)
(*                                                                         *)
(* As in AdminStore, every request is a goroutine of its own and every    *)
(* SQL statement one atomic step, with no transaction around a method's    *)
(* statements.  Any Exec may also fail (a lost connection, a timeout): it  *)
(* then changes nothing and the method returns the error.  At most        *)
(* MaxFailures statements fail.                                            *)
(*                                                                         *)
(* The schema is not in the repository; the model assumes what the code    *)
(* relies on: User.Email is unique (AddUser maps error 1062 to             *)
(* ErrDuplicateEntry), and Verification.User_Id is a foreign key to User   *)
(* that cascades on delete.  randomString(50) is modelled as a code never  *)
(* issued before.                                                          *)
(***************************************************************************)
EXTENDS Naturals, FiniteSets

CONSTANTS
    Emails,          \* the user names (e-mail addresses)
    Codes,           \* the verification codes randomString can produce
    VTypes,          \* verification types; "signup" is VerificationTypeSignup
    UserStatuses,    \* statuses AddUser may be given; "active" is UserStatusActive
    Requests,        \* the concurrent requests
    MaxFailures,     \* the most statements that fail
    Nil

Signup == "signup"
Active == "active"

ASSUME /\ Signup \in VTypes
       /\ Active \in UserStatuses
       /\ UserStatuses \ {Active} # {}
       /\ MaxFailures \in Nat

VARIABLES
    users,      \* table User: email |-> Nil or [id, status]
    codes,      \* table Verification: a set of [code, type, uid]
    nextId,     \* the next NewObjectId
    issued,     \* history: every Verification row ever inserted
    failures,   \* statements that failed so far
    req         \* r |-> [pc, op, email, status, vtype, code, uid, resp]

vars == <<users, codes, nextId, issued, failures, req>>

Ops == {"AddUser", "AddVerification", "Verify", "DeleteUser"}
Responses == {"none", "ok", "ErrDuplicateEntry", "ErrNotFound", "ErrInvalid",
              "error", "unknown verification type"}

\* The user with id uid, if there is one.
UserById(uid) == {e \in Emails : users[e] # Nil /\ users[e].id = uid}

Goto(r, pc) == req' = [req EXCEPT ![r].pc = pc]
Respond(r, resp) == req' = [req EXCEPT ![r].pc = "done", ![r].resp = resp]

\* A statement (Exec or QueryRow) returns an error and changes nothing;
\* the method returns it.
ExecFails(r) ==
    /\ failures < MaxFailures
    /\ failures' = failures + 1
    /\ Respond(r, "error")
    /\ UNCHANGED <<users, codes, nextId, issued>>

IssuedCodes == {v.code : v \in issued}

-----------------------------------------------------------------------------
(* AddUser: INSERT INTO User.                                              *)

AddUserInsert(r) ==
    LET e == req[r].email IN
    /\ req[r].pc = "AddUser.insert"
    /\ \/ ExecFails(r)
       \/ /\ users[e] # Nil
          /\ Respond(r, "ErrDuplicateEntry")
          /\ UNCHANGED <<users, nextId, codes, issued, failures>>
       \/ /\ users[e] = Nil
          /\ users' = [users EXCEPT ![e] = [id |-> nextId, status |-> req[r].status]]
          /\ nextId' = nextId + 1
          /\ Respond(r, "ok")
          /\ UNCHANGED <<codes, issued, failures>>

(* AddVerification: GetUser, then INSERT INTO Verification.               *)

AddVerificationGetUser(r) ==
    LET e == req[r].email IN
    /\ req[r].pc = "AddVerification.get"
    /\ \/ ExecFails(r)
       \/ /\ IF users[e] = Nil
             THEN Respond(r, "ErrInvalid")
             ELSE req' = [req EXCEPT ![r].pc = "AddVerification.insert",
                                     ![r].uid = users[e].id]
          /\ UNCHANGED <<users, codes, nextId, issued, failures>>

AddVerificationInsert(r) ==
    /\ req[r].pc = "AddVerification.insert"
    /\ \/ ExecFails(r)
       \/ \* the user was deleted since GetUser: the foreign key rejects the row
          /\ UserById(req[r].uid) = {}
          /\ Respond(r, "error")
          /\ UNCHANGED <<users, nextId, codes, issued, failures>>
       \/ /\ UserById(req[r].uid) # {}
          /\ \E c \in Codes \ IssuedCodes :
                LET row == [code |-> c, type |-> req[r].vtype, uid |-> req[r].uid]
                IN /\ codes' = codes \cup {row}
                   /\ issued' = issued \cup {row}
                   /\ req' = [req EXCEPT ![r].pc = "done", ![r].resp = "ok",
                                         ![r].code = c]
          /\ UNCHANGED <<users, nextId, failures>>

(* Verify: SELECT the code joined with its user, then for a signup code    *)
(* UPDATE the user to active and DELETE the code, in two statements.       *)

VerifySelect(r) ==
    LET row == {v \in codes : v.code = req[r].code} IN
    /\ req[r].pc = "Verify.select"
    /\ \/ ExecFails(r)
       \/ /\ CASE row = {} -> Respond(r, "ErrNotFound")
               [] (CHOOSE v \in row : TRUE).type # Signup ->
                      Respond(r, "unknown verification type")
               [] OTHER -> req' = [req EXCEPT ![r].pc = "Verify.update",
                                              ![r].uid = (CHOOSE v \in row : TRUE).uid]
          /\ UNCHANGED <<users, codes, nextId, issued, failures>>

\* UPDATE User SET Status = active WHERE Id = uid (no row if deleted since).
Activate(uid) ==
    [e \in Emails |-> IF e \in UserById(uid)
                      THEN [users[e] EXCEPT !.status = Active] ELSE users[e]]

\* Mutant: the error of the UPDATE is ignored and the code deleted anyway.
VerifyUpdateIgnoreError(r) ==
    /\ req[r].pc = "Verify.update"
    /\ \/ /\ failures < MaxFailures
          /\ failures' = failures + 1
          /\ UNCHANGED users
       \/ users' = Activate(req[r].uid) /\ UNCHANGED failures
    /\ Goto(r, "Verify.delete")
    /\ UNCHANGED <<codes, nextId, issued>>

VerifyUpdate(r) ==
    /\ req[r].pc = "Verify.update"
    /\ \/ ExecFails(r)
       \/ /\ users' = Activate(req[r].uid)
          /\ Goto(r, "Verify.delete")
          /\ UNCHANGED <<codes, nextId, issued, failures>>

VerifyDelete(r) ==
    /\ req[r].pc = "Verify.delete"
    /\ \/ ExecFails(r)
       \/ /\ codes' = {v \in codes : v.code # req[r].code}
          /\ Respond(r, "ok")
          /\ UNCHANGED <<users, nextId, issued, failures>>

(* DeleteUser: DELETE FROM User WHERE Email, ErrNotFound when no row.      *)

\* Mutant: the user's verification codes are left behind.
DeleteUserDeleteNoCascade(r) ==
    LET e == req[r].email IN
    /\ req[r].pc = "DeleteUser.delete"
    /\ users[e] # Nil
    /\ users' = [users EXCEPT ![e] = Nil]
    /\ Respond(r, "ok")
    /\ UNCHANGED <<codes, nextId, issued, failures>>

DeleteUserDelete(r) ==
    LET e == req[r].email IN
    /\ req[r].pc = "DeleteUser.delete"
    /\ \/ ExecFails(r)
       \/ /\ users[e] = Nil
          /\ Respond(r, "ErrNotFound")
          /\ UNCHANGED <<users, codes, nextId, issued, failures>>
       \/ /\ users[e] # Nil
          /\ users' = [users EXCEPT ![e] = Nil]
          /\ codes' = {v \in codes : v.uid # users[e].id}
          /\ Respond(r, "ok")
          /\ UNCHANGED <<nextId, issued, failures>>

-----------------------------------------------------------------------------

\* The tables the requests start from: empty, or as AddUser(e, inactive)
\* and AddVerification(e, signup) leave them, the first user (Id 1) with
\* its signup code c, so that a Verify can race DeleteUser or another
\* Verify from the first step.
InitTables ==
    LET inactive == CHOOSE s \in UserStatuses : s # Active IN
    {[users |-> [e \in Emails |-> Nil], codes |-> {}, nextId |-> 1]}
    \cup {[users |-> [f \in Emails |-> IF f = e THEN [id |-> 1, status |-> inactive] ELSE Nil],
           codes |-> {[code |-> c, type |-> Signup, uid |-> 1]}, nextId |-> 2] :
             e \in Emails, c \in Codes}

\* The first statement of each method.
FirstPc == [AddUser |-> "AddUser.insert", AddVerification |-> "AddVerification.get",
            Verify |-> "Verify.select", DeleteUser |-> "DeleteUser.delete"]

Init ==
    /\ \E t \in InitTables :
          /\ users = t.users
          /\ codes = t.codes
          /\ nextId = t.nextId
          /\ issued = t.codes
    /\ failures = 0
    /\ req \in [Requests ->
                 {[pc |-> FirstPc[o],
                   op |-> o, email |-> e, status |-> s, vtype |-> t,
                   code |-> c, uid |-> 0, resp |-> "none"] :
                    o \in Ops, e \in Emails, s \in UserStatuses,
                    t \in VTypes, c \in Codes}]

Request(r) ==
    \/ AddUserInsert(r)
    \/ AddVerificationGetUser(r)
    \/ AddVerificationInsert(r)
    \/ VerifySelect(r)
    \/ VerifyUpdate(r)
    \/ VerifyDelete(r)
    \/ DeleteUserDelete(r)

Next == \E r \in Requests : Request(r)

Spec == Init /\ [][Next]_vars

-----------------------------------------------------------------------------
(* Properties.                                                             *)

TypeOK ==
    /\ users \in [Emails -> {Nil} \cup [id : 1..nextId - 1, status : UserStatuses]]
    /\ codes \subseteq issued
    /\ \A v \in codes : UserById(v.uid) # {}
    /\ issued \subseteq [code : Codes, type : VTypes, uid : 1..nextId - 1]
    /\ failures \in 0..MaxFailures
    /\ \A r \in Requests : req[r].resp \in Responses

\* A user who was sent a signup code and is not active yet still has a
\* signup code it can verify: Verify activates the user before it deletes
\* the code, so a failure of either statement, or a race with a second
\* Verify of the same code, never leaves an inactive user without a code.
VerificationNotLost ==
    \A e \in Emails :
        /\ users[e] # Nil
        /\ users[e].status # Active
        /\ \E v \in issued : v.uid = users[e].id /\ v.type = Signup
        => \E v \in codes : v.uid = users[e].id /\ v.type = Signup

-----------------------------------------------------------------------------
(* Refinement: every method is one atomic step of AdminUsersAtomic.  The    *)
(* abstract pending codes are the Verification rows that can still act: a  *)
(* signup code of a user who is not active, or a code of another type.     *)

PendingCodes ==
    {v \in codes : \E e \in UserById(v.uid) : v.type = Signup => users[e].status # Active}

Atomic == INSTANCE AdminUsersAtomic
            WITH accounts <- users, pending <- PendingCodes,
                 Ids <- 1..Cardinality(Requests)

\* The statements of concurrent AddUser, AddVerification, Verify and
\* DeleteUser calls, with any of them failing, only ever do what one
\* atomic call would: in particular Verify's UPDATE is the step that
\* activates the user and retires the codes, and the later DELETE changes
\* nothing a caller can observe.
AtomicSpec == Atomic!Spec
=============================================================================
