------------------------- MODULE AdminUsersAtomic -------------------------
(***************************************************************************)
(* What the user and verification methods of db.go promise, with every    *)
(* method one atomic step: accounts are created, sent codes, verified and  *)
(* deleted.  A code is pending while it can still do something: a signup   *)
(* code until its user is active, any other code until its user is        *)
(* deleted.  Verifying a signup code activates its user and retires all    *)
(* the user's signup codes at once.  AdminUsers implements this            *)
(* specification (AdminUsers!AtomicSpec).                                  *)
(***************************************************************************)
EXTENDS Naturals

CONSTANTS Emails, Codes, VTypes, UserStatuses, Ids, Nil

Signup == "signup"
Active == "active"

VARIABLES
    accounts,   \* email |-> Nil or [id, status]
    pending     \* the pending codes, a set of [code, type, uid]

vars == <<accounts, pending>>

Row(c, t, uid) == [code |-> c, type |-> t, uid |-> uid]

\* The codes that are pending for an account in the state acc.
Pends(acc, v) ==
    \E e \in Emails : /\ acc[e] # Nil /\ acc[e].id = v.uid
                      /\ (v.type = Signup => acc[e].status # Active)

\* No account, or one inactive account (Id 1) with one pending signup code.
Init ==
    \/ accounts = [e \in Emails |-> Nil] /\ pending = {}
    \/ \E e \in Emails, c \in Codes, s \in UserStatuses \ {Active} :
          /\ 1 \in Ids
          /\ accounts = [f \in Emails |-> IF f = e THEN [id |-> 1, status |-> s] ELSE Nil]
          /\ pending = {Row(c, Signup, 1)}

AddUser(e, s) ==
    /\ accounts[e] = Nil
    /\ \E id \in Ids \ {accounts[f].id : f \in {g \in Emails : accounts[g] # Nil}} :
          accounts' = [accounts EXCEPT ![e] = [id |-> id, status |-> s]]
    /\ UNCHANGED pending

\* A new code for an account; it is pending unless it is a signup code of
\* an account that is already active.
AddVerification(e, t) ==
    /\ accounts[e] # Nil
    /\ \E c \in Codes \ {v.code : v \in pending} :
          LET row == Row(c, t, accounts[e].id) IN
          pending' = IF Pends(accounts, row) THEN pending \cup {row} ELSE pending
    /\ UNCHANGED accounts

Verify(v) ==
    /\ v \in pending
    /\ v.type = Signup
    /\ accounts' = [e \in Emails |->
                      IF accounts[e] # Nil /\ accounts[e].id = v.uid
                      THEN [accounts[e] EXCEPT !.status = Active] ELSE accounts[e]]
    /\ pending' = {w \in pending : w.uid # v.uid \/ w.type # Signup}

DeleteUser(e) ==
    /\ accounts[e] # Nil
    /\ accounts' = [accounts EXCEPT ![e] = Nil]
    /\ pending' = {w \in pending : w.uid # accounts[e].id}

Next ==
    \/ \E e \in Emails, s \in UserStatuses : AddUser(e, s)
    \/ \E e \in Emails, t \in VTypes : AddVerification(e, t)
    \/ \E v \in pending : Verify(v)
    \/ \E e \in Emails : DeleteUser(e)

Spec == Init /\ [][Next]_vars
=============================================================================
