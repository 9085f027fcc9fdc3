-------------------------- MODULE RedisSubscription --------------------------
(***************************************************************************)
(* Redis.SubscribeEvent of src/pkg/hiredis/hiredis.go: the loop that keeps *)
(* a keyspace-notification subscription alive for the zone caches.        *)
(*                                                                         *)
(* Two goroutines share the variable psc and the channel done (capacity   *)
(* 1):                                                                     *)
(*   - the main loop: Init at start, then a select over the one-minute    *)
(*     ticker (re-Init when psc is nil), quit (PUnsubscribe, wait on done, *)
(*     wg.Done) and done (onError and psc = nil on an error);              *)
(*   - a Subscribe goroutine per successful Init: onStart, then           *)
(*     ReceiveWithTimeout on psc until an error or a punsubscribe, which  *)
(*     it sends on done before it returns and closes its connection.       *)
(* The Redis server and the network are the environment: a connection can *)
(* break, the server processes PSUBSCRIBE/PUNSUBSCRIBE later than they    *)
(* were sent, publishes keyspace events and may be down when Init dials.  *)
(*                                                                         *)
(* Keyspace events carry the number of the write that caused them, so the *)
(* model can tell which writes the owner heard of: by onMessage, or by    *)
(* calling onStart (the owner's reload) after the write.                  *)
(*                                                                         *)
(* A connection is a number 1..MaxConns, one per Init that dials.  Ping   *)
(* replies only keep ReceiveWithTimeout from timing out on a healthy       *)
(* connection, so a timeout is modelled as the connection breaking.        *)
(***************************************************************************)
EXTENDS Naturals, Sequences

CONSTANTS
    MaxConns,     \* the most connections Init may dial
    MaxEvents,    \* the most writes to the watched keys
    MaxOutages,   \* the most times the server goes down
    Nil

ASSUME MaxConns \in Nat \ {0} /\ MaxEvents \in Nat /\ MaxOutages \in Nat

Conns == 1..MaxConns

VARIABLES
    mpc,        \* the main loop: "start", "loop", "waitDone", "finished"
    psc,        \* the shared *PubSubConn: a connection or Nil
    nextConn,   \* connections dialled so far
    conn,       \* c |-> "none", "open", "broken", "closed"
    subSent,    \* c |-> PSUBSCRIBE sent and not yet processed by the server
    unsubSent,  \* c |-> PUNSUBSCRIBE sent and not yet processed by the server
    active,     \* c |-> the server has the pattern subscription of c
    inbox,      \* c |-> replies and messages the server sent on c, in order
    spc,        \* c |-> the Subscribe goroutine of c: "none", "start", "recv", "send", "exited"
    sval,       \* c |-> what that goroutine sends on done: "err" or "nil"
    done,       \* the channel done, a sequence of at most one value
    quit,       \* the quit channel: "none", "sent", "received"
    pscAtQuit,  \* psc when quit was received (history)
    up,         \* the server accepts connections
    outages,    \* times the server went down
    events,     \* writes to the watched keys so far
    delivered,  \* the writes whose event was passed to onMessage
    starts,     \* onStart calls
    loaded,     \* events at the last onStart call (history)
    window      \* writes made after an onStart and before the server
                \* processed that subscriber's PSUBSCRIBE (history)

vars == <<mpc, psc, nextConn, conn, subSent, unsubSent, active, inbox, spc,
          sval, done, quit, pscAtQuit, up, outages, events, delivered,
          starts, loaded, window>>

Live == {"start", "recv", "send"}
\* A reply or message on a connection: its kind and, for a message, the write.
Msgs == {<<"psubscribe", 0>>, <<"punsubscribe", 0>>} \cup ({"message"} \X (1..MaxEvents))

-----------------------------------------------------------------------------
(* The main loop.                                                          *)

\* Mutant: psc keeps the previously dialled connection.
InitSubscriptionStalePsc ==
    \/ /\ up
       /\ nextConn < MaxConns
       /\ LET c == nextConn + 1 IN
          /\ nextConn' = c
          /\ psc' = nextConn
          /\ conn' = [conn EXCEPT ![c] = "open"]
          /\ subSent' = [subSent EXCEPT ![c] = TRUE]
          /\ spc' = [spc EXCEPT ![c] = "start"]
    \/ /\ ~up
       /\ UNCHANGED <<psc, nextConn, conn, subSent, spc>>

\* Init: dial, PSubscribe and, on success, psc = newPsc and go Subscribe();
\* on a failure onError, which only logs.  PSUBSCRIBE is only sent here;
\* the server processes it later (ServerSubscribe).
InitSubscription ==
    \/ /\ up
       /\ nextConn < MaxConns
       /\ LET c == nextConn + 1 IN
          /\ nextConn' = c
          /\ psc' = c
          /\ conn' = [conn EXCEPT ![c] = "open"]
          /\ subSent' = [subSent EXCEPT ![c] = TRUE]
          /\ spc' = [spc EXCEPT ![c] = "start"]
    \/ /\ ~up
       /\ UNCHANGED <<psc, nextConn, conn, subSent, spc>>

MainStart ==
    /\ mpc = "start"
    /\ mpc' = "loop"
    /\ InitSubscription
    /\ UNCHANGED <<unsubSent, active, inbox, sval, done, quit, pscAtQuit, up,
                   outages, events, delivered, starts, loaded, window>>

\* Mutant: the tick re-dials without checking psc.
MainTickAlwaysInit ==
    /\ mpc = "loop"
    /\ InitSubscription
    /\ UNCHANGED <<mpc, unsubSent, active, inbox, sval, done, quit, pscAtQuit,
                   up, outages, events, delivered, starts, loaded, window>>

\* case <-ticker.C: re-Init when psc is nil.  With psc set the tick only
\* pings it, which changes nothing the model tells apart.
MainTick ==
    /\ mpc = "loop"
    /\ psc = Nil
    /\ InitSubscription
    /\ UNCHANGED <<mpc, unsubSent, active, inbox, sval, done, quit, pscAtQuit,
                   up, outages, events, delivered, starts, loaded, window>>

\* Mutant: the error is logged but psc is not cleared.
MainDoneKeepPsc ==
    /\ mpc = "loop"
    /\ done # <<>>
    /\ done' = <<>>
    /\ UNCHANGED <<mpc, psc, nextConn, conn, subSent, unsubSent, active, inbox,
                   spc, sval, quit, pscAtQuit, up, outages, events, delivered,
                   starts, loaded, window>>

\* case err := <-done: on an error, onError(err) and psc = nil.
MainDone ==
    /\ mpc = "loop"
    /\ done # <<>>
    /\ done' = <<>>
    /\ psc' = IF Head(done) = "err" THEN Nil ELSE psc
    /\ UNCHANGED <<mpc, nextConn, conn, subSent, unsubSent, active, inbox, spc,
                   sval, quit, pscAtQuit, up, outages, events, delivered, starts, loaded, window>>

\* case wg := <-quit: PUnsubscribe on psc if it is set, then block on <-done.
MainQuit ==
    /\ mpc = "loop"
    /\ quit = "sent"
    /\ quit' = "received"
    /\ pscAtQuit' = psc
    /\ mpc' = "waitDone"
    /\ unsubSent' = IF psc # Nil /\ conn[psc] = "open"
                    THEN [unsubSent EXCEPT ![psc] = TRUE] ELSE unsubSent
    /\ UNCHANGED <<psc, nextConn, conn, subSent, active, inbox, spc, sval, done,
                   up, outages, events, delivered, starts, loaded, window>>

\* <-done; wg.Done(); return
MainFinish ==
    /\ mpc = "waitDone"
    /\ done # <<>>
    /\ done' = <<>>
    /\ mpc' = "finished"
    /\ UNCHANGED <<psc, nextConn, conn, subSent, unsubSent, active, inbox, spc,
                   sval, quit, pscAtQuit, up, outages, events, delivered,
                   starts, loaded, window>>

-----------------------------------------------------------------------------
(* The Subscribe goroutine of connection c.                                *)

\* Mutant: onStart is called for the first subscription only, as if it
\* were called once before the loop instead of by every Subscribe.
SubStartOnlyFirst(c) ==
    /\ spc[c] = "start"
    /\ spc' = [spc EXCEPT ![c] = "recv"]
    /\ starts' = starts + 1
    /\ loaded' = IF starts = 0 THEN events ELSE loaded
    /\ UNCHANGED <<mpc, psc, nextConn, conn, subSent, unsubSent, active, inbox,
                   sval, done, quit, pscAtQuit, up, outages, events, delivered,
                   window>>

\* onStart(); defer psc.Close().  onStart runs as soon as the goroutine
\* starts, whether or not the server has processed the PSUBSCRIBE yet.
SubStart(c) ==
    /\ spc[c] = "start"
    /\ spc' = [spc EXCEPT ![c] = "recv"]
    /\ starts' = starts + 1
    /\ loaded' = events
    /\ UNCHANGED <<mpc, psc, nextConn, conn, subSent, unsubSent, active, inbox,
                   sval, done, quit, pscAtQuit, up, outages, events, delivered,
                   window>>

\* Mutant: a punsubscribe is ignored like any other subscription reply.
SubRecvIgnoreUnsubscribe(c) ==
    /\ spc[c] = "recv"
    /\ psc # Nil
    /\ LET p == psc IN
       \/ /\ conn[p] # "open"
          /\ spc' = [spc EXCEPT ![c] = "send"]
          /\ sval' = [sval EXCEPT ![c] = "err"]
          /\ UNCHANGED <<inbox, delivered>>
       \/ /\ conn[p] = "open"
          /\ inbox[p] # <<>>
          /\ inbox' = [inbox EXCEPT ![p] = Tail(@)]
          /\ IF Head(inbox[p])[1] = "message"
             THEN delivered' = delivered \cup {Head(inbox[p])[2]}
             ELSE UNCHANGED delivered
          /\ UNCHANGED <<spc, sval>>
    /\ UNCHANGED <<mpc, psc, nextConn, conn, subSent, unsubSent, active, done,
                   quit, pscAtQuit, up, outages, events, starts, loaded, window>>

\* switch n := psc.ReceiveWithTimeout(...).(type): the receive reads the
\* shared psc.  An error ends the loop with done <- n; a message goes to
\* onMessage; a punsubscribe ends it with done <- nil; anything else is
\* ignored.  A healthy connection with nothing to read blocks.
SubRecv(c) ==
    /\ spc[c] = "recv"
    /\ psc # Nil
    /\ LET p == psc IN
       \/ /\ conn[p] # "open"
          /\ spc' = [spc EXCEPT ![c] = "send"]
          /\ sval' = [sval EXCEPT ![c] = "err"]
          /\ UNCHANGED <<inbox, delivered>>
       \/ /\ conn[p] = "open"
          /\ inbox[p] # <<>>
          /\ inbox' = [inbox EXCEPT ![p] = Tail(@)]
          /\ CASE Head(inbox[p])[1] = "message" ->
                    /\ delivered' = delivered \cup {Head(inbox[p])[2]}
                    /\ UNCHANGED <<spc, sval>>
               [] Head(inbox[p])[1] = "punsubscribe" ->
                    /\ spc' = [spc EXCEPT ![c] = "send"]
                    /\ sval' = [sval EXCEPT ![c] = "nil"]
                    /\ UNCHANGED delivered
               [] OTHER -> UNCHANGED <<spc, sval, delivered>>
    /\ UNCHANGED <<mpc, psc, nextConn, conn, subSent, unsubSent, active, done,
                   quit, pscAtQuit, up, outages, events, starts, loaded, window>>

\* done <- v; return, running the deferred Close of the connection it
\* started with.
SubSend(c) ==
    /\ spc[c] = "send"
    /\ done = <<>>
    /\ done' = <<sval[c]>>
    /\ spc' = [spc EXCEPT ![c] = "exited"]
    /\ conn' = [conn EXCEPT ![c] = "closed"]
    /\ active' = [active EXCEPT ![c] = FALSE]
    /\ UNCHANGED <<mpc, psc, nextConn, subSent, unsubSent, inbox, sval, quit,
                   pscAtQuit, up, outages, events, delivered, starts, loaded, window>>

-----------------------------------------------------------------------------
(* The server, the network and the caller of quit.                         *)

ServerSubscribe(c) ==
    /\ conn[c] = "open" /\ subSent[c]
    /\ subSent' = [subSent EXCEPT ![c] = FALSE]
    /\ active' = [active EXCEPT ![c] = TRUE]
    /\ inbox' = [inbox EXCEPT ![c] = Append(@, <<"psubscribe", 0>>)]
    /\ UNCHANGED <<mpc, psc, nextConn, conn, unsubSent, spc, sval, done, quit,
                   pscAtQuit, up, outages, events, delivered, starts, loaded, window>>

ServerUnsubscribe(c) ==
    /\ conn[c] = "open" /\ unsubSent[c] /\ ~subSent[c]
    /\ unsubSent' = [unsubSent EXCEPT ![c] = FALSE]
    /\ active' = [active EXCEPT ![c] = FALSE]
    /\ inbox' = [inbox EXCEPT ![c] = Append(@, <<"punsubscribe", 0>>)]
    /\ UNCHANGED <<mpc, psc, nextConn, conn, subSent, spc, sval, done, quit,
                   pscAtQuit, up, outages, events, delivered, starts, loaded, window>>

\* A subscriber that has called onStart while its PSUBSCRIBE is still
\* unprocessed by the server.
InWindow == \E c \in Conns : spc[c] = "recv" /\ subSent[c]

\* Another client writes a watched key: the server publishes the keyspace
\* event on every open connection with an active pattern subscription,
\* and on none if there is no such connection.
Write ==
    /\ events < MaxEvents
    /\ events' = events + 1
    /\ inbox' = [c \in Conns |-> IF conn[c] = "open" /\ active[c]
                                  THEN Append(inbox[c], <<"message", events + 1>>)
                                  ELSE inbox[c]]
    /\ window' = IF InWindow THEN window \cup {events + 1} ELSE window
    /\ UNCHANGED <<mpc, psc, nextConn, conn, subSent, unsubSent, active, spc,
                   sval, done, quit, pscAtQuit, up, outages, delivered, starts,
                   loaded>>

\* A connection breaks (or ReceiveWithTimeout times out), as long as a
\* later dial remains in the bounds.
Break(c) ==
    /\ conn[c] = "open"
    /\ nextConn < MaxConns
    /\ conn' = [conn EXCEPT ![c] = "broken"]
    /\ active' = [active EXCEPT ![c] = FALSE]
    /\ UNCHANGED <<mpc, psc, nextConn, subSent, unsubSent, inbox, spc, sval,
                   done, quit, pscAtQuit, up, outages, events, delivered,
                   starts, loaded, window>>

ServerDown ==
    /\ up /\ outages < MaxOutages
    /\ up' = FALSE
    /\ outages' = outages + 1
    /\ UNCHANGED <<mpc, psc, nextConn, conn, subSent, unsubSent, active, inbox,
                   spc, sval, done, quit, pscAtQuit, events, delivered, starts, loaded, window>>

ServerUp ==
    /\ ~up
    /\ up' = TRUE
    /\ UNCHANGED <<mpc, psc, nextConn, conn, subSent, unsubSent, active, inbox,
                   spc, sval, done, quit, pscAtQuit, outages, events, delivered,
                   starts, loaded, window>>

\* ShutDown of the owner sends its WaitGroup on quit.
SendQuit ==
    /\ quit = "none"
    /\ quit' = "sent"
    /\ UNCHANGED <<mpc, psc, nextConn, conn, subSent, unsubSent, active, inbox,
                   spc, sval, done, pscAtQuit, up, outages, events, delivered,
                   starts, loaded, window>>

-----------------------------------------------------------------------------

Init ==
    /\ mpc = "start"
    /\ psc = Nil
    /\ nextConn = 0
    /\ conn = [c \in Conns |-> "none"]
    /\ subSent = [c \in Conns |-> FALSE]
    /\ unsubSent = [c \in Conns |-> FALSE]
    /\ active = [c \in Conns |-> FALSE]
    /\ inbox = [c \in Conns |-> <<>>]
    /\ spc = [c \in Conns |-> "none"]
    /\ sval = [c \in Conns |-> "nil"]
    /\ done = <<>>
    /\ quit = "none"
    /\ pscAtQuit = Nil
    /\ up \in BOOLEAN
    /\ outages = 0
    /\ events = 0
    /\ delivered = {}
    /\ starts = 0
    /\ loaded = 0
    /\ window = {}

Main == MainStart \/ MainTick \/ MainDone \/ MainQuit \/ MainFinish
Subscriber(c) == SubStart(c) \/ SubRecv(c) \/ SubSend(c)
Server(c) == ServerSubscribe(c) \/ ServerUnsubscribe(c)

Next ==
    \/ Main
    \/ \E c \in Conns : Subscriber(c) \/ Server(c) \/ Break(c)
    \/ Write \/ ServerDown \/ ServerUp \/ SendQuit

\* The ticker fires every minute and the goroutines are scheduled; the
\* server answers commands on an open connection and comes back up after
\* an outage.  Writes, breaking and quitting are never forced.
Fairness ==
    /\ WF_vars(Main)
    /\ \A c \in Conns : WF_vars(Subscriber(c)) /\ WF_vars(Server(c))
    /\ WF_vars(ServerUp)

Spec == Init /\ [][Next]_vars /\ Fairness

-----------------------------------------------------------------------------
(* Properties.                                                             *)

TypeOK ==
    /\ mpc \in {"start", "loop", "waitDone", "finished"}
    /\ psc \in Conns \cup {Nil}
    /\ conn \in [Conns -> {"none", "open", "broken", "closed"}]
    /\ inbox \in [Conns -> Seq(Msgs)]
    /\ spc \in [Conns -> {"none", "exited"} \cup Live]
    /\ done \in Seq({"err", "nil"}) /\ Len(done) <= 1
    /\ quit \in {"none", "sent", "received"}
    /\ delivered \subseteq 1..events /\ window \subseteq 1..events

\* At most one Subscribe goroutine is alive, and while it is receiving the
\* shared psc is the connection it was started for: the main loop never
\* re-dials (or clears psc) under a live receiver, so the receiver never
\* reads another goroutine's connection or a nil psc.
SingleReceiver ==
    \A c \in Conns :
        /\ spc[c] \in Live => \A d \in Conns \ {c} : spc[d] \notin Live
        /\ spc[c] \in {"start", "recv"} => psc = c

\* After the subscribed connection fails, a new subscription is started
\* (onStart runs again) unless the loop is being shut down: the error goes
\* through done, the main loop clears psc and a later tick dials again.
Resubscribes ==
    \A c \in Conns :
        (conn[c] = "broken" /\ spc[c] # "none")
            ~> (quit # "none" \/ \E d \in Conns : d > c /\ spc[d] \in {"recv", "send", "exited"})

\* A quit received while a subscription is set completes: the PUNSUBSCRIBE
\* (or the failure of the connection) makes the receiver send on done, and
\* the main loop calls wg.Done.
QuitCompletesWhenSubscribed ==
    (mpc = "waitDone" /\ pscAtQuit # Nil) ~> mpc = "finished"

\* A subscriber that has caught up: it is receiving on the connection psc
\* names, the server has its subscription and nothing is left to read.
CaughtUp(c) ==
    /\ psc = c /\ spc[c] = "recv" /\ conn[c] = "open" /\ active[c]
    /\ inbox[c] = <<>>

\* Once the subscriber has caught up, the owner has heard of every write:
\* through onMessage, or because onStart (its reload) ran after the write,
\* even when the write's event went to a connection that broke before it
\* was read.  The only writes it may have missed are those made after
\* onStart and before the server processed the PSUBSCRIBE: Subscribe calls
\* onStart without waiting for the subscription's confirmation.
MissedOnlyInSubscribeWindow ==
    \A c \in Conns :
        CaughtUp(c) => \A n \in 1..events : n <= loaded \/ n \in delivered \/ n \in window

\* Every quit that the main loop receives completes with wg.Done, so that
\* the owner's ShutDown returns.
QuitCompletes ==
    mpc = "waitDone" ~> mpc = "finished"
=============================================================================
