-------------------------- MODULE ResolverLifecycle --------------------------
(***************************************************************************)
(* The resolver daemon of src/cmd/resolver/resolver.go: Start, Stop, the  *)
(* signal loop of main (SIGHUP: Stop then Start; SIGINT: Stop and return), *)
(* and handleRequest, which every query runs in its own goroutine.         *)
(*                                                                         *)
(* Start assigns the package globals one after another (servers, the data  *)
(* and stat handlers, the request handler, the rate limiter) and spawns a *)
(* goroutine per server that runs ListenAndServe.  Stop shuts the servers *)
(* down, then the request, data and stat handlers.  handleRequest reads   *)
(* the globals rateLimiter and dnsRequestHandler when it runs.            *)
(*                                                                         *)
(* Every object Start creates is named by its kind and the generation of  *)
(* the Start that created it.  The dns.Server of the miekg/dns library is *)
(* the environment, with its documented behaviour: ListenAndServe marks   *)
(* the server started only once it has bound the address (and fails if   *)
(* the address is taken); Shutdown of a server that has not started        *)
(* returns an error and does nothing; Shutdown of a started server stops  *)
(* it accepting and waits for the handlers of the queries it accepted.    *)
(***************************************************************************)
EXTENDS Naturals, FiniteSets

CONSTANTS
    NumServers,   \* the servers of the configuration
    MaxReloads,   \* the most SIGHUPs
    Queries       \* query goroutines (each serves one query)

Servers == 1..NumServers
Gens == 1..(MaxReloads + 1)
Kinds == {"data", "stat", "handler", "limiter"}

VARIABLES
    mpc,       \* main: the statement of Start, Stop or the signal loop it is at
    signal,    \* the signal being handled: "none", "SIGHUP", "SIGINT"
    gen,       \* the generation of the last Start
    cur,       \* kind |-> the generation the global currently points to
    stopIdx,   \* Stop's loop index over servers
    shut,      \* objects shut down: <<kind, gen>>
    lst,       \* <<gen, i>> |-> the dns.Server i of that generation
    port,      \* i |-> the generation whose server i holds the address, or 0
    missed,    \* servers Stop's Shutdown found not started (history)
    q          \* query goroutines

vars == <<mpc, signal, gen, cur, stopIdx, shut, lst, port, missed, q>>

ListenerStates == {"none", "spawned", "serving", "closing", "stopped", "failed"}

\* The queries a server accepted whose handler has not returned.
InFlight(l) == {x \in Queries : q[x].lst = l /\ q[x].pc \in {"limit", "handle", "respond"}}

-----------------------------------------------------------------------------
(* Start                                                                   *)

\* LoadConfig (error ignored), the logger, servers = server.NewServer(...)
StartServers ==
    /\ mpc = "start.servers"
    /\ gen' = IF signal = "none" THEN gen ELSE gen + 1
    /\ mpc' = "start.data"
    /\ UNCHANGED <<signal, cur, stopIdx, shut, lst, port, missed, q>>

\* One assignment of a global: redisDataHandler, redisStatHandler,
\* dnsRequestHandler (built over the new redisDataHandler), rateLimiter.
Assign(kind, from, to) ==
    /\ mpc = from
    /\ cur' = [cur EXCEPT ![kind] = gen]
    /\ mpc' = to
    /\ UNCHANGED <<signal, gen, stopIdx, shut, lst, port, missed, q>>

StartData == Assign("data", "start.data", "start.stat")
StartStat == Assign("stat", "start.stat", "start.handler")
StartHandler == Assign("handler", "start.handler", "start.limiter")
StartLimiter == Assign("limiter", "start.limiter", "start.listen")

\* dns.HandleFunc and a goroutine per server running ListenAndServe.
StartListen ==
    /\ mpc = "start.listen"
    /\ lst' = [l \in DOMAIN lst |-> IF l[1] = gen THEN "spawned" ELSE lst[l]]
    /\ mpc' = "idle"
    /\ signal' = "none"
    /\ UNCHANGED <<gen, cur, stopIdx, shut, port, missed, q>>

-----------------------------------------------------------------------------
(* The signal loop and Stop                                                *)

\* A signal arrives while main waits on the channel.
Signal ==
    /\ mpc = "idle"
    /\ \E s \in {"SIGHUP", "SIGINT"} :
          /\ s = "SIGHUP" => gen <= MaxReloads
          /\ signal' = s
    /\ mpc' = "stop.servers"
    /\ stopIdx' = 1
    /\ UNCHANGED <<gen, cur, shut, lst, port, missed, q>>

\* Mutant: Stop's loop skips the last server (i < len(servers) - 1).
StopServerSkipLast ==
    LET l == <<gen, stopIdx>> IN
    /\ mpc = "stop.servers"
    /\ stopIdx <= NumServers
    /\ IF lst[l] = "serving" /\ stopIdx < NumServers
       THEN /\ lst' = [lst EXCEPT ![l] = "closing"]
            /\ mpc' = "stop.wait"
            /\ UNCHANGED <<stopIdx, missed>>
       ELSE /\ missed' = IF lst[l] = "spawned" THEN missed \cup {l} ELSE missed
            /\ stopIdx' = stopIdx + 1
            /\ UNCHANGED <<lst, mpc>>
    /\ UNCHANGED <<signal, gen, cur, shut, port, q>>

\* servers[i].Shutdown(): a started server stops accepting; any other
\* returns an error, which Stop ignores.
StopServer ==
    LET l == <<gen, stopIdx>> IN
    /\ mpc = "stop.servers"
    /\ stopIdx <= NumServers
    /\ IF lst[l] = "serving"
       THEN /\ lst' = [lst EXCEPT ![l] = "closing"]
            /\ mpc' = "stop.wait"
            /\ UNCHANGED <<stopIdx, missed>>
       ELSE /\ missed' = IF lst[l] = "spawned" THEN missed \cup {l} ELSE missed
            /\ stopIdx' = stopIdx + 1
            /\ UNCHANGED <<lst, mpc>>
    /\ UNCHANGED <<signal, gen, cur, shut, port, q>>

\* Mutant: the server is marked stopped but keeps its address.
StopServerWaitKeepPort ==
    LET l == <<gen, stopIdx>> IN
    /\ mpc = "stop.wait"
    /\ InFlight(l) = {}
    /\ lst' = [lst EXCEPT ![l] = "stopped"]
    /\ stopIdx' = stopIdx + 1
    /\ mpc' = "stop.servers"
    /\ UNCHANGED <<signal, gen, cur, shut, port, missed, q>>

\* Shutdown returns once the handlers of the queries the server accepted
\* have returned; the address is released.
StopServerWait ==
    LET l == <<gen, stopIdx>> IN
    /\ mpc = "stop.wait"
    /\ InFlight(l) = {}
    /\ lst' = [lst EXCEPT ![l] = "stopped"]
    /\ port' = [port EXCEPT ![stopIdx] = 0]
    /\ stopIdx' = stopIdx + 1
    /\ mpc' = "stop.servers"
    /\ UNCHANGED <<signal, gen, cur, shut, missed, q>>

\* Once every server is shut down: dnsRequestHandler, redisDataHandler and
\* redisStatHandler .ShutDown(), in this order.
ShutDown(kind, from, to) ==
    /\ mpc = from
    /\ from = "stop.servers" => stopIdx > NumServers
    /\ shut' = shut \cup {<<kind, cur[kind]>>}
    /\ mpc' = to
    /\ UNCHANGED <<signal, gen, cur, stopIdx, lst, port, missed, q>>

StopHandler == ShutDown("handler", "stop.servers", "stop.data")

\* Mutant: the last ShutDown with the two signals' continuations swapped.
StopStatSwapped == ShutDown("stat", "stop.stat", IF signal = "SIGHUP" THEN "exited"
                                                                      ELSE "start.servers")
StopData == ShutDown("data", "stop.data", "stop.stat")

\* The last ShutDown; then SIGINT returns from main (the process exits)
\* and SIGHUP runs Start.
StopStat == ShutDown("stat", "stop.stat", IF signal = "SIGINT" THEN "exited"
                                                             ELSE "start.servers")

-----------------------------------------------------------------------------
(* The servers (miekg/dns) and handleRequest                               *)

\* ListenAndServe: bind the address, or fail and log the error.
ListenAndServe(l) ==
    /\ mpc # "exited"
    /\ lst[l] = "spawned"
    /\ IF port[l[2]] = 0
       THEN /\ lst' = [lst EXCEPT ![l] = "serving"]
            /\ port' = [port EXCEPT ![l[2]] = l[1]]
       ELSE /\ lst' = [lst EXCEPT ![l] = "failed"]
            /\ UNCHANGED port
    /\ UNCHANGED <<mpc, signal, gen, cur, stopIdx, shut, missed, q>>

\* A started server accepts a query and runs handleRequest for it.
Accept(x, l) ==
    /\ mpc # "exited"
    /\ q[x].pc = "none"
    /\ lst[l] = "serving"
    /\ q' = [q EXCEPT ![x] = [pc |-> "limit", lst |-> l, h |-> 0]]
    /\ UNCHANGED <<mpc, signal, gen, cur, stopIdx, shut, lst, port, missed>>

\* rateLimiter.CanHandle, read from the global: REFUSED, or handle.
HandleLimit(x) ==
    /\ mpc # "exited"
    /\ q[x].pc = "limit"
    /\ \E allowed \in BOOLEAN :
          q' = [q EXCEPT ![x].pc = IF allowed THEN "handle" ELSE "done"]
    /\ UNCHANGED <<mpc, signal, gen, cur, stopIdx, shut, lst, port, missed>>

\* dnsRequestHandler.HandleRequest, on the handler the global points to now.
HandleRequest(x) ==
    /\ mpc # "exited"
    /\ q[x].pc = "handle"
    /\ q' = [q EXCEPT ![x].pc = "respond", ![x].h = cur["handler"]]
    /\ UNCHANGED <<mpc, signal, gen, cur, stopIdx, shut, lst, port, missed>>

\* The handler writes the response and handleRequest returns.
HandleRespond(x) ==
    /\ mpc # "exited"
    /\ q[x].pc = "respond"
    /\ q' = [q EXCEPT ![x].pc = "done"]
    /\ UNCHANGED <<mpc, signal, gen, cur, stopIdx, shut, lst, port, missed>>

-----------------------------------------------------------------------------
(* The specification: main starts with Start (main, line 59).             *)

ServerIds == Gens \X Servers
NoQuery == [pc |-> "none", lst |-> <<0, 0>>, h |-> 0]

Init ==
    /\ mpc = "start.servers"
    /\ signal = "none"
    /\ gen = 1
    /\ cur = [k \in Kinds |-> 0]
    /\ stopIdx = 1
    /\ shut = {}
    /\ lst = [l \in ServerIds |-> "none"]
    /\ port = [i \in Servers |-> 0]
    /\ missed = {}
    /\ q = [x \in Queries |-> NoQuery]

\* The statements of Start and Stop that main runs once a signal arrived.
Reload ==
    \/ StartServers \/ StartData \/ StartStat \/ StartHandler \/ StartLimiter
    \/ StartListen \/ StopServer \/ StopServerWait
    \/ StopHandler \/ StopData \/ StopStat

Main == Reload \/ Signal

\* The steps of a query goroutine once a server accepted its query.
Serve(x) == HandleLimit(x) \/ HandleRequest(x) \/ HandleRespond(x)

Next ==
    \/ Main
    \/ \E l \in ServerIds : ListenAndServe(l)
    \/ \E x \in Queries :
          \/ \E l \in ServerIds : Accept(x, l)
          \/ Serve(x)

Spec == Init /\ [][Next]_vars

\* Go runs every runnable goroutine: main through Start and Stop, each
\* ListenAndServe goroutine, each handleRequest goroutine (whose handler
\* answers).  Signals and incoming queries come from outside: not fair.
FairSpec ==
    /\ Spec
    /\ WF_vars(Reload)
    /\ \A l \in ServerIds : WF_vars(ListenAndServe(l))
    /\ \A x \in Queries : WF_vars(Serve(x))

-----------------------------------------------------------------------------
(* Properties.                                                             *)

\* Besides the types: an address is held only by a server of its
\* generation that has started and not finished shutting down.
TypeOK ==
    /\ gen \in Gens
    /\ cur \in [Kinds -> 0..gen]
    /\ shut \subseteq Kinds \X Gens
    /\ lst \in [ServerIds -> ListenerStates]
    /\ missed \subseteq ServerIds
    /\ \A i \in Servers : port[i] # 0 => lst[<<port[i], i>>] \in {"serving", "closing"}
    /\ \A x \in Queries : q[x].pc \in {"none", "limit", "handle", "respond", "done"}

\* No query is handled by a request handler that Stop has shut down: Stop
\* shuts the servers down (which waits for their queries) before the
\* handlers, and Start assigns the new handler before the new servers
\* listen.
NoRequestOnShutDownHandler ==
    \A x \in Queries : q[x].pc = "respond" => <<"handler", q[x].h>> \notin shut

\* A query reaches a shut-down request handler only through a server whose
\* Shutdown came before its ListenAndServe had started it, and which Stop
\* therefore did not wait for.
ShutDownHandlerOnlyViaMissedServer ==
    \A x \in Queries :
        (q[x].pc = "respond" /\ <<"handler", q[x].h>> \in shut) => q[x].lst \in missed

\* A SIGHUP reload finishes: Stop's Shutdown of each started server returns
\* once the queries it accepted have been answered, the handlers are shut
\* down, and Start runs again up to the wait on the signal channel.
ReloadCompletes == (signal = "SIGHUP") ~> (mpc = "idle")
=============================================================================
