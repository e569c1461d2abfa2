----------------------------- MODULE ProxyLifecycle -----------------------------
(***************************************************************************)
(* The life cycle of the MITM proxy: proxy.Controller (controller.go),     *)
(* which serialises Enable, Disable and SetListenAddr with one mutex, and  *)
(* proxy.Server (proxy.go), whose listener runs in a goroutine of its own. *)
(*                                                                         *)
(* A Server keeps two records of its listener, the pointer httpSrv and the *)
(* flag running.  The goroutine of every ListenAndServe sets the flag when *)
(* it starts and clears both when it ends, whenever it is scheduled; the   *)
(* controller asks only the flag.  Server.Shutdown waits for the requests  *)
(* in flight, with the controller's mutex held and for as long as the      *)
(* context of its caller lets it.                                          *)
(***************************************************************************)
EXTENDS Integers

CONSTANTS
    Addr,        \* listen addresses
    Configured,  \* the one of the configuration
    MaxServers,  \* bound on the Servers built
    MaxRuns,     \* bound on the calls of Server.ListenAndServe
    Prompt       \* a listener is bound, or has failed, within the startup window

ASSUME BoundsAssumption == MaxServers \in Nat /\ MaxRuns \in Nat /\ Prompt \in BOOLEAN
ASSUME AddrAssumption == Configured \in Addr

ServerId == 1..MaxServers
RunId == 1..MaxRuns
None == 0       \* nil: no Server, no listener, no CA

\* The goroutine of a ListenAndServe: not made, made, started, accepting
\* connections, its listener gone, running cleared, ended.
Stage == {"unmade", "made", "binding", "serving", "over", "cleared", "ended"}

VARIABLES
    server,    \* Controller.server
    ca,        \* Controller.ca, the generation of the key pair
    diskCA,    \* the generation on disk
    listenAddr,  \* Controller.cfg.ListenAddr
    op,        \* the operation holding Controller.mu
    built,     \* Servers built so far
    caOf,      \* caOf[s]: the CA s hands out certificates of
    running,   \* running[s]: Server.running
    httpSrv,   \* httpSrv[s]: Server.httpSrv, the run it would shut down
    stage,     \* stage[r]: the goroutine of run r
    ofServer,  \* ofServer[r]: the Server whose run r is
    at,        \* at[r]: the address of r
    closing,   \* closing[r]: http.Server.Shutdown has been called on r
    inflight,  \* the runs with connections that their Shutdown would wait for
    disabled   \* history: a Disable succeeded and nothing was asked for since

controller == <<server, ca, diskCA, listenAddr, op, built, disabled>>
servers == <<caOf, running, httpSrv>>
runs == <<stage, ofServer, at, closing>>
state == <<controller, servers, runs>>
vars == <<state, inflight>>

NoOp == [kind |-> "none"]
Op == [kind : {"await"}, by : {"enable", "listen"}, server : ServerId, run : RunId]
        \cup [kind : {"shutdown"}, removeCA : BOOLEAN, to : Addr \cup {None},
              run : RunId \cup {None}, deadline : BOOLEAN]

TypeOK ==
    /\ server \in ServerId \cup {None}
    /\ ca \in Nat /\ diskCA \in Nat
    /\ listenAddr \in Addr
    /\ op \in Op \cup {NoOp}
    /\ built \in 0..MaxServers
    /\ caOf \in [ServerId -> Nat]
    /\ running \in [ServerId -> BOOLEAN]
    /\ httpSrv \in [ServerId -> RunId \cup {None}]
    /\ stage \in [RunId -> Stage]
    /\ ofServer \in [RunId -> ServerId \cup {None}]
    /\ at \in [RunId -> Addr]
    /\ closing \in [RunId -> BOOLEAN]
    /\ inflight \subseteq RunId
    /\ disabled \in BOOLEAN

\* A first start, or a later one that finds the CA of an earlier process.
Init ==
    /\ server = None /\ ca = None /\ diskCA \in {None, 1}
    /\ listenAddr = Configured
    /\ op = NoOp
    /\ built = 0
    /\ caOf = [s \in ServerId |-> None]
    /\ running = [s \in ServerId |-> FALSE]
    /\ httpSrv = [s \in ServerId |-> None]
    /\ stage = [r \in RunId |-> "unmade"]
    /\ ofServer = [r \in RunId |-> None]
    /\ at = [r \in RunId |-> Configured]
    /\ closing = [r \in RunId |-> FALSE]
    /\ inflight = {}
    /\ disabled = TRUE

IsRunning(s) == s # None /\ running[s]

-----------------------------------------------------------------------------
(* Server.ListenAndServe: make the goroutine and wait for its error or for *)
(* the end of the startup window.                                          *)

\* The first free run becomes the run of Server s.
Launch(s, r, by) ==
    /\ stage[r] = "unmade"
    /\ \A q \in RunId : q < r => stage[q] # "unmade"
    /\ stage' = [stage EXCEPT ![r] = "made"]
    /\ ofServer' = [ofServer EXCEPT ![r] = s]
    /\ at' = [at EXCEPT ![r] = listenAddr']
    /\ httpSrv' = [httpSrv EXCEPT ![s] = r]
    /\ op' = [kind |-> "await", by |-> by, server |-> s, run |-> r]
    /\ UNCHANGED <<closing, running>>

\* Mutant: the cleanup does not look whose pointer it clears.
UntrackAny(s, r) == httpSrv' = [httpSrv EXCEPT ![s] = None]

\* The cleanup of a failed or ended run, unless another run took its place.
Untrack(s, r) == httpSrv' = [httpSrv EXCEPT ![s] = IF @ = r THEN None ELSE @]

\* errCh delivers the error.
LaunchFails ==
    /\ op.kind = "await"
    /\ stage[op.run] \in {"over", "cleared", "ended"}
    /\ Untrack(op.server, op.run)
    /\ op' = NoOp
    /\ UNCHANGED <<server, ca, diskCA, listenAddr, built, disabled, caOf, running, runs>>

\* Mutant: the caller waits for a listener that may never be bound.
LaunchAwaitsListener ==
    /\ op.kind = "await"
    /\ stage[op.run] = "serving"
    /\ server' = op.server
    /\ op' = NoOp
    /\ UNCHANGED <<ca, diskCA, listenAddr, built, disabled, servers, runs>>

\* The window ends: the caller is told that the proxy runs.
LaunchReturns ==
    /\ op.kind = "await"
    /\ Prompt => stage[op.run] \notin {"made", "binding"}
    /\ server' = op.server
    /\ op' = NoOp
    /\ UNCHANGED <<ca, diskCA, listenAddr, built, disabled, servers, runs>>

-----------------------------------------------------------------------------
(* The goroutine of run r.                                                 *)

GoroutineStarts(r) ==
    /\ stage[r] = "made"
    /\ stage' = [stage EXCEPT ![r] = "binding"]
    /\ running' = [running EXCEPT ![ofServer[r]] = TRUE]
    /\ UNCHANGED <<controller, caOf, httpSrv, ofServer, at, closing>>

Bind(r) ==
    /\ stage[r] = "binding"
    /\ ~closing[r]
    /\ \A q \in RunId : stage[q] = "serving" => at[q] # at[r]
    /\ stage' = [stage EXCEPT ![r] = "serving"]
    /\ UNCHANGED <<controller, servers, ofServer, at, closing>>

\* The listener cannot be bound, fails later, or finds itself shut down.
ListenerEnds(r) ==
    /\ stage[r] \in {"binding", "serving"}
    /\ stage' = [stage EXCEPT ![r] = "over"]
    /\ UNCHANGED <<controller, servers, ofServer, at, closing>>

ClearRunning(r) ==
    /\ stage[r] = "over"
    /\ stage' = [stage EXCEPT ![r] = "cleared"]
    /\ running' = [running EXCEPT ![ofServer[r]] = FALSE]
    /\ UNCHANGED <<controller, caOf, httpSrv, ofServer, at, closing>>

\* The goroutine ends; its address and its closing flag are garbage.
ClearPointer(r) ==
    /\ stage[r] = "cleared"
    /\ stage' = [stage EXCEPT ![r] = "ended"]
    /\ Untrack(ofServer[r], r)
    /\ at' = [at EXCEPT ![r] = Configured]
    /\ closing' = [closing EXCEPT ![r] = FALSE]
    /\ UNCHANGED <<controller, caOf, running, ofServer>>

-----------------------------------------------------------------------------
(* Controller.Enable                                                       *)

\* buildServer makes a Server for a CA.
Build(s, c) ==
    /\ built < MaxServers
    /\ s = built + 1
    /\ built' = s
    /\ caOf' = [caOf EXCEPT ![s] = c]

\* NewCA: of a pair of which a file is missing nothing is loaded.
LoadCA == diskCA # None /\ ca' = diskCA /\ UNCHANGED diskCA
GenerateCA == diskCA = None /\ diskCA' = built + 1 /\ ca' = diskCA'

\* A key with the wrong mode, a file that cannot be parsed, read or written.
RefuseCA == ca = None /\ UNCHANGED <<ca, diskCA>>

EnsureCA ==
    \/ ca # None /\ UNCHANGED <<ca, diskCA>>
    \/ ca = None /\ (LoadCA \/ GenerateCA)

EnableLaunches ==
    /\ op = NoOp
    /\ EnsureCA
    /\ \E s \in ServerId, r \in RunId :
          /\ IF server = None THEN Build(s, ca')
             ELSE s = server /\ UNCHANGED <<built, caOf>>
          /\ ~running[s] /\ httpSrv[s] = None
          /\ server' = s
          /\ listenAddr' = listenAddr
          /\ Launch(s, r, "enable")
    /\ disabled' = FALSE

\* There is no CA, or the Server cannot be built: the CA stays.
EnableFails ==
    /\ op = NoOp
    /\ server = None
    /\ EnsureCA \/ RefuseCA
    /\ disabled' = FALSE
    /\ UNCHANGED <<server, listenAddr, op, built, servers, runs>>

\* The flag says that it runs already, or only the pointer does ("already
\* running"): nothing to do, or an error.
EnableIdle ==
    /\ op = NoOp
    /\ server # None
    /\ running[server] \/ httpSrv[server] # None
    /\ disabled' = FALSE
    /\ UNCHANGED <<server, ca, diskCA, listenAddr, op, built, servers, runs>>

-----------------------------------------------------------------------------
(* Controller.Disable and SetListenAddr.                                   *)

\* Server.Shutdown forgets the run, closes its listener and lowers the flag,
\* which nobody reads before the operation returns ...  The context of a
\* handler ends when its client goes away, that of main's Disable after 3 s.
ShutdownBegins(removeCA, to, deadline) ==
    /\ op = NoOp
    /\ IsRunning(server)
    /\ LET r == httpSrv[server] IN
        /\ httpSrv' = [httpSrv EXCEPT ![server] = None]
        /\ IF r = None THEN UNCHANGED <<closing, stage>>
           ELSE /\ closing' = [closing EXCEPT ![r] = TRUE]
                /\ stage' = [stage EXCEPT ![r] = IF @ = "serving" THEN "over" ELSE @]
        /\ op' = [kind |-> "shutdown", removeCA |-> removeCA, to |-> to,
                   run |-> r, deadline |-> deadline]
        \* ... and without a run leaves the flag alone.
        /\ running' = [running EXCEPT ![server] = @ /\ r = None]
    /\ disabled' = FALSE
    /\ UNCHANGED <<server, ca, diskCA, listenAddr, built, caOf, ofServer, at>>

\* Nothing is left that http.Server.Shutdown waits for (without a run it was
\* not called).
Drained == op.kind = "shutdown" /\ op.run \notin inflight

\* Requests in flight outlast the caller's context: the operation gives up.
ShutdownFails ==
    /\ op.kind = "shutdown" /\ ~Drained
    /\ op' = NoOp
    /\ UNCHANGED <<server, ca, diskCA, listenAddr, built, disabled, servers, runs>>

\* Mutant: the Server that closed over the removed CA stays.
FinishKeepingServer(removeCA) ==
    /\ IF removeCA THEN ca' = None /\ diskCA' \in {None, diskCA}
       ELSE UNCHANGED <<ca, diskCA>>
    /\ op' = NoOp
    /\ disabled' = TRUE
    /\ UNCHANGED <<server, listenAddr, built, servers, runs>>

\* What Disable does once the listener is stopped
\* (the errors of removing the two files are ignored).
FinishDisable(removeCA) ==
    /\ IF removeCA THEN ca' = None /\ diskCA' \in {None, diskCA} /\ server' = None
       ELSE UNCHANGED <<ca, diskCA, server>>
    /\ op' = NoOp
    /\ disabled' = TRUE
    /\ UNCHANGED <<listenAddr, built, servers, runs>>

DisableStopped(removeCA) ==
    /\ op = NoOp
    /\ ~IsRunning(server)
    /\ FinishDisable(removeCA)

DisableRunning ==
    /\ Drained
    /\ op.to = None
    /\ FinishDisable(op.removeCA)

\* The next Enable uses the address.
ListenStopped(a) ==
    /\ op = NoOp
    /\ ~IsRunning(server)
    /\ server' = None
    /\ listenAddr' = a
    /\ UNCHANGED <<ca, diskCA, op, built, disabled, servers, runs>>

\* A new Server restarts on the new address; the controller has none until
\* it has started.
ListenRestarts ==
    /\ Drained
    /\ op.to # None
    /\ server' = None
    /\ listenAddr' = op.to
    /\ \E s \in ServerId, r \in RunId : Build(s, ca) /\ Launch(s, r, "listen")
    /\ UNCHANGED <<ca, diskCA, disabled>>

\* The new Server cannot be built.
ListenFails ==
    /\ Drained
    /\ op.to # None
    /\ server' = None
    /\ listenAddr' = op.to
    /\ op' = NoOp
    /\ UNCHANGED <<ca, diskCA, built, disabled, servers, runs>>

-----------------------------------------------------------------------------
Enable == EnableLaunches \/ EnableFails \/ EnableIdle

Disable == \E removeCA \in BOOLEAN :
    ShutdownBegins(removeCA, None, FALSE) \/ DisableStopped(removeCA)

\* main's deferred call, when it has enabled the proxy itself.
DisableAtExit == ShutdownBegins(FALSE, None, TRUE) \/ DisableStopped(FALSE)

SetListenAddr == \E a \in Addr : ShutdownBegins(FALSE, a, FALSE) \/ ListenStopped(a)

\* What an operation under way, and a goroutine, do next.
LaunchEnds == LaunchFails \/ LaunchReturns
ShutdownEnds == DisableRunning \/ ListenRestarts \/ ListenFails

Goroutine(r) ==
    GoroutineStarts(r) \/ Bind(r) \/ ListenerEnds(r) \/ ClearRunning(r) \/ ClearPointer(r)

Step ==
    \/ Enable \/ Disable \/ DisableAtExit \/ SetListenAddr
    \/ LaunchEnds \/ ShutdownEnds \/ ShutdownFails
    \/ \E r \in RunId : Goroutine(r)

-----------------------------------------------------------------------------
(* Requests through the proxy.  They may outlast their listener, and are   *)
(* forgotten when no Shutdown waits for them or would.                     *)

RequestArrives(r) ==
    /\ stage[r] = "serving"
    /\ inflight' = inflight \cup {r}

RequestsEnd(r) == inflight' = inflight \ {r}

Awaited(r) == \/ op.kind = "shutdown" /\ op.run = r
              \/ \E s \in ServerId : httpSrv[s] = r

Traffic == \E r \in RunId : RequestArrives(r) \/ RequestsEnd(r)

-----------------------------------------------------------------------------
Next ==
    \/ Step /\ inflight' = {r \in inflight : Awaited(r)'}
    \/ Traffic /\ UNCHANGED state

Spec == Init /\ [][Next]_vars

\* Goroutines are scheduled, the startup window ends, and so does a deadline.
\* Nothing obliges a listener to fail, a request in flight to end (neither side
\* has a timeout) or the client of a handler to give up.
FairSpec ==
    /\ Spec
    /\ WF_state(LaunchEnds)
    /\ WF_state(ShutdownEnds)
    /\ WF_state(ShutdownFails /\ op.deadline)
    /\ \A r \in RunId :
        WF_state(\/ GoroutineStarts(r) \/ ClearRunning(r) \/ ClearPointer(r)
                 \/ closing[r] /\ ListenerEnds(r))

-----------------------------------------------------------------------------
(* Properties                                                              *)

\* A listener that accepts connections is always the one its Server would
\* shut down: no cleanup of an earlier run takes the pointer from a later one.
ServingIsTracked ==
    \A r \in RunId : stage[r] = "serving" => httpSrv[ofServer[r]] = r

\* The Server the controller would use hands out certificates of the CA on
\* disk, the one users were asked to trust.
ServerUsesInstalledCA == server # None => caOf[server] = ca /\ ca = diskCA

\* A handler's Shutdown waits for a request in flight.
Waiting == op.kind = "shutdown" /\ op.run \in inflight /\ ~op.deadline

\* Every operation of the controller ends and gives the mutex back.  The one
\* that may not is a handler's, and only while a request of the very listener
\* it shuts down goes on and its own client stays.
OperationsEnd == (op # NoOp) ~> (op = NoOp \/ Waiting)

\* What Disable's comment promises and the code does not keep: it "stops the
\* listener if running", and no listener goes on with a dropped CA.
DisableStopsListener == disabled => \A r \in RunId : stage[r] # "serving"
=============================================================================
