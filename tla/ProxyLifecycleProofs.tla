-------------------------- MODULE ProxyLifecycleProofs --------------------------
(***************************************************************************)
(* Proofs about ProxyLifecycle, for any number of Servers, runs and        *)
(* addresses.                                                              *)
(***************************************************************************)
EXTENDS ProxyLifecycle, TLAPS

-----------------------------------------------------------------------------
(* The inductive invariant.                                                *)

\* A run that may still accept connections and has not been told to stop is
\* the one its Server points to.
Tracked ==
    \A r \in RunId :
        stage[r] \in {"made", "binding", "serving"} /\ ~closing[r] => httpSrv[ofServer[r]] = r

\* No listener accepts connections after its Shutdown.
ServingOpen == \A r \in RunId : stage[r] = "serving" => ~closing[r]

\* Every run has a Server, and every Server in use has been built.
RunsBuilt ==
    /\ \A r \in RunId : stage[r] # "unmade" => ofServer[r] \in 1..built
    /\ server # None => server \in 1..built
    /\ op.kind = "await" => op.server \in 1..built

\* A Server that is used, or about to be, has the CA in memory and on disk.
CAInstalled ==
    /\ ca # None => ca = diskCA
    /\ server # None => ca # None /\ caOf[server] = ca
    /\ op.kind = "await" => ca # None /\ caOf[op.server] = ca
    /\ op.kind = "shutdown" => server # None

IInv == TypeOK /\ Tracked /\ ServingOpen /\ RunsBuilt /\ CAInstalled

\* What the invariant says of the runs alone.
RunsOK == Tracked /\ ServingOpen

-----------------------------------------------------------------------------
\* The invariant holds at the start, whatever CA is on disk.
LEMMA InitIInv == Init => IInv
<1> SUFFICES ASSUME Init PROVE IInv
  OBVIOUS
<1>1. TypeOK
  BY BoundsAssumption, AddrAssumption DEF Init, TypeOK, None, NoOp, Stage
<1>2. Tracked /\ ServingOpen /\ RunsBuilt /\ CAInstalled
  BY DEF Init, Tracked, ServingOpen, RunsBuilt, CAInstalled, NoOp
<1> QED BY <1>1, <1>2 DEF IInv

\* An operation under way is of one of the two kinds.
LEMMA OpKinds ==
    ASSUME TypeOK
    PROVE  /\ op.kind = "await" => op.server \in ServerId /\ op.run \in RunId
           /\ op.kind = "shutdown" => op.removeCA \in BOOLEAN /\ op.to \in Addr \cup {None}
<1>1. op \in Op \cup {NoOp}
  BY DEF TypeOK
<1> QED BY <1>1 DEF Op, NoOp

\* An action that leaves the runs and the pointers alone leaves what is said
\* of them alone.
LEMMA RunsKept ==
    ASSUME RunsOK, UNCHANGED runs, UNCHANGED httpSrv
    PROVE  RunsOK'
BY DEF RunsOK, Tracked, ServingOpen, runs

\* Nor does the cleanup of a run that is over disturb another.
LEMMA UntrackKeeps ==
    ASSUME RunsOK, TypeOK, UNCHANGED runs, NEW s \in ServerId, NEW r \in RunId,
           stage[r] \in {"over", "cleared", "ended"}, Untrack(s, r)
    PROVE  RunsOK'
<1>1. ASSUME NEW q \in RunId, stage[q] \in {"made", "binding", "serving"}, ~closing[q]
      PROVE  httpSrv'[ofServer[q]] = q
  <2>1. httpSrv[ofServer[q]] = q /\ q # r
    BY <1>1 DEF RunsOK, Tracked
  <2> QED BY <2>1 DEF Untrack, TypeOK
<1> QED BY <1>1 DEF RunsOK, Tracked, ServingOpen, runs

\* A Launch on a Server without a tracked run keeps every run tracked.
LEMMA LaunchKeeps ==
    ASSUME RunsOK, TypeOK, NEW s \in ServerId, NEW r \in RunId, NEW by, Launch(s, r, by),
           \A q \in RunId : stage[q] # "unmade" /\ ofServer[q] = s => httpSrv[s] = None
    PROVE  RunsOK'
<1>1. ASSUME NEW q \in RunId, stage'[q] \in {"made", "binding", "serving"}, ~closing'[q]
      PROVE  httpSrv'[ofServer'[q]] = q
  <2>1. CASE q = r
    BY <2>1 DEF Launch, TypeOK
  <2>2. CASE q # r
    <3>1. stage[q] = stage'[q] /\ ofServer'[q] = ofServer[q] /\ closing' = closing
      BY <2>2 DEF Launch, TypeOK
    <3>2. httpSrv[ofServer[q]] = q
      BY <1>1, <3>1 DEF RunsOK, Tracked
    <3>3. ofServer[q] # s
      BY <1>1, <3>1, <3>2 DEF None, RunId
    <3> QED BY <3>1, <3>2, <3>3 DEF Launch, TypeOK
  <2> QED BY <2>1, <2>2
<1>2. ASSUME NEW q \in RunId, stage'[q] = "serving" PROVE ~closing'[q]
  <2>1. stage[q] = "serving" /\ closing' = closing
    BY <1>2 DEF Launch, TypeOK
  <2> QED BY <2>1 DEF RunsOK, ServingOpen
<1> QED BY <1>1, <1>2 DEF RunsOK, Tracked, ServingOpen

\* The types of what a Launch sets.
LEMMA LaunchTypes ==
    ASSUME TypeOK, NEW s \in ServerId, NEW r \in RunId, NEW by \in {"enable", "listen"},
           Launch(s, r, by), listenAddr' \in Addr
    PROVE  /\ op' \in Op
           /\ op'.kind = "await" /\ op'.server = s
           /\ httpSrv' \in [ServerId -> RunId \cup {None}]
           /\ stage' \in [RunId -> Stage]
           /\ ofServer' \in [RunId -> ServerId \cup {None}]
           /\ at' \in [RunId -> Addr]
           /\ closing' \in [RunId -> BOOLEAN]
           /\ running' \in [ServerId -> BOOLEAN]
<1>1. op' = [kind |-> "await", by |-> by, server |-> s, run |-> r]
  BY DEF Launch
<1>2. op' \in Op /\ op'.kind = "await" /\ op'.server = s
  BY <1>1 DEF Op
<1> QED BY <1>2 DEF Launch, TypeOK, Stage

-----------------------------------------------------------------------------
(* Every action keeps the invariant.                                       *)

\* A LaunchFails or LaunchReturns.
LEMMA AwaitIInv ==
    ASSUME IInv, inflight' \subseteq RunId, LaunchFails \/ LaunchReturns
    PROVE  IInv'
<1> USE DEF IInv
<1>0. op.kind = "await" /\ op.server \in ServerId /\ op.run \in RunId
  BY OpKinds DEF LaunchFails, LaunchReturns
<1>1. op' = NoOp /\ UNCHANGED <<ca, diskCA, caOf, built, running, runs>>
  BY DEF LaunchFails, LaunchReturns, servers
<1>2. server' \in {server, op.server}
  BY DEF LaunchFails, LaunchReturns
<1>3. TypeOK'
  BY <1>0 DEF LaunchFails, LaunchReturns, TypeOK, Untrack, servers, runs
<1>4. RunsOK'
  <2>1. CASE LaunchFails
    BY <1>0, <2>1, UntrackKeeps DEF LaunchFails, RunsOK
  <2>2. CASE LaunchReturns
    BY <2>2, RunsKept DEF LaunchReturns, RunsOK, servers
  <2> QED BY <2>1, <2>2
<1>5. RunsBuilt' /\ CAInstalled'
  BY <1>0, <1>1, <1>2 DEF RunsBuilt, CAInstalled, runs, NoOp, TypeOK
<1> QED BY <1>3, <1>4, <1>5 DEF RunsOK

\* A step of a goroutine.
LEMMA GoroutineIInv ==
    ASSUME IInv, inflight' \subseteq RunId, NEW r \in RunId, Goroutine(r)
    PROVE  IInv'
<1> USE DEF IInv
<1>0. stage[r] # "unmade" /\ ofServer[r] \in ServerId
  BY BoundsAssumption DEF Goroutine, GoroutineStarts, Bind, ListenerEnds, ClearRunning, ClearPointer,
     RunsBuilt, TypeOK, ServerId
<1>1. CASE GoroutineStarts(r) \/ ListenerEnds(r) \/ ClearRunning(r)
  <2>1. TypeOK'
    BY <1>0, <1>1 DEF GoroutineStarts, ListenerEnds, ClearRunning, TypeOK, Stage, controller, servers
  <2>2. UNCHANGED <<controller, httpSrv, caOf, ofServer, closing>>
    BY <1>1 DEF GoroutineStarts, ListenerEnds, ClearRunning, servers
  <2>3. \A q \in RunId : /\ stage'[q] # "unmade" <=> stage[q] # "unmade"
                         /\ stage'[q] \in {"made", "binding", "serving"}
                              => stage[q] \in {"made", "binding", "serving"}
                         /\ stage'[q] = "serving" => stage[q] = "serving"
    BY <1>1 DEF GoroutineStarts, ListenerEnds, ClearRunning, TypeOK
  <2>4. Tracked' /\ ServingOpen' /\ RunsBuilt' /\ CAInstalled'
    BY <2>2, <2>3 DEF Tracked, ServingOpen, RunsBuilt, CAInstalled, controller
  <2> QED BY <2>1, <2>4
<1>2. CASE Bind(r)
  <2>1. TypeOK'
    BY <1>2 DEF Bind, TypeOK, Stage, controller, servers
  <2>2. UNCHANGED <<controller, httpSrv, caOf, ofServer, closing>>
    BY <1>2 DEF Bind, servers
  <2>3. \A q \in RunId : /\ stage'[q] # "unmade" <=> stage[q] # "unmade"
                         /\ stage'[q] \in {"made", "binding", "serving"}
                              => stage[q] \in {"made", "binding", "serving"}
                         /\ stage'[q] = "serving" => stage[q] = "serving" \/ ~closing[q]
    BY <1>2 DEF Bind, TypeOK
  <2>4. Tracked' /\ ServingOpen' /\ RunsBuilt' /\ CAInstalled'
    BY <2>2, <2>3 DEF Tracked, ServingOpen, RunsBuilt, CAInstalled, controller
  <2> QED BY <2>1, <2>4
<1>3. CASE ClearPointer(r)
  <2>1. TypeOK'
    BY <1>0, <1>3, AddrAssumption DEF ClearPointer, Untrack, TypeOK, Stage, controller
  <2>2. ASSUME NEW q \in RunId, stage'[q] \in {"made", "binding", "serving"}
        PROVE  q # r /\ stage'[q] = stage[q] /\ closing'[q] = closing[q]
    BY <1>3, <2>2 DEF ClearPointer, TypeOK
  <2>3. Tracked' /\ ServingOpen'
    <3>1. ASSUME NEW q \in RunId, stage'[q] \in {"made", "binding", "serving"}, ~closing'[q]
          PROVE  httpSrv'[ofServer'[q]] = q
      <4>1. httpSrv[ofServer[q]] = q /\ q # r /\ ofServer' = ofServer
        BY <1>3, <2>2, <3>1 DEF Tracked, ClearPointer
      <4> QED BY <1>3, <4>1 DEF ClearPointer, Untrack, TypeOK
    <3>2. ASSUME NEW q \in RunId, stage'[q] = "serving" PROVE ~closing'[q]
      BY <2>2, <3>2 DEF ServingOpen
    <3> QED BY <3>1, <3>2 DEF Tracked, ServingOpen
  <2>4. RunsBuilt' /\ CAInstalled'
    BY <1>3 DEF ClearPointer, RunsBuilt, CAInstalled, controller, TypeOK
  <2> QED BY <2>1, <2>3, <2>4
<1> QED BY <1>1, <1>2, <1>3 DEF Goroutine

\* EnsureCA leaves a CA that is both in memory and on disk.
LEMMA EnsureCAInstalls ==
    ASSUME TypeOK, CAInstalled, EnsureCA
    PROVE  /\ ca' \in Nat /\ diskCA' \in Nat /\ ca' # None /\ ca' = diskCA'
           /\ server # None => ca' = ca
BY BoundsAssumption DEF TypeOK, CAInstalled, EnsureCA, LoadCA, GenerateCA, None

\* An Enable that starts nothing.
LEMMA EnableIdleIInv ==
    ASSUME IInv, inflight' \subseteq RunId, EnableFails \/ EnableIdle
    PROVE  IInv'
<1> USE DEF IInv
<1>1. UNCHANGED <<server, listenAddr, op, built, servers, runs>> /\ op = NoOp /\ disabled' = FALSE
  BY DEF EnableFails, EnableIdle
<1>2. /\ ca' \in Nat /\ diskCA' \in Nat
      /\ ca' # None => ca' = diskCA'
      /\ server # None => ca' = ca
  BY EnsureCAInstalls DEF EnableFails, EnableIdle, RefuseCA, TypeOK, CAInstalled
<1>3. TypeOK'
  BY <1>1, <1>2 DEF TypeOK, servers, runs
<1>4. RunsOK'
  BY <1>1, RunsKept DEF RunsOK, servers
<1>5. RunsBuilt' /\ CAInstalled'
  BY <1>1, <1>2 DEF RunsBuilt, CAInstalled, servers, runs, NoOp
<1> QED BY <1>3, <1>4, <1>5 DEF RunsOK

\* An Enable that launches a listener, on a new Server or an old one.
LEMMA EnableLaunchesIInv ==
    ASSUME IInv, inflight' \subseteq RunId, EnableLaunches
    PROVE  IInv'
<1> USE DEF IInv
<1>1. PICK s \in ServerId, r \in RunId :
        /\ IF server = None THEN Build(s, ca') ELSE s = server /\ UNCHANGED <<built, caOf>>
        /\ httpSrv[s] = None
        /\ server' = s
        /\ listenAddr' = listenAddr
        /\ Launch(s, r, "enable")
  BY DEF EnableLaunches
<1>2. ca' \in Nat /\ diskCA' \in Nat /\ ca' # None /\ ca' = diskCA' /\ (server # None => ca' = ca)
  BY EnsureCAInstalls DEF EnableLaunches
<1>3. /\ op' \in Op /\ op'.kind = "await" /\ op'.server = s
      /\ httpSrv' \in [ServerId -> RunId \cup {None}]
      /\ stage' \in [RunId -> Stage]
      /\ ofServer' \in [RunId -> ServerId \cup {None}]
      /\ at' \in [RunId -> Addr]
      /\ closing' \in [RunId -> BOOLEAN]
      /\ running' \in [ServerId -> BOOLEAN]
  BY <1>1, LaunchTypes DEF TypeOK
<1>4. /\ built' \in 0..MaxServers /\ built <= built' /\ s \in 1..built'
      /\ caOf' \in [ServerId -> Nat] /\ caOf'[s] = ca'
  <2>1. CASE server = None
    <3>1. built < MaxServers /\ s = built + 1 /\ built' = s /\ caOf' = [caOf EXCEPT ![s] = ca']
      BY <1>1, <2>1 DEF Build
    <3>2. built' \in 0..MaxServers /\ built <= built' /\ s \in 1..built'
      BY <3>1, BoundsAssumption DEF TypeOK
    <3>3. caOf' \in [ServerId -> Nat] /\ caOf'[s] = ca'
      BY <1>2, <3>1 DEF TypeOK
    <3> QED BY <3>2, <3>3
  <2>2. CASE server # None
    BY <1>1, <1>2, <2>2 DEF TypeOK, RunsBuilt, CAInstalled
  <2> QED BY <2>1, <2>2
<1>5. TypeOK'
  BY <1>1, <1>2, <1>3, <1>4 DEF TypeOK, EnableLaunches
<1>6. RunsOK'
  BY <1>1, LaunchKeeps DEF RunsOK
<1>7. RunsBuilt'
  <2>1. ASSUME NEW q \in RunId, stage'[q] # "unmade" PROVE ofServer'[q] \in 1..built'
    BY <1>1, <1>4, <2>1, BoundsAssumption DEF Launch, RunsBuilt, TypeOK
  <2> QED BY <1>1, <1>3, <1>4, <2>1 DEF RunsBuilt
<1>8. CAInstalled'
  BY <1>1, <1>2, <1>3, <1>4 DEF CAInstalled
<1> QED BY <1>5, <1>6, <1>7, <1>8 DEF RunsOK

\* A Shutdown under way: its run, if any, is neither tracked nor serving.
LEMMA ShutdownBeginsIInv ==
    ASSUME IInv, inflight' \subseteq RunId, NEW removeCA \in BOOLEAN, NEW to \in Addr \cup {None},
           NEW deadline \in BOOLEAN, ShutdownBegins(removeCA, to, deadline)
    PROVE  IInv'
<1> USE DEF IInv
<1> DEFINE r == httpSrv[server]
<1>1. server \in ServerId /\ server # None /\ r \in RunId \cup {None}
  BY DEF ShutdownBegins, IsRunning, TypeOK
<1>2. UNCHANGED <<server, ca, diskCA, listenAddr, built, caOf, ofServer, at>> /\ disabled' = FALSE
  BY DEF ShutdownBegins
<1>3. /\ op' = [kind |-> "shutdown", removeCA |-> removeCA, to |-> to,
               run |-> r, deadline |-> deadline]
      /\ httpSrv' = [httpSrv EXCEPT ![server] = None]
      /\ running' = [running EXCEPT ![server] = @ /\ r = None]
  BY DEF ShutdownBegins
<1>4. op' \in Op /\ op'.kind = "shutdown"
  <2> HIDE DEF r
  <2> QED BY <1>1, <1>3 DEF Op
<1>5. /\ stage' \in [RunId -> Stage] /\ closing' \in [RunId -> BOOLEAN]
      /\ \A q \in RunId :
            /\ stage'[q] # "unmade" => stage[q] # "unmade"
            /\ q # r => stage'[q] = stage[q] /\ closing'[q] = closing[q]
            /\ q = r => closing'[q] /\ stage'[q] # "serving"
  <2>1. CASE r = None
    BY <2>1 DEF ShutdownBegins, TypeOK, None, RunId
  <2>2. CASE r # None
    <3>1. r \in RunId
      BY <1>1, <2>2
    <3>2. /\ closing' = [closing EXCEPT ![r] = TRUE]
          /\ stage' = [stage EXCEPT ![r] = IF @ = "serving" THEN "over" ELSE @]
      BY <2>2 DEF ShutdownBegins
    <3> HIDE DEF r
    <3> QED BY <3>1, <3>2 DEF TypeOK, Stage
  <2> QED BY <2>1, <2>2
<1>6. TypeOK'
  <2>1. running' \in [ServerId -> BOOLEAN]
    BY <1>1, <1>3 DEF TypeOK
  <2>2. httpSrv' \in [ServerId -> RunId \cup {None}]
    BY <1>3 DEF TypeOK
  <2> QED BY <1>2, <1>4, <1>5, <2>1, <2>2 DEF TypeOK
<1>7. Tracked' /\ ServingOpen'
  <2>1. ASSUME NEW q \in RunId, stage'[q] \in {"made", "binding", "serving"}, ~closing'[q]
        PROVE  httpSrv'[ofServer'[q]] = q
    <3>1. q # r /\ httpSrv[ofServer[q]] = q
      BY <1>5, <2>1 DEF Tracked
    <3> QED BY <1>2, <1>3, <3>1 DEF TypeOK
  <2>2. ASSUME NEW q \in RunId, stage'[q] = "serving" PROVE ~closing'[q]
    BY <1>5, <2>2 DEF ServingOpen
  <2> QED BY <2>1, <2>2 DEF Tracked, ServingOpen
<1>8. RunsBuilt' /\ CAInstalled'
  BY <1>1, <1>2, <1>4, <1>5 DEF RunsBuilt, CAInstalled
<1> QED BY <1>6, <1>7, <1>8

\* The ways a Disable or a SetListenAddr ends without a new listener.
LEMMA StoppedIInv ==
    ASSUME IInv, inflight' \subseteq RunId,
           \/ ShutdownFails \/ DisableRunning \/ ListenFails
           \/ \E removeCA \in BOOLEAN : DisableStopped(removeCA)
           \/ \E a \in Addr : ListenStopped(a)
    PROVE  IInv'
<1> USE DEF IInv
<1>1. op' = NoOp /\ UNCHANGED <<built, servers, runs>>
  BY DEF ShutdownFails, DisableRunning, ListenFails, DisableStopped, ListenStopped, FinishDisable
<1>2. /\ server' \in {server, None}
      /\ server' = server /\ server # None => ca' = ca /\ diskCA' = diskCA
      /\ (ca' = ca /\ diskCA' = diskCA) \/ (ca' = None /\ diskCA' \in {None, diskCA})
      /\ listenAddr' \in Addr
  BY OpKinds DEF ShutdownFails, Drained, DisableRunning, ListenFails, DisableStopped, ListenStopped,
     FinishDisable, TypeOK, None
<1>3. disabled' \in BOOLEAN
  BY DEF ShutdownFails, DisableRunning, ListenFails, DisableStopped, ListenStopped,
     FinishDisable, TypeOK
<1>4. TypeOK'
  BY <1>1, <1>2, <1>3 DEF TypeOK, servers, runs, None
<1>5. RunsOK'
  BY <1>1, RunsKept DEF RunsOK, servers
<1>6. RunsBuilt' /\ CAInstalled'
  BY <1>1, <1>2 DEF RunsBuilt, CAInstalled, servers, runs, NoOp
<1> QED BY <1>4, <1>5, <1>6 DEF RunsOK

\* A SetListenAddr that launches a new Server.
LEMMA ListenRestartsIInv ==
    ASSUME IInv, inflight' \subseteq RunId, ListenRestarts
    PROVE  IInv'
<1> USE DEF IInv
<1>1. PICK s \in ServerId, r \in RunId : Build(s, ca) /\ Launch(s, r, "listen")
  BY DEF ListenRestarts
<1>2. /\ server # None /\ ca # None /\ op.to \in Addr
      /\ server' = None /\ listenAddr' = op.to /\ UNCHANGED <<ca, diskCA, disabled>>
  BY OpKinds DEF ListenRestarts, Drained, CAInstalled
<1>3. /\ op' \in Op /\ op'.kind = "await" /\ op'.server = s
      /\ httpSrv' \in [ServerId -> RunId \cup {None}]
      /\ stage' \in [RunId -> Stage]
      /\ ofServer' \in [RunId -> ServerId \cup {None}]
      /\ at' \in [RunId -> Addr]
      /\ closing' \in [RunId -> BOOLEAN]
      /\ running' \in [ServerId -> BOOLEAN]
  BY <1>1, <1>2, LaunchTypes
<1>4. /\ built' \in 0..MaxServers /\ built <= built' /\ s \in 1..built' /\ s \notin 1..built
      /\ caOf' \in [ServerId -> Nat] /\ caOf'[s] = ca
  BY <1>1, BoundsAssumption DEF Build, TypeOK, ServerId
<1>5. TypeOK'
  BY <1>2, <1>3, <1>4 DEF TypeOK
<1>6. RunsOK'
  <2>1. \A q \in RunId : stage[q] # "unmade" => ofServer[q] # s
    BY <1>4 DEF RunsBuilt
  <2> QED BY <1>1, <2>1, LaunchKeeps DEF RunsOK
<1>7. RunsBuilt'
  <2>1. ASSUME NEW q \in RunId, stage'[q] # "unmade" PROVE ofServer'[q] \in 1..built'
    BY <1>1, <1>4, <2>1, BoundsAssumption DEF Launch, RunsBuilt, TypeOK
  <2> QED BY <1>2, <1>3, <1>4, <2>1 DEF RunsBuilt
<1>8. CAInstalled'
  BY <1>2, <1>3, <1>4 DEF CAInstalled
<1> QED BY <1>5, <1>6, <1>7, <1>8 DEF RunsOK

\* Requests come and go without the invariant.
LEMMA TrafficIInv ==
    ASSUME IInv, Traffic, UNCHANGED state
    PROVE  IInv'
<1>1. inflight' \subseteq RunId
  BY DEF IInv, TypeOK, Traffic, RequestArrives, RequestsEnd
<1> QED BY <1>1 DEF state, controller, servers, runs, IInv, TypeOK, Tracked, ServingOpen,
        RunsBuilt, CAInstalled

\* Every step keeps the invariant.
LEMMA StepIInv == IInv /\ [Next]_vars => IInv'
<1> SUFFICES ASSUME IInv, [Next]_vars PROVE IInv'
  OBVIOUS
<1>1. CASE UNCHANGED vars
  BY <1>1 DEF vars, state, controller, servers, runs, IInv, TypeOK, Tracked, ServingOpen,
     RunsBuilt, CAInstalled
<1>2. CASE Traffic /\ UNCHANGED state
  BY <1>2, TrafficIInv
<1>3. ASSUME Step, inflight' = {r \in inflight : Awaited(r)'} PROVE IInv'
  <2>1. inflight' \subseteq RunId
    BY <1>3 DEF IInv, TypeOK
  <2>2. CASE Enable
    BY <2>1, <2>2, EnableLaunchesIInv, EnableIdleIInv DEF Enable
  <2>3. CASE Disable \/ DisableAtExit \/ SetListenAddr
    BY <2>1, <2>3, ShutdownBeginsIInv, StoppedIInv DEF Disable, DisableAtExit, SetListenAddr
  <2>4. CASE LaunchEnds
    BY <2>1, <2>4, AwaitIInv DEF LaunchEnds
  <2>5. CASE ShutdownEnds \/ ShutdownFails
    BY <2>1, <2>5, StoppedIInv, ListenRestartsIInv DEF ShutdownEnds
  <2>6. ASSUME NEW r \in RunId, Goroutine(r) PROVE IInv'
    BY <2>1, <2>6, GoroutineIInv
  <2> QED BY <1>3, <2>2, <2>3, <2>4, <2>5, <2>6 DEF Step
<1> QED BY <1>1, <1>2, <1>3 DEF Next

\* The invariant holds of every behaviour.
LEMMA Invariance == Spec => []IInv
BY InitIInv, StepIInv, PTL DEF Spec

-----------------------------------------------------------------------------
(* The results.                                                            *)

\* Type correctness, for any number of Servers and runs.
THEOREM TypeCorrect == Spec => []TypeOK
<1>1. IInv => TypeOK
  BY DEF IInv
<1> QED BY <1>1, Invariance, PTL

\* A listener that accepts connections can always be shut down: its Server
\* points to it, however the goroutines of earlier runs are delayed.
THEOREM ServingTracked == Spec => []ServingIsTracked
<1>1. IInv => ServingIsTracked
  BY DEF IInv, Tracked, ServingOpen, ServingIsTracked
<1> QED BY <1>1, Invariance, PTL

\* The Server in use hands out certificates of the CA on disk, over any
\* sequence of enables, disables that remove it, and moves.
THEOREM InstalledCAUsed == Spec => []ServerUsesInstalledCA
<1>1. IInv => ServerUsesInstalledCA
  BY DEF IInv, CAInstalled, ServerUsesInstalledCA
<1> QED BY <1>1, Invariance, PTL
=============================================================================
