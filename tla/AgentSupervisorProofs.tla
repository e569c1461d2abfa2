-------------------------- MODULE AgentSupervisorProofs --------------------------
(***************************************************************************)
(* Proofs about the supervisor of the agent, for any number of processes,  *)
(* any platforms and any limits.                                           *)
(***************************************************************************)
EXTENDS AgentSupervisor, TLAPS

\* A timer waits for each of the last exits at most, while they are counted.
AlarmsCounted == ~stopping => alarms <= crashes

\* The only child whose exit is still to be handled is the one agentProcess
\* names, and while a start is on its way to spawn there is none.
Attended ==
    Here /\ ~stopping /\ ~crossed =>
        /\ watched \subseteq {ref}
        /\ \A f \in Flow : flow[f] \notin {"off", "polling"} => watched = {}

SupervisorInv == TypeOK /\ AlarmsCounted /\ Attended

\* The exits that are awaited are what the invariant needs: it is not inductive
\* without them, for a handled exit of any other child clears agentProcess.
LEMMA AttendedReferenced == SupervisorInv => ManagedIsReferenced
BY DEF SupervisorInv, Attended, ManagedIsReferenced

\* The application starts.
LEMMA InitInv == Init => SupervisorInv
<1> SUFFICES ASSUME Init PROVE SupervisorInv
  OBVIOUS
<1>1. proc \in [Pid -> {"dead", "starting", "serving", "bare", "hung"}]
  BY DEF Init
<1>2. flow \in [Flow -> Stage]
  BY DEF Init, Booting, Flow, Stage
<1>3. /\ termed = {} /\ ref = None /\ watched = {}
      /\ alarms = 0 /\ crashes = 0 /\ misses = 0 /\ ping = None /\ looked = FALSE
      /\ app = "running" /\ stopping = FALSE /\ timer = None
      /\ trouble = 0 /\ crossed = FALSE
  BY DEF Init
<1>4. TypeOK
  <2>1. termed \subseteq Pid /\ ref \in Pid \cup {None} /\ watched \subseteq Pid
    BY <1>3
  <2>4. platform \in Platform /\ foreign \subseteq Pid
    BY DEF Init
  <2>2. /\ alarms \in 0..Burst /\ crashes \in 0..(Burst + 1) /\ misses \in 0..Misses
        /\ trouble \in 0..MaxTrouble
    BY <1>3, NumberAssumption
  <2>3. /\ ping \in {None, "ok", "bad"} /\ timer \in Pid \cup {None}
        /\ looked \in BOOLEAN /\ stopping \in BOOLEAN /\ crossed \in BOOLEAN
        /\ app \in {"running", "installing", "gone"}
    BY <1>3
  <2> QED BY <1>1, <1>2, <2>1, <2>2, <2>3, <2>4 DEF TypeOK
<1>5. AlarmsCounted /\ Attended
  BY <1>3 DEF AlarmsCounted, Attended
<1> QED BY <1>4, <1>5 DEF SupervisorInv

\* Killing processes leaves every process in a state.
LEMMA SlayTyped ==
    ASSUME NEW P, TypeOK, Slay(P)
    PROVE  /\ proc' \in [Pid -> {"dead", "starting", "serving", "bare", "hung"}]
           /\ foreign' \subseteq Pid
BY DEF TypeOK, Slay

\* So does the hunt for stale agents.
LEMMA KillStaleTyped ==
    ASSUME TypeOK, NEW r, KillStale(r)
    PROVE  /\ proc' \in [Pid -> {"dead", "starting", "serving", "bare", "hung"}]
           /\ foreign' \subseteq Pid /\ termed' \subseteq Pid
<1>1. CASE UNCHANGED nursery
  BY <1>1 DEF nursery, TypeOK
<1>2. CASE ~ UNCHANGED nursery
  <2>1. PICK P : Slay(P) /\ termed' = (termed \cup Bound) \cap {r}
    BY <1>2 DEF KillStale
  <2>2. termed' \subseteq Pid
    BY <2>1 DEF TypeOK, Bound
  <2> QED BY <2>1, <2>2, SlayTyped
<1> QED BY <1>1, <1>2

\* A failure is counted up to the bound.
LEMMA TroubleTyped ==
    ASSUME TypeOK, Trouble \/ UNCHANGED trouble
    PROVE  trouble' \in 0..MaxTrouble
BY NumberAssumption DEF TypeOK, Trouble

\* A start goes on to a stage.
LEMMA GoesTyped ==
    ASSUME TypeOK, NEW f \in Flow, NEW stage \in Stage, Goes(f, stage)
    PROVE  flow' \in [Flow -> Stage]
BY DEF TypeOK, Goes

\* The processes on their own.
LEMMA ProcessKeeps ==
    ASSUME SupervisorInv, UNCHANGED platform, NEW p \in Pid, ComesUp(p) \/ Ends(p) \/ Hangs(p)
    PROVE  SupervisorInv'
<1> USE DEF SupervisorInv
<1>1. UNCHANGED <<handles, flow, health, life, crossed>>
  BY DEF ComesUp, Ends, Hangs
<1>2. /\ proc' \in [Pid -> {"dead", "starting", "serving", "bare", "hung"}]
      /\ foreign' \subseteq Pid /\ termed' \subseteq Pid
  <2>1. CASE Slay({p}) /\ termed' = termed \ {p}
    BY <2>1, SlayTyped DEF TypeOK
  <2>2. CASE /\ proc' = [proc EXCEPT ![p] = "serving"] \/ proc' = [proc EXCEPT ![p] = "hung"]
             /\ UNCHANGED <<termed, foreign>>
    BY <2>2 DEF TypeOK
  <2> QED BY <2>1, <2>2 DEF ComesUp, Ends, Hangs
<1>3. trouble' \in 0..MaxTrouble
  BY TroubleTyped DEF ComesUp, Ends, Hangs
<1>4. TypeOK'
  BY <1>1, <1>2, <1>3 DEF TypeOK, handles, health, life
<1>5. AlarmsCounted' /\ Attended'
  BY <1>1 DEF AlarmsCounted, Attended, Here, handles, health, life
<1> QED BY <1>4, <1>5

\* A start on its way to spawn: what is awaited stays as it is.
LEMMA StepKeeps ==
    ASSUME SupervisorInv, UNCHANGED platform, NEW f \in Flow,
           Asks(f) \/ Clears(f) \/ Waits(f) \/ Polls(f)
    PROVE  SupervisorInv'
<1> USE DEF SupervisorInv
<1>1. UNCHANGED <<handles, health, life, crossed>>
  BY DEF Asks, Clears, Waits, Polls
<1>2. /\ proc' \in [Pid -> {"dead", "starting", "serving", "bare", "hung"}]
      /\ foreign' \subseteq Pid /\ termed' \subseteq Pid
  <2>1. CASE UNCHANGED nursery
    BY <2>1 DEF nursery, TypeOK
  <2>2. CASE KillStale(ref)
    BY <2>2, KillStaleTyped
  <2> QED BY <2>1, <2>2 DEF Asks, Clears, Waits, Polls
<1>3. trouble' \in 0..MaxTrouble
  BY TroubleTyped DEF Asks, Clears, Waits, Polls
<1>4. PICK stage \in Stage :
        /\ Goes(f, stage)
        /\ flow[f] = "polling" => stage = "off"
        /\ flow[f] # "off"
  BY DEF Asks, Clears, Waits, Polls, Stage
<1>5. flow' \in [Flow -> Stage]
  BY <1>4, GoesTyped
<1>6. TypeOK'
  BY <1>1, <1>2, <1>3, <1>5 DEF TypeOK, handles, health, life
<1>7. AlarmsCounted'
  BY <1>1 DEF AlarmsCounted, health, life
<1>8. Attended'
  <2>1. \A g \in Flow : flow'[g] \notin {"off", "polling"} => flow[g] \notin {"off", "polling"}
    BY <1>4 DEF Goes, TypeOK
  <2> QED BY <1>1, <2>1 DEF Attended, Here, handles, life
<1> QED BY <1>6, <1>7, <1>8

\* A start spawns: no other child was awaited, or another start is crossed.
LEMMA SpawnKeeps ==
    ASSUME SupervisorInv, UNCHANGED platform, NEW f \in Flow, Here,
           flow[f] \in {"preparing", "prompting"}, Spawns(f), UNCHANGED trouble
    PROVE  SupervisorInv'
<1> USE DEF SupervisorInv
<1>1. PICK p \in Pid :
        /\ proc' = [proc EXCEPT ![p] = "starting"]
        /\ UNCHANGED <<termed, foreign>>
        /\ ref' = p
        /\ watched' = watched \cup {p}
  BY DEF Spawns
<1>2. /\ Goes(f, "polling") /\ UNCHANGED <<health, life>>
      /\ crossed' = (crossed \/ \E g \in Flow \ {f} : flow[g] \notin {"off", "polling"})
  BY DEF Spawns
<1>3. flow' \in [Flow -> Stage]
  BY <1>2, GoesTyped DEF Stage
<1>4. crossed' \in BOOLEAN
  BY <1>2 DEF TypeOK
<1>5. TypeOK'
  BY <1>1, <1>2, <1>3, <1>4 DEF TypeOK, health, life
<1>6. AlarmsCounted'
  BY <1>2 DEF AlarmsCounted, health, life
<1>7. ASSUME ~ stopping, ~ crossed'
      PROVE  /\ watched' = {ref'}
             /\ \A g \in Flow : flow'[g] \in {"off", "polling"}
  <2>1. watched = {}
    BY <1>2, <1>7 DEF Attended
  <2> QED BY <1>1, <1>2, <1>7, <2>1 DEF Goes, TypeOK
<1>8. Attended'
  BY <1>2, <1>7 DEF Attended, life
<1> QED BY <1>5, <1>6, <1>8

\* Preparing and prompting, which spawn or do not.
LEMMA SpawningKeeps ==
    ASSUME SupervisorInv, UNCHANGED platform, NEW f \in Flow, Prepares(f) \/ Answered(f)
    PROVE  SupervisorInv'
<1>1. CASE Spawns(f) /\ UNCHANGED trouble
  BY <1>1, SpawnKeeps DEF Prepares, Answered
<1>2. CASE ~ (Spawns(f) /\ UNCHANGED trouble)
  <2> USE DEF SupervisorInv
  <2>1. PICK stage \in {"prompting", "off"} :
          /\ flow[f] \in {"preparing", "prompting"}
          /\ Goes(f, stage)
          /\ Trouble \/ UNCHANGED trouble
          /\ UNCHANGED <<nursery, handles, health, life, crossed>>
    BY <1>2 DEF Prepares, Answered
  <2>2. flow' \in [Flow -> Stage]
    BY <2>1, GoesTyped DEF Stage
  <2>3. trouble' \in 0..MaxTrouble
    BY <2>1, TroubleTyped
  <2>4. TypeOK'
    BY <2>1, <2>2, <2>3 DEF TypeOK, nursery, handles, health, life
  <2>5. \A g \in Flow : flow'[g] \notin {"off", "polling"} => flow[g] \notin {"off", "polling"}
    BY <2>1 DEF Goes, TypeOK
  <2>6. AlarmsCounted' /\ Attended'
    BY <2>1, <2>5 DEF AlarmsCounted, Attended, Here, handles, health, life
  <2> QED BY <2>4, <2>6
<1> QED BY <1>1, <1>2

\* An exit is handled: agentProcess is cleared, and nothing is awaited any more.
LEMMA ExitKeeps ==
    ASSUME SupervisorInv, UNCHANGED platform, NEW p \in Pid, ExitHandled(p)
    PROVE  SupervisorInv'
<1> USE DEF SupervisorInv
<1>1. /\ p \in watched /\ watched' = watched \ {p} /\ ref' = None
      /\ timer' = IF timer = p THEN None ELSE timer
      /\ UNCHANGED <<nursery, flow, misses, ping, looked, app, stopping, trouble, crossed>>
  BY DEF ExitHandled
<1>2. /\ alarms' \in 0..Burst /\ crashes' \in 0..(Burst + 1)
      /\ ~stopping => alarms' <= crashes'
  <2>1. CASE stopping
    BY <2>1 DEF ExitHandled, TypeOK, AlarmsCounted
  <2>2. CASE ~ stopping
    <3>1. /\ crashes' = IF crashes > Burst THEN crashes ELSE crashes + 1
          /\ alarms' = IF crashes' > Burst THEN alarms ELSE alarms + 1
      BY <2>2 DEF ExitHandled
    <3> QED BY <2>2, <3>1, NumberAssumption DEF TypeOK, AlarmsCounted
  <2> QED BY <2>1, <2>2
<1>3. TypeOK'
  BY <1>1, <1>2 DEF TypeOK, nursery
<1>4. AlarmsCounted'
  BY <1>1, <1>2 DEF AlarmsCounted
<1>5. Attended'
  BY <1>1 DEF Attended, Here
<1> QED BY <1>3, <1>4, <1>5

\* A respawn after an exit: agentProcess is clear, so nothing is awaited.
LEMMA AlarmKeeps ==
    ASSUME SupervisorInv, UNCHANGED platform, Alarm
    PROVE  SupervisorInv'
<1> USE DEF SupervisorInv
<1>1. /\ Here /\ alarms > 0 /\ alarms' = alarms - 1
      /\ UNCHANGED <<nursery, handles, crashes, misses, ping, looked, life, trouble, crossed>>
  BY DEF Alarm
<1>2. \/ UNCHANGED flow
      \/ ref = None /\ Goes("respawn", "asking")
  BY DEF Alarm
<1>3. flow' \in [Flow -> Stage]
  <2>1. "respawn" \in Flow /\ "asking" \in Stage
    BY DEF Flow, Stage
  <2> QED BY <1>2, <2>1, GoesTyped DEF TypeOK
<1>4. alarms' \in 0..Burst /\ (~stopping => alarms' <= crashes)
  BY <1>1, NumberAssumption DEF TypeOK, AlarmsCounted
<1>5. TypeOK'
  BY <1>1, <1>3, <1>4 DEF TypeOK, nursery, handles, life
<1>6. AlarmsCounted'
  BY <1>1, <1>4 DEF AlarmsCounted, life
<1>7. Attended'
  <2>1. CASE UNCHANGED flow
    BY <1>1, <2>1 DEF Attended, Here, handles, life
  <2>2. CASE ref = None
    <3>1. ~ stopping /\ ~ crossed => watched = {}
      BY <1>1, <2>2, PidAssumption DEF Attended, TypeOK
    <3> QED BY <1>1, <3>1 DEF Attended, Here, handles, life
  <2> QED BY <1>2, <2>1, <2>2
<1> QED BY <1>5, <1>6, <1>7

\* A health tick that forces a restart: the child is killed and no longer
\* awaited.
LEMMA ForceKeeps ==
    ASSUME SupervisorInv, UNCHANGED platform, TickForces
    PROVE  SupervisorInv'
<1> USE DEF SupervisorInv
<1>1. /\ Here /\ misses' = 0 /\ ping' = None
      /\ UNCHANGED <<alarms, crashes, looked, life, trouble, crossed>>
  BY DEF TickForces
<1>2. CASE UNCHANGED <<nursery, handles, flow>>
  <2>1. TypeOK'
    BY <1>1, <1>2, NumberAssumption DEF TypeOK, nursery, handles, life
  <2> QED BY <1>1, <1>2, <2>1 DEF AlarmsCounted, Attended, Here, handles, life
<1>3. CASE ~ UNCHANGED <<nursery, handles, flow>>
  <2>1. /\ \/ KillStale(None)
           \/ Slay({ref}) /\ termed' = termed \ {ref}
        /\ ref' = None /\ watched' = watched \ {ref}
        /\ Goes("respawn", "forced")
    <3>1. ~ (crashes > Burst)
      BY <1>3 DEF TickForces
    <3> QED BY <3>1, Zenon DEF TickForces
  <2>2. /\ proc' \in [Pid -> {"dead", "starting", "serving", "bare", "hung"}]
        /\ foreign' \subseteq Pid /\ termed' \subseteq Pid
    BY <2>1, SlayTyped, KillStaleTyped DEF TypeOK
  <2>3. flow' \in [Flow -> Stage]
    BY <2>1, GoesTyped DEF Flow, Stage
  <2>4. TypeOK'
    BY <1>1, <2>1, <2>2, <2>3, NumberAssumption DEF TypeOK, life
  <2>5. ~ stopping /\ ~ crossed => watched' = {}
    BY <1>1, <2>1 DEF Attended
  <2> QED BY <1>1, <2>1, <2>4, <2>5 DEF AlarmsCounted, Attended, life
<1> QED BY <1>2, <1>3

\* The other health ticks, and exits that are forgotten.
LEMMA TickKeeps ==
    ASSUME SupervisorInv, UNCHANGED platform, CrashesAge \/ TickAsks \/ TickCounts
    PROVE  SupervisorInv'
<1> USE DEF SupervisorInv
<1>1. UNCHANGED <<nursery, handles, flow, alarms, life, trouble, crossed>>
  BY DEF CrashesAge, TickAsks, TickCounts
<1>2. /\ crashes' \in 0..(Burst + 1) /\ (~stopping => alarms <= crashes')
  BY NumberAssumption DEF CrashesAge, TickAsks, TickCounts, TypeOK, AlarmsCounted
<1>3. misses' \in 0..Misses
  BY NumberAssumption DEF CrashesAge, TickAsks, TickCounts, TypeOK
<1>4. ping' \in {None, "ok", "bad"}
  BY DEF CrashesAge, TickAsks, TickCounts, TypeOK
<1>5. looked' \in BOOLEAN
  BY DEF CrashesAge, TickAsks, TickCounts, TypeOK, Starting
<1>6. TypeOK'
  BY <1>1, <1>2, <1>3, <1>4, <1>5 DEF TypeOK, nursery, handles, life
<1> QED BY <1>1, <1>2, <1>6 DEF AlarmsCounted, Attended, Here, handles, life

\* The memory starts anew: nothing is awaited.
LEMMA FreshKeeps ==
    ASSUME SupervisorInv, UNCHANGED platform, NEW flows \in [Flow -> Stage], Fresh(flows),
           app' \in {"running", "gone"}, UNCHANGED <<proc, foreign, trouble>>,
           termed' \subseteq Pid
    PROVE  SupervisorInv'
<1> USE DEF SupervisorInv
<1>1. /\ ref' = None /\ watched' = {} /\ alarms' = 0 /\ crashes' = 0 /\ misses' = 0
      /\ ping' = None /\ looked' = FALSE /\ stopping' = FALSE /\ timer' = None
      /\ crossed' = FALSE /\ flow' = flows
  BY DEF Fresh
<1>2. /\ ref' \in Pid \cup {None} /\ watched' \subseteq Pid
      /\ timer' \in Pid \cup {None} /\ ping' \in {None, "ok", "bad"}
  BY <1>1
<1>3. alarms' \in 0..Burst /\ crashes' \in 0..(Burst + 1) /\ misses' \in 0..Misses
  BY <1>1, NumberAssumption
<1>4. /\ looked' \in BOOLEAN /\ stopping' \in BOOLEAN /\ crossed' \in BOOLEAN
      /\ app' \in {"running", "installing", "gone"}
  BY <1>1
<1>5. flow' \in [Flow -> Stage]
  BY <1>1
<1>6. TypeOK'
  BY <1>2, <1>3, <1>4, <1>5 DEF TypeOK
<1> QED BY <1>1, <1>6 DEF AlarmsCounted, Attended

\* The end of the application, and its next start.
LEMMA LifeKeeps ==
    ASSUME SupervisorInv, UNCHANGED platform, Stops \/ TimerFires \/ Reopens
    PROVE  SupervisorInv'
<1> USE DEF SupervisorInv
<1>1. CASE Stops
  <2>1. termed' \subseteq Pid /\ UNCHANGED <<proc, foreign, trouble>>
    BY <1>1 DEF Stops, TypeOK, Live
  <2>2. CASE app' = "installing" /\ StopManagedAgent
    <3>1. /\ stopping' = TRUE /\ ref' = None
          /\ timer' = IF ref = None THEN timer ELSE ref
          /\ crashes' = 0 /\ misses' = 0 /\ ping' = None /\ looked' = FALSE
          /\ UNCHANGED <<watched, flow, alarms, crossed>>
      BY <2>2 DEF StopManagedAgent
    <3>2. timer' \in Pid \cup {None} /\ ref' \in Pid \cup {None}
      BY <3>1 DEF TypeOK
    <3>3. crashes' \in 0..(Burst + 1) /\ misses' \in 0..Misses
      BY <3>1, NumberAssumption
    <3>4. TypeOK'
      BY <2>1, <2>2, <3>1, <3>2, <3>3 DEF TypeOK
    <3> QED BY <3>1, <3>4 DEF AlarmsCounted, Attended
  <2>3. CASE app' = "gone" /\ Fresh([f \in Flow |-> "off"])
    <3>1. [f \in Flow |-> "off"] \in [Flow -> Stage]
      BY DEF Stage
    <3> QED BY <2>1, <2>3, <3>1, FreshKeeps
  <2> QED BY <1>1, <2>2, <2>3 DEF Stops
<1>2. CASE TimerFires
  <2>1. /\ timer' = None /\ Slay({ref}) /\ termed' = termed \ {ref}
        /\ UNCHANGED <<handles, flow, health, app, stopping, trouble, crossed>>
    BY <1>2 DEF TimerFires
  <2>2. /\ proc' \in [Pid -> {"dead", "starting", "serving", "bare", "hung"}]
        /\ foreign' \subseteq Pid /\ termed' \subseteq Pid
    BY <2>1, SlayTyped DEF TypeOK
  <2>3. TypeOK'
    BY <2>1, <2>2 DEF TypeOK, handles, health
  <2> QED BY <2>1, <2>3 DEF AlarmsCounted, Attended, Here, handles, health
<1>3. CASE Reopens
  <2>1. Booting \in [Flow -> Stage]
    BY DEF Booting, Flow, Stage
  <2>2. UNCHANGED <<proc, foreign, trouble>> /\ termed' \subseteq Pid
    BY <1>3 DEF Reopens, nursery, TypeOK
  <2> QED BY <1>3, <2>1, <2>2, FreshKeeps DEF Reopens
<1> QED BY <1>1, <1>2, <1>3

\* Every step keeps the invariant.
LEMMA Invariance == Spec => []SupervisorInv
<1>1. ASSUME SupervisorInv, [Next /\ UNCHANGED platform]_<<vars, platform>>
      PROVE  SupervisorInv'
  <2>1. CASE UNCHANGED <<vars, platform>>
    BY <1>1, <2>1 DEF vars, nursery, handles, health, life, SupervisorInv, TypeOK, AlarmsCounted,
                      Attended, Here
  <2>2. CASE \E p \in Pid : ComesUp(p) \/ Ends(p) \/ Hangs(p) \/ ExitHandled(p)
    BY <1>1, <2>2, ProcessKeeps, ExitKeeps
  <2>3. CASE \E f \in Flow : Step(f)
    BY <1>1, <2>3, StepKeeps, SpawningKeeps DEF Step, Proceeds
  <2>4. CASE Alarm \/ CrashesAge \/ TickAsks \/ TickCounts \/ TickForces
    BY <1>1, <2>4, AlarmKeeps, TickKeeps, ForceKeeps
  <2>5. CASE Stops \/ TimerFires \/ Reopens
    BY <1>1, <2>5, LifeKeeps
  <2> QED BY <1>1, <2>1, <2>2, <2>3, <2>4, <2>5 DEF Next
<1> QED BY InitInv, <1>1, PTL DEF Spec

\* The variables of the supervisor keep their types.
THEOREM TypeCorrect == Spec => []TypeOK
BY Invariance, PTL DEF SupervisorInv

\* Until stopManagedAgent, and unless two starts have spawned across each
\* other, agentProcess names every child that lives and is not told to end.
THEOREM ChildrenReferenced == Spec => []ManagedIsReferenced
BY Invariance, AttendedReferenced, PTL
=============================================================================
