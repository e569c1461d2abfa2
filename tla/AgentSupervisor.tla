---------------------------- MODULE AgentSupervisor ----------------------------
(***************************************************************************)
(* The desktop application as the supervisor of the agent                  *)
(* (electron/main.ts): it starts the agent or attaches to one that already *)
(* serves, restarts one that dies or hangs, and stops it when it quits.    *)
(*                                                                         *)
(* JavaScript runs one callback at a time, so a step is what runs between  *)
(* two awaits.  Three things start an agent on their own: the boot, a      *)
(* timer after an exit and the health poll; the last two share the flag    *)
(* restarting, the boot does not.  They all go by one variable,            *)
(* agentProcess, which every exit of any child clears.                     *)
(***************************************************************************)
EXTENDS Integers, FiniteSets

CONSTANTS
    Platform,    \* values of process.platform; Linux does nothing macOS may not do
    Pid,         \* processes of the agent; a slot is used again
    Burst,       \* CRASH_BURST_LIMIT
    Misses,      \* unhealthy ticks that force a restart
    MaxTrouble   \* bound on crashes, hangs, late answers and failed starts

None == "none"

ASSUME PlatformAssumption == Platform \subseteq {"darwin", "linux", "win32"}
ASSUME PidAssumption == IsFiniteSet(Pid) /\ Pid # {} /\ None \notin Pid
ASSUME NumberAssumption == Burst \in Nat /\ Misses \in Nat \ {0} /\ MaxTrouble \in Nat

VARIABLES
    platform,   \* process.platform, chosen once
    proc,       \* what each process is doing
    termed,     \* those that were sent SIGTERM and have not ended
    foreign,    \* those of root or another user, which kill does not reach
    ref,        \* agentProcess
    watched,    \* children whose exit handler has not run
    flow,       \* how far startManagedAgent is, by who called it
    alarms,     \* setTimeouts of onAgentExit
    crashes,    \* recentCrashes.length
    misses,     \* consecutiveUnhealthyTicks
    ping,       \* what the health tick under way has heard
    looked,     \* the last tick came while the agent was being started
    app,        \* the application
    stopping,   \* agentStopping
    timer,      \* the process whose "force-kill after 3 s" waits
    trouble,    \* failures so far
    crossed     \* history: a start has spawned while another was under way

Flow == {"boot", "respawn"}

nursery == <<proc, termed, foreign>>
handles == <<ref, watched>>
health == <<alarms, crashes, misses, ping, looked>>
life == <<app, stopping, timer>>
vars == <<nursery, handles, flow, health, life, trouble, crossed>>

Stage == {"off", "asking", "clearing", "waiting", "preparing", "prompting", "polling",
          "forced"}

TypeOK ==
    \* "bare": answers, but without a proxy
    /\ proc \in [Pid -> {"dead", "starting", "serving", "bare", "hung"}]
    /\ platform \in Platform
    /\ termed \subseteq Pid /\ foreign \subseteq Pid
    /\ ref \in Pid \cup {None}
    /\ watched \subseteq Pid
    /\ flow \in [Flow -> Stage]
    /\ alarms \in 0..Burst
    /\ crashes \in 0..(Burst + 1)
    /\ misses \in 0..Misses
    /\ ping \in {None, "ok", "bad"}
    /\ looked \in BOOLEAN
    /\ app \in {"running", "installing", "gone"}
    /\ stopping \in BOOLEAN
    /\ timer \in Pid \cup {None}
    /\ trouble \in 0..MaxTrouble
    /\ crossed \in BOOLEAN

Booting == [f \in Flow |-> IF f = "boot" THEN "asking" ELSE "off"]

\* An agent of somebody else may be there: one the user has left behind, or one
\* of another user.
Init ==
    /\ platform \in Platform
    /\ \E p \in Pid, s \in {"dead", "serving", "bare", "hung"} :
          /\ proc = [q \in Pid |-> IF q = p THEN s ELSE "dead"]
          /\ foreign \in SUBSET (IF s = "dead" THEN {} ELSE {p})
    /\ termed = {}
    /\ ref = None /\ watched = {} /\ flow = Booting
    /\ alarms = 0 /\ crashes = 0 /\ misses = 0 /\ ping = None /\ looked = FALSE
    /\ app = "running" /\ stopping = FALSE /\ timer = None
    /\ trouble = 0 /\ crossed = FALSE

Trouble == trouble < MaxTrouble /\ trouble' = trouble + 1

Live == {p \in Pid : proc[p] # "dead"}
Bound == {p \in Pid : proc[p] \in {"serving", "bare", "hung"}}
Serving == \E p \in Pid : proc[p] = "serving"
Answering == \E p \in Pid : proc[p] \in {"serving", "bare"}

restarting == flow["respawn"] # "off"
Here == app # "gone"

Slay(P) ==
    /\ proc' = [p \in Pid |-> IF p \in P THEN "dead" ELSE proc[p]]
    /\ foreign' = foreign \ P

-----------------------------------------------------------------------------
(* The processes.                                                          *)

\* The agent binds its port or ends.
ComesUp(p) ==
    /\ proc[p] = "starting"
    /\ IF Bound = {} THEN proc' = [proc EXCEPT ![p] = "serving"] /\ UNCHANGED <<termed, foreign>>
       ELSE Slay({p}) /\ termed' = termed \ {p}
    /\ UNCHANGED <<handles, flow, health, life, trouble, crossed>>

Ends(p) ==
    /\ p \in Live
    /\ Slay({p}) /\ termed' = termed \ {p}
    /\ \/ Trouble
       \* Windows has no signals: the process is terminated
       \/ p \in termed /\ (proc[p] # "hung" \/ platform = "win32") /\ UNCHANGED trouble
    /\ UNCHANGED <<handles, flow, health, life, crossed>>

Hangs(p) ==
    /\ proc[p] = "serving"
    /\ Trouble
    /\ proc' = [proc EXCEPT ![p] = "hung"]
    /\ UNCHANGED <<termed, foreign, handles, flow, health, life, crossed>>

\* killStaleAgents: SIGTERM to who holds a port; killOrphanedAgentProcesses:
\* SIGKILL to every process of that name that is not r.  Windows does neither.
\* What belongs to somebody else stays, but for what holds a port on macOS and
\* the user grants the kill of.
KillStale(r) ==
    IF platform = "win32" THEN UNCHANGED nursery
    ELSE \E granted \in SUBSET (foreign \cap Bound) :
            /\ platform # "darwin" => granted = {}
            /\ Slay((Pid \ (foreign \cup {r})) \cup granted)
            /\ termed' = (termed \cup Bound) \cap {r}

-----------------------------------------------------------------------------
(* startManagedAgent.                                                      *)

Goes(f, stage) == flow' = [flow EXCEPT ![f] = stage]

\* agentConfigured and agentReachable; an answer may come too late for either.
Asks(f) ==
    /\ Here /\ flow[f] = "asking"
    /\ \E configured, reachable \in BOOLEAN :
        /\ configured => Serving
        /\ reachable => Answering
        /\ IF configured = Serving /\ reachable = Answering THEN UNCHANGED trouble ELSE Trouble
        /\ Goes(f, CASE configured -> "off"
                     [] ~configured /\ reachable -> "clearing"
                     [] OTHER -> "preparing")
    /\ UNCHANGED <<nursery, handles, health, life, crossed>>

Clears(f) ==
    /\ Here /\ flow[f] = "clearing"
    /\ KillStale(ref)
    /\ Goes(f, "waiting")
    /\ UNCHANGED <<handles, health, life, trouble, crossed>>

\* The half second after the kill: the exits of the killed are handled.
Waits(f) ==
    /\ Here /\ flow[f] \in {"waiting", "forced"}
    /\ watched \subseteq Live
    /\ Goes(f, IF flow[f] = "forced" THEN "asking" ELSE "preparing")
    /\ UNCHANGED <<nursery, handles, health, life, trouble, crossed>>

\* Everything from the writable directory to the exit handler runs at once.  A
\* child that cannot be executed is one that ends at once.
Spawns(f) ==
    /\ \E p \in (Pid \ Live) \ (watched \cup {ref, timer}) :
        /\ proc' = [proc EXCEPT ![p] = "starting"]
        /\ ref' = p
        /\ watched' = watched \cup {p}
    /\ Goes(f, "polling")
    /\ crossed' = (crossed \/ \E g \in Flow \ {f} : flow[g] \notin {"off", "polling"})
    /\ UNCHANGED <<termed, foreign, health, life>>

Prepares(f) ==
    /\ Here /\ flow[f] = "preparing"
    /\ \/ Spawns(f) /\ UNCHANGED trouble
       \* the directory belongs to root: repairConfigDirPermissions
       \/ Goes(f, "prompting")
          /\ UNCHANGED <<nursery, handles, health, life, trouble, crossed>>
       \* no binary, no rules, or the configuration cannot be written
       \/ Trouble /\ Goes(f, "off")
          /\ UNCHANGED <<nursery, handles, health, life, crossed>>

\* Repaired, where the user can be asked, or given up with an error box.
Answered(f) ==
    /\ Here /\ flow[f] = "prompting"
    /\ \/ platform = "darwin" /\ Spawns(f)
       \/ Goes(f, "off") /\ UNCHANGED <<nursery, handles, health, life, crossed>>
    /\ UNCHANGED trouble

\* Polling is over when the agent is configured, or after thirty questions, six
\* seconds if they are refused at once: by then a child has bound its port or
\* ended.  A hung agent lets each question time out, and long before the last the
\* timer of an exit, of at most five seconds, has fired.
Young == \E p \in watched : proc[p] = "starting"
TimersOut == alarms = 0 /\ watched \subseteq Live

Polls(f) ==
    /\ Here /\ flow[f] = "polling"
    /\ \/ Serving
       \/ ~Young /\ ((\E p \in Pid : proc[p] = "hung") => TimersOut)
    /\ Goes(f, "off")
    /\ UNCHANGED <<nursery, handles, health, life, trouble, crossed>>

\* Without the user, and with it.
Proceeds(f) == Asks(f) \/ Clears(f) \/ Waits(f) \/ Prepares(f) \/ Polls(f)
Step(f) == Proceeds(f) \/ Answered(f)

-----------------------------------------------------------------------------
(* What starts it again.                                                   *)

\* The exit handler clears agentProcess, whichever process has ended.
\* onAgentExit: a timer, unless this was one exit too many.
ExitHandled(p) ==
    /\ Here
    /\ p \in watched \ Live
    /\ watched' = watched \ {p}
    /\ ref' = None
    /\ IF stopping THEN UNCHANGED <<alarms, crashes>>
       ELSE /\ crashes' = IF crashes > Burst THEN crashes ELSE crashes + 1
            /\ alarms' = IF crashes' > Burst THEN alarms ELSE alarms + 1
    /\ timer' = IF timer = p THEN None ELSE timer
    /\ UNCHANGED <<nursery, flow, misses, ping, looked, app, stopping, trouble, crossed>>

\* Mutant: the respawn does not ask whether a start is under way.
UnguardedAlarm ==
    /\ Here
    /\ alarms > 0
    /\ alarms' = alarms - 1
    /\ Goes("respawn", "asking")
    /\ UNCHANGED <<nursery, handles, crashes, misses, ping, looked, life, trouble, crossed>>

\* restartManagedAgent.
Alarm ==
    /\ Here
    /\ alarms > 0
    /\ alarms' = alarms - 1
    /\ IF restarting \/ ref # None THEN UNCHANGED flow ELSE Goes("respawn", "asking")
    /\ UNCHANGED <<nursery, handles, crashes, misses, ping, looked, life, trouble, crossed>>

\* An exit is older than CRASH_WINDOW_MS; its timer has fired long before.
CrashesAge ==
    /\ Here
    /\ crashes > alarms
    /\ crashes' = crashes - 1
    /\ UNCHANGED <<nursery, handles, flow, alarms, misses, ping, looked, life, trouble, crossed>>

\* A start takes less than the ten seconds between two ticks, unless it waits
\* for the user.
Starting == \/ flow["respawn"] \notin {"off", "prompting", "polling"}
            \/ flow["respawn"] = "polling" /\ Young

\* pingAgent, every ten seconds until stopHealthPolling.
TickAsks ==
    /\ app = "running"
    /\ ping = None
    /\ ~(looked /\ Starting)
    /\ looked' = Starting
    /\ ping' = IF Answering THEN "ok" ELSE "bad"
    /\ UNCHANGED <<nursery, handles, flow, alarms, crashes, misses, life, trouble, crossed>>

Alarming == ping = "bad" /\ misses + 1 >= Misses /\ ~stopping /\ ~restarting

\* The rest of tickHealth when it forces nothing.
TickCounts ==
    /\ Here
    /\ ping # None
    /\ ~Alarming
    /\ misses' = IF ping = "ok" THEN 0 ELSE IF misses < Misses THEN misses + 1 ELSE misses
    /\ ping' = None
    /\ UNCHANGED <<nursery, handles, flow, alarms, crashes, looked, life, trouble, crossed>>

\* Mutant: only the process that agentProcess names is killed.
TickForcesOwn ==
    /\ Here
    /\ Alarming
    /\ misses' = 0
    /\ ping' = None
    /\ IF crashes > Burst THEN UNCHANGED <<nursery, handles, flow>>
       ELSE /\ Slay({ref}) /\ termed' = termed \ {ref}
            /\ ref' = None
            /\ watched' = watched \ {ref}
            /\ Goes("respawn", "forced")
    /\ UNCHANGED <<alarms, crashes, looked, life, trouble, crossed>>

\* forceRestartManagedAgent, up to its first await.
TickForces ==
    /\ Here
    /\ Alarming
    /\ misses' = 0
    /\ ping' = None
    /\ IF crashes > Burst THEN UNCHANGED <<nursery, handles, flow>>
       ELSE /\ IF platform = "win32" THEN Slay({ref}) /\ termed' = termed \ {ref}
               ELSE KillStale(None)
            /\ ref' = None
            /\ watched' = watched \ {ref}
            /\ Goes("respawn", "forced")
    /\ UNCHANGED <<alarms, crashes, looked, life, trouble, crossed>>

-----------------------------------------------------------------------------
(* The end of the application.                                             *)

\* stopManagedAgent: SIGTERM, a timer that looks at agentProcess, and
\* agentProcess is forgotten.  Health polling has stopped, and an exit is no longer
\* counted: of all that only the timers matter now.
StopManagedAgent ==
    /\ stopping' = TRUE
    /\ timer' = IF ref = None THEN timer ELSE ref
    /\ ref' = None
    /\ crashes' = 0 /\ misses' = 0 /\ ping' = None /\ looked' = FALSE
    /\ UNCHANGED <<watched, flow, alarms, crossed>>

\* The memory of the application, its timers and handlers, as it starts or ends.
Fresh(flows) ==
    /\ ref' = None /\ watched' = {} /\ flow' = flows
    /\ alarms' = 0 /\ crashes' = 0 /\ misses' = 0 /\ ping' = None /\ looked' = FALSE
    /\ stopping' = FALSE /\ timer' = None
    /\ crossed' = FALSE

\* before-quit and performUpdateQuit restore the system proxy first; until that is
\* done or given up everything goes on as before.
Stops ==
    /\ \/ app = "running" /\ app' = "installing" /\ StopManagedAgent
       \/ Here /\ app' = "gone" /\ Fresh([f \in Flow |-> "off"])
    /\ termed' = termed \cup ({ref} \cap Live)
    /\ UNCHANGED <<proc, foreign, trouble>>

\* The timer kills what agentProcess names when it fires.
TimerFires ==
    /\ Here
    /\ timer # None
    /\ timer' = None
    /\ Slay({ref}) /\ termed' = termed \ {ref}
    /\ UNCHANGED <<handles, flow, health, app, stopping, trouble, crossed>>

\* The user opens the application again; what still runs is somebody else's.
Reopens ==
    /\ app = "gone"
    /\ app' = "running"
    /\ Fresh(Booting)
    /\ UNCHANGED <<nursery, trouble>>

-----------------------------------------------------------------------------
Next ==
    \/ \E p \in Pid : ComesUp(p) \/ Ends(p) \/ Hangs(p) \/ ExitHandled(p)
    \/ \E f \in Flow : Step(f)
    \/ Alarm \/ CrashesAge \/ TickAsks \/ TickCounts \/ TickForces
    \/ Stops \/ TimerFires \/ Reopens

Spec == Init /\ [][Next /\ UNCHANGED platform]_<<vars, platform>>

\* Timers fire, a kill's prompt is granted or refused, and processes get the
\* processor.  Nothing makes the user answer the prompt of a repair, or grant a kill.
Fairness ==
    /\ \A p \in Pid : WF_vars(ComesUp(p)) /\ WF_vars(ExitHandled(p))
    /\ \A f \in Flow : WF_vars(Proceeds(f))
    /\ WF_vars(Alarm) /\ WF_vars(CrashesAge)
    /\ WF_vars(TickAsks) /\ WF_vars(TickCounts) /\ WF_vars(TickForces)

FairSpec == Spec /\ Fairness

-----------------------------------------------------------------------------
(* Properties                                                              *)

\* Until stopManagedAgent, and unless a prompt has let two starts spawn across
\* each other, the children that live, but for those already told to end, are
\* the one agentProcess names: the others are never stopped.
ManagedIsReferenced ==
    Here /\ ~stopping /\ ~crossed => (Live \cap watched) \ termed \subseteq {ref}

\* What hangs, holds the port and is not ended by a forced restart: an agent of
\* another user, and on Windows every agent but the one agentProcess names.
OutOfReach ==
    {p \in Pid : proc[p] = "hung" /\ (p \in foreign \/ (platform = "win32" /\ p # ref))}

\* Whatever crashes, hangs, is left behind or fails to start, while the
\* application stays open some agent answers again; two things alone may keep it
\* from that for ever, a hung agent out of its reach and a respawn that waits for
\* a settings folder to be repaired.  (One that answers without a proxy is
\* replaced by a start, never by the health poll.)
AnswersAgain ==
    (app = "running" /\ ~Answering) ~>
        (Answering \/ app # "running" \/ OutOfReach # {} \/ flow["respawn"] = "prompting")
=============================================================================
