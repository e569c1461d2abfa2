------------------------------ MODULE SystemConfig ------------------------------
(***************************************************************************)
(* The settings of the operating system that send traffic to the agent     *)
(* (api/handle_sysconf.go, sysconf/): the system proxy and the resolver.   *)
(*                                                                         *)
(* There are three copies of each setting: the operating system's, a flag  *)
(* in the agent's memory and a file that survives the agent.  The agent    *)
(* changes them one after the other under sysConfMu, and it may be killed  *)
(* between any two; the privileged helper of macOS (cmd/proxy-helper)      *)
(* outlives it, finishes the commands of a caller that has given up, and   *)
(* takes a proxy away whose listener is gone.  The desktop application's   *)
(* switch is a client that asks for the listener and the proxy in turn.    *)
(***************************************************************************)
EXTENDS Integers

CONSTANTS
    Setting,     \* "proxy" and "dns", or the first alone
    Helper,      \* the privileged helper is installed and runs
    Patience,    \* watchdogStrikes
    MaxTrouble   \* bound on failures, crashes and exits in a behaviour

ASSUME SettingAssumption == "proxy" \in Setting /\ Setting \subseteq {"proxy", "dns"}
ASSUME HelperAssumption == Helper \in BOOLEAN
ASSUME PatienceAssumption == Patience \in Nat \ {0}
ASSUME TroubleAssumption == MaxTrouble \in Nat

VARIABLES
    os,         \* os[x]: of the network services, none, some or all point at the agent;
                \* "plain": some still do, but with their plain web proxy only
    late,       \* commands whose caller has given up, still to be carried out
    strikes,    \* watchdog: consecutive looks that found the listener dead
    flag,       \* sysProxyOn, sysDNSOn
    file,       \* sysconf-state.json; missing, empty and unreadable are all FALSE
    op,         \* what the holder of sysConfMu does
    restoring,  \* the goroutine of ReconcileSysConfOnStartup waits for sysConfMu
    agent,      \* the phase of the agent's process
    listening,  \* the proxy's listener accepts connections
    switch,     \* what the application's switch waits for
    trouble,    \* failures so far
    lapse       \* history: settings that a failure has cut off from the file

outside == <<os, late, strikes>>
process == <<flag, op, restoring, agent, listening>>
vars == <<outside, process, file, switch, trouble, lapse>>

\* A command for the operating system, and what an operation does next.
Command == [action : {"apply", "restore"}, x : Setting]
Op == [kind : {"request", "reconcile", "shutdown"}, action : {"apply", "restore"},
       x : Setting, at : {"command", "persist", "write"}, switched : BOOLEAN]
NoOp == [kind |-> "none"]
Nothing == [x \in Setting |-> FALSE]

\* Down; before and after ReconcileSysConfOnStartup; signalled, with
\* RestoreAllSysConf under way, done or abandoned; API closed.
Phase == {"down", "starting", "up", "signalled", "restored", "leaving"}

TypeOK ==
    /\ os \in [Setting -> {"none", "plain", "some", "all"}]
    /\ late \subseteq Command
    /\ strikes \in 0..Patience
    /\ flag \in [Setting -> BOOLEAN]
    /\ file \in [Setting -> BOOLEAN]
    /\ op \in Op \cup {NoOp}
    /\ restoring \in BOOLEAN
    /\ agent \in Phase
    /\ listening \in BOOLEAN
    /\ switch \in {"idle", "enable", "apply", "restore", "disable"}
    /\ trouble \in 0..MaxTrouble
    /\ lapse \subseteq Setting

Init ==
    /\ os = [x \in Setting |-> "none"] /\ late = {} /\ strikes = 0
    /\ flag = Nothing /\ file = Nothing
    /\ op = NoOp /\ restoring = FALSE
    /\ agent = "down" /\ listening = FALSE
    /\ switch = "idle" /\ trouble = 0 /\ lapse = {}

Trouble == trouble < MaxTrouble /\ trouble' = trouble + 1

-----------------------------------------------------------------------------
(* What the operating system makes of a command.                           *)

Aim(c) == IF c.action = "apply" THEN "all" ELSE "none"

Carried(c) == os' = [os EXCEPT ![c.x] = Aim(c)]

\* Not by the plain web proxy alone.
Points(x) == os[x] \in {"some", "all"}

\* Service after service: it may stop in the middle, or pass over what cannot be
\* changed.  The secure and the plain web proxy are two settings of a service,
\* and the secure one is changed first.
Botched(c) ==
    \/ UNCHANGED os
    \/ c.action = "apply" /\ os[c.x] # "all" /\ os' = [os EXCEPT ![c.x] = "some"]
    \/ c.action = "restore" /\ Points(c.x)
       /\ \E left \in {"some", "plain"} :
             (left = "plain" => c.x = "proxy") /\ os' = [os EXCEPT ![c.x] = left]

Now(o) == [action |-> o.action, x |-> o.x]

\* A setting is in order when the file would tell a later process about it.
Lapse(x) == lapse' = lapse \cup {x}

-----------------------------------------------------------------------------
(* The holder of sysConfMu.                                                *)

Serving == agent \in {"up", "signalled", "restored"}

\* handleSystemProxy, handleSystemDNS.
RequestBegins(c, switched) ==
    /\ Serving
    /\ op = NoOp
    /\ op' = [kind |-> "request", action |-> c.action, x |-> c.x, at |-> "command",
              switched |-> switched]

\* A request of another client: a settings page, the quitting application.
Request ==
    /\ \E c \in Command : RequestBegins(c, FALSE)
    /\ UNCHANGED <<outside, flag, restoring, agent, listening, file, switch, trouble, lapse>>

\* The goroutine that ReconcileSysConfOnStartup has left behind.
RestoreBegins ==
    /\ restoring
    /\ op = NoOp
    /\ restoring' = FALSE
    /\ op' = [kind |-> "reconcile", action |-> "restore", x |-> "proxy", at |-> "command",
              switched |-> FALSE]
    /\ UNCHANGED <<outside, flag, agent, listening, file, switch, trouble, lapse>>

\* RestoreAllSysConf restores what is flagged, the proxy first, and persists.
RestoreAll(flags) ==
    IF \A x \in Setting : ~flags[x]
    THEN [kind |-> "shutdown", action |-> "restore", x |-> "proxy", at |-> "persist",
          switched |-> FALSE]
    ELSE [kind |-> "shutdown", action |-> "restore",
          x |-> IF flags["proxy"] THEN "proxy" ELSE "dns", at |-> "command",
          switched |-> FALSE]

ShutdownBegins ==
    /\ agent = "signalled"
    /\ op = NoOp
    /\ op' = RestoreAll(flag)
    /\ UNCHANGED <<outside, flag, restoring, agent, listening, file, switch, trouble, lapse>>

\* The flag follows the command.  A shutdown goes on with the next setting,
\* whether or not this one could be restored.
Flagged ==
    /\ flag' = [flag EXCEPT ![op.x] = (op.action = "apply")]
    /\ op' = IF op.kind = "shutdown" THEN RestoreAll(flag')
             ELSE [op EXCEPT !.at = "persist"]

\* How the switch goes on when the request it waits for has been answered:
\* a failed restore is ignored, a failed apply ends it.
Waits == op # NoOp /\ op.switched

SwitchHears ==
    switch' = IF ~Waits THEN switch
              ELSE IF switch = "restore" THEN "disable" ELSE "idle"

CommandSucceeds ==
    /\ op # NoOp /\ op.at = "command"
    /\ Carried(Now(op))
    /\ Flagged
    \* what a restore has undone needs no record
    /\ lapse' = IF op.action = "restore" THEN lapse \ {op.x} ELSE lapse
    /\ UNCHANGED <<late, strikes, restoring, agent, listening, file, switch, trouble>>

\* The command fails, perhaps in the middle, or is not answered in time.  A
\* request and the restore at start end here with the flag as it was.
CommandFails ==
    /\ op # NoOp /\ op.at = "command"
    /\ Trouble
    /\ \/ Botched(Now(op)) /\ UNCHANGED late
       \/ late' = late \cup {Now(op)} /\ UNCHANGED os
    /\ IF op.kind = "shutdown" THEN Flagged /\ UNCHANGED switch
       ELSE op' = NoOp /\ SwitchHears /\ UNCHANGED flag
    /\ Lapse(op.x)
    /\ UNCHANGED <<strikes, restoring, agent, listening, file>>

\* The helper ignores the errors of a removal, service by service.
CommandIgnored ==
    /\ op # NoOp /\ op.at = "command" /\ op.action = "restore"
    /\ Helper
    /\ Trouble
    /\ Botched(Now(op))
    /\ Flagged
    /\ Lapse(op.x)
    /\ UNCHANGED <<late, strikes, restoring, agent, listening, file, switch>>

\* RestoreAllSysConf is done; main goes on with its deferred calls.
Completed ==
    /\ op' = NoOp
    /\ agent' = IF op.kind = "shutdown" /\ agent = "signalled" THEN "restored" ELSE agent
    /\ SwitchHears

\* os.WriteFile: the old content goes first.
PersistTruncates ==
    /\ op # NoOp /\ op.at = "persist"
    /\ file' = Nothing
    /\ op' = [op EXCEPT !.at = "write"]
    /\ UNCHANGED <<outside, flag, restoring, agent, listening, switch, trouble, lapse>>

PersistWrites ==
    /\ op # NoOp /\ op.at = "write"
    /\ file' = flag
    /\ Completed
    /\ lapse' = {x \in lapse : ~flag[x]}
    /\ UNCHANGED <<outside, flag, restoring, listening, trouble>>

\* The error is logged and nothing else: the request has succeeded.
PersistFails ==
    /\ op # NoOp /\ op.at \in {"persist", "write"}
    /\ Trouble
    /\ Completed
    /\ lapse' = Setting
    /\ UNCHANGED <<outside, flag, restoring, listening, file>>

Hold ==
    \/ CommandSucceeds \/ CommandFails \/ CommandIgnored
    \/ PersistTruncates \/ PersistWrites \/ PersistFails

-----------------------------------------------------------------------------
(* The process: main.run and its end.                                      *)

\* The listener is up when the configuration says so and the port is free.
Start ==
    /\ agent = "down"
    /\ agent' = "starting"
    /\ listening' \in BOOLEAN
    /\ UNCHANGED <<outside, flag, op, restoring, file, switch, trouble, lapse>>

\* Mutant: the flags start anew.
AdoptsNothing == Nothing

\* What ReconcileSysConfOnStartup takes over of an earlier process.
Adopted == file

\* ReconcileSysConfOnStartup; then the API is served.
Reconcile ==
    /\ agent = "starting"
    /\ agent' = "up"
    /\ flag' = Adopted
    /\ restoring' = (file["proxy"] /\ ~listening)
    /\ UNCHANGED <<outside, op, listening, file, switch, trouble, lapse>>

Signal ==
    /\ agent = "up"
    /\ agent' = "signalled"
    /\ UNCHANGED <<outside, flag, op, restoring, listening, file, switch, trouble, lapse>>

\* main does not wait longer than two seconds for RestoreAllSysConf.
ShutdownTimesOut ==
    /\ agent = "signalled"
    /\ Trouble
    /\ agent' = "leaving"
    /\ UNCHANGED <<outside, flag, op, restoring, listening, file, switch, lapse>>

\* httpServer.Shutdown: no more requests.
CloseAPI ==
    /\ agent = "restored"
    /\ agent' = "leaving"
    /\ UNCHANGED <<outside, flag, op, restoring, listening, file, switch, trouble, lapse>>

\* What the death of the process leaves: a command that was given is carried
\* out by those who have it, or lost with the process.
Dies ==
    /\ agent' = "down"
    /\ flag' = Nothing /\ op' = NoOp /\ restoring' = FALSE /\ listening' = FALSE
    /\ IF op # NoOp /\ op.at = "command" THEN late' \in {late, late \cup {Now(op)}}
       ELSE UNCHANGED late
    /\ lapse' = CASE op = NoOp \/ op.at = "command" -> lapse
                 [] op # NoOp /\ op.at = "persist" -> lapse \cup {op.x}
                 [] op # NoOp /\ op.at = "write" -> Setting
    /\ SwitchHears
    /\ UNCHANGED <<os, strikes, file>>

\* The deferred calls end; nobody waits for a request longer than a deadline.
Exit ==
    /\ agent = "leaving"
    /\ op = NoOp
    /\ Dies
    /\ UNCHANGED trouble

Crash ==
    /\ agent # "down"
    /\ Trouble
    /\ Dies

-----------------------------------------------------------------------------
(* The helper.                                                             *)

LateCommand ==
    /\ \E c \in late :
        /\ Carried(c)
        /\ late' = late \ {c}
        /\ Lapse(c.x)
    /\ UNCHANGED <<strikes, process, file, switch, trouble>>

\* The helper asks for the secure web proxy only.
Seen == Points("proxy")

\* Mutant: the helper looks while the agent runs only.
WatchdogLooksAtAgent ==
    /\ Helper /\ agent # "down"
    /\ strikes < Patience
    /\ strikes' = IF Seen /\ ~listening THEN strikes + 1 ELSE 0
    /\ UNCHANGED <<os, late, process, file, switch, trouble, lapse>>

\* watchdogTick: a dead listener is a strike, anything else starts anew.
WatchdogLooks ==
    /\ Helper
    /\ strikes < Patience
    /\ strikes' = IF Seen /\ ~listening THEN strikes + 1 ELSE 0
    /\ UNCHANGED <<os, late, process, file, switch, trouble, lapse>>

\* A look that goes wrong: the services or their settings cannot be read, and the
\* strikes are lost; or the listener takes no connection within half a second.
WatchdogErrs ==
    /\ Helper
    /\ strikes < Patience
    /\ Seen
    /\ Trouble
    /\ strikes' \in {0, strikes + 1}
    /\ UNCHANGED <<os, late, process, file, switch, lapse>>

\* The network is restored behind the agent's back ...
WatchdogRestores ==
    /\ strikes = Patience
    /\ Carried([action |-> "restore", x |-> "proxy"])
    /\ strikes' = 0
    /\ UNCHANGED <<late, process, file, switch, trouble, lapse>>

\* ... or the services cannot be listed (one more look like the last, and it is
\* tried again), or a setting of a service cannot be changed (nobody hears of
\* it, and the looks begin anew).
WatchdogFails ==
    /\ strikes = Patience
    /\ Trouble
    /\ \/ strikes' = Patience - 1 /\ UNCHANGED os
       \/ Botched([action |-> "restore", x |-> "proxy"]) /\ strikes' = 0
    /\ UNCHANGED <<late, process, file, switch, lapse>>

Watchdog == WatchdogLooks \/ WatchdogErrs \/ WatchdogRestores \/ WatchdogFails

-----------------------------------------------------------------------------
(* The switch of the desktop application (electron/src/main.tsx).  On: the *)
(* listener, then the system proxy.  Off: the system proxy, then the       *)
(* listener, whether or not the system proxy could be restored.            *)

Flip ==
    /\ switch = "idle"
    /\ switch' \in {"enable", "restore"}
    /\ UNCHANGED <<outside, process, file, trouble, lapse>>

SwitchEnables ==
    /\ Serving
    /\ switch = "enable"
    /\ \/ listening' = TRUE /\ switch' = "apply" /\ UNCHANGED trouble
       \/ Trouble /\ switch' = "idle" /\ UNCHANGED listening
    /\ UNCHANGED <<outside, flag, op, restoring, agent, file, lapse>>

SwitchAsks ==
    /\ \/ switch = "apply" /\ RequestBegins([action |-> "apply", x |-> "proxy"], TRUE)
       \/ switch = "restore" /\ RequestBegins([action |-> "restore", x |-> "proxy"], TRUE)
    /\ UNCHANGED <<outside, flag, restoring, agent, listening, file, switch, trouble, lapse>>

SwitchDisables ==
    /\ switch = "disable"
    /\ Serving
    /\ \/ listening' = FALSE /\ UNCHANGED trouble
       \/ Trouble /\ UNCHANGED listening
    /\ switch' = "idle"
    /\ UNCHANGED <<outside, flag, op, restoring, agent, file, lapse>>

\* The agent does not answer: the request of the switch fails.
SwitchUnanswered ==
    /\ switch # "idle"
    /\ ~Serving /\ ~Waits
    /\ switch' = IF switch = "restore" THEN "disable" ELSE "idle"
    /\ UNCHANGED <<outside, process, file, trouble, lapse>>

\* The listener ends by itself, or somebody else starts or stops it.
ListenerChanges ==
    /\ Serving
    /\ Trouble
    /\ listening' = ~listening
    /\ UNCHANGED <<outside, flag, op, restoring, agent, file, switch, lapse>>

Switch == Flip \/ SwitchEnables \/ SwitchAsks \/ SwitchDisables \/ SwitchUnanswered

-----------------------------------------------------------------------------
Next ==
    \/ Request \/ RestoreBegins \/ ShutdownBegins \/ Hold
    \/ Start \/ Reconcile \/ Signal \/ ShutdownTimesOut \/ CloseAPI \/ Exit \/ Crash
    \/ LateCommand \/ Watchdog \/ Switch \/ ListenerChanges

Spec == Init /\ [][Next]_vars

\* The watchdog looks at intervals, and no more than MaxTrouble of its looks and
\* removals go wrong.  Nothing makes an agent start or a user press the switch.
FairSpec == Spec /\ WF_vars(WatchdogLooks) /\ WF_vars(WatchdogRestores)

-----------------------------------------------------------------------------
(* Properties                                                              *)

\* Where no failure, no crash in the middle of an operation and no late command
\* has cut a setting off, the file tells a later process of everything that
\* points at the agent, whatever requests, restores, exits and starts came between.
FileKnowsSettings ==
    op = NoOp => \A x \in Setting \ lapse : os[x] # "none" => file[x]

\* The helper gives secure traffic back: it does not go for ever to a proxy nobody
\* listens on, whoever left it there, whatever the agent believes and whichever
\* looks and removals go wrong on the way.  (A service whose plain web proxy alone
\* was passed over is not seen and keeps it.)
StrandingEnds == (Seen /\ ~listening) ~> ~(Seen /\ ~listening)
=============================================================================
