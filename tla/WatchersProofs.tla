----------------------------- MODULE WatchersProofs -----------------------------
(***************************************************************************)
(* Proofs about the alerter, the extension's questions, the settings of    *)
(* the operating system and the tamper detector, for any thresholds, any   *)
(* number of scans and any number of failures.                             *)
(***************************************************************************)
EXTENDS SystemConfig, Alerter, ScanClient, TamperDetector, TLAPS

-----------------------------------------------------------------------------
(* Alerter.                                                                *)

\* What was acknowledged and what is still to be reported were both blocked,
\* and an alert under way covers what is to be reported up to its total.
AlertsCover ==
    ~unbased =>
        /\ reported <= blocked
        /\ reported + Delta <= blocked
        /\ alertAt = "post" => /\ window.blocks = window.total - baseline
                               /\ reported + window.blocks <= blocked

AlertInv == AlertTypeOK /\ AlertsCover

\* Types survive every step.
LEMMA AlertTypes ==
    ASSUME AlertTypeOK, AlertNext
    PROVE  AlertTypeOK'
<1> USE AlerterAssumption DEF AlertTypeOK, AlertTrouble, NoWindow
<1>1. CASE BlockCounted \/ TotalReset
  BY <1>1 DEF BlockCounted, TotalReset
<1>2. CASE AlertStarts
  <2>1. /\ baseline' \in 0..MaxBlocks /\ alertTrouble' \in 0..MaxAlertTrouble
        /\ blocked' = 0 /\ reported' = 0
    BY <1>2 DEF AlertStarts
  <2>2. unbased' \in BOOLEAN
    <3>1. unbased' = FALSE \/ unbased' = TRUE
      BY <1>2, Zenon DEF AlertStarts
    <3> QED BY <3>1
  <2> QED BY <1>2, <2>1, <2>2 DEF AlertStarts
<1>3. CASE AlertChecks
  <2>1. Delta \in 0..MaxBlocks
    BY <1>3 DEF AlertChecks, AlertDue, Delta
  <2> QED BY <1>3, <2>1 DEF AlertChecks
<1>4. CASE AlertAccepted
  BY <1>4 DEF AlertAccepted, MovedBaseline
<1>5. CASE AlertFails \/ AlertStops
  BY <1>5 DEF AlertFails, AlertStops
<1> QED BY <1>1, <1>2, <1>3, <1>4, <1>5 DEF AlertNext

\* The account stays balanced.
LEMMA AlertAccounts ==
    ASSUME AlertTypeOK, AlertsCover, AlertNext
    PROVE  AlertsCover'
<1> USE AlerterAssumption DEF AlertTypeOK, AlertTrouble, AlertsCover, Delta
<1>1. CASE BlockCounted \/ TotalReset
  BY <1>1 DEF BlockCounted, TotalReset
<1>2. CASE AlertStarts
  BY <1>2 DEF AlertStarts
<1>3. CASE AlertChecks
  BY <1>3 DEF AlertChecks
<1>4. CASE AlertAccepted
  BY <1>4 DEF AlertAccepted, MovedBaseline
<1>5. CASE AlertFails \/ AlertStops
  BY <1>5 DEF AlertFails, AlertStops
<1> QED BY <1>1, <1>2, <1>3, <1>4, <1>5 DEF AlertNext

\* The invariant holds of every behaviour.
LEMMA AlertInvariance == AlertSpec => []AlertInv
<1>1. AlertInit => AlertInv
  <2> SUFFICES ASSUME AlertInit PROVE AlertInv
    OBVIOUS
  <2>1. /\ blocksTotal \in 0..MaxBlocks /\ baseline \in 0..MaxBlocks /\ blocked \in 0..MaxBlocks
        /\ alertTrouble \in 0..MaxAlertTrouble /\ reported \in Nat
    BY AlerterAssumption DEF AlertInit
  <2>2. window \in [total : 0..MaxBlocks, blocks : 0..MaxBlocks]
    BY AlerterAssumption DEF AlertInit, NoWindow
  <2>3. alertAt \in {"down", "wait", "post"} /\ unbased \in BOOLEAN
    BY DEF AlertInit
  <2>4. AlertsCover
    BY DEF AlertInit, AlertsCover, Delta
  <2> QED BY <2>1, <2>2, <2>3, <2>4 DEF AlertInv, AlertTypeOK
<1>2. AlertInv /\ [AlertNext]_alertVars => AlertInv'
  <2> SUFFICES ASSUME AlertInv, [AlertNext]_alertVars PROVE AlertInv'
    OBVIOUS
  <2>1. CASE UNCHANGED alertVars
    BY <2>1 DEF alertVars, AlertInv, AlertTypeOK, AlertsCover, Delta
  <2>2. CASE AlertNext
    BY <2>2, AlertTypes, AlertAccounts DEF AlertInv
  <2> QED BY <2>1, <2>2
<1> QED BY <1>1, <1>2, PTL DEF AlertSpec

\* Type correctness of the alerter.
THEOREM AlertTypeCorrect == AlertSpec => []AlertTypeOK
<1>1. AlertInv => AlertTypeOK
  BY DEF AlertInv
<1> QED BY <1>1, AlertInvariance, PTL

\* Acknowledged alerts never add up to more blocks than there were, over any
\* number of resets, failures and restarts and for any threshold.
THEOREM AlertsSound == AlertSpec => []AlertsAddUp
<1>1. AlertInv => AlertsAddUp
  BY DEF AlertInv, AlertTypeOK, AlertsCover, AlertsAddUp
<1> QED BY <1>1, AlertInvariance, PTL

-----------------------------------------------------------------------------
(* ScanClient.                                                             *)

ScanInv == ScanTypeOK /\ LeakOnlyOnFailure

\* Failures are counted within their bound.
LEMMA ScanTroubleBound ==
    ASSUME ScanTypeOK, ScanTrouble
    PROVE  scanTrouble' \in 0..MaxScanTrouble
<1>1. scanTrouble \in 0..MaxScanTrouble /\ MaxScanTrouble \in Nat
  BY ScanAssumption DEF ScanTypeOK
<1>2. scanTrouble < MaxScanTrouble /\ scanTrouble' = scanTrouble + 1
  BY DEF ScanTrouble
<1> QED BY <1>1, <1>2

\* The host's queue takes a question at its end and gives up its first.
LEMMA HostQueueType ==
    ASSUME ScanTypeOK
    PROVE  /\ \A s \in Scan : Append(hostQueue, s) \in Seq(Scan)
           /\ hostQueue # <<>> => Tail(hostQueue) \in Seq(Scan)
           /\ <<>> \in Seq(Scan)
<1>1. hostQueue \in Seq(Scan)
  BY DEF ScanTypeOK
<1> QED BY <1>1

\* What a verdict makes of the action it is about.
LEMMA LearnSound ==
    ASSUME ScanTypeOK, LeakOnlyOnFailure, NEW s \in Scan, NEW verdict \in BOOLEAN, Learn(s, verdict),
           expired \subseteq expired', unanswered \subseteq unanswered',
           s \in Secret => verdict \/ s \in unanswered'
    PROVE  /\ fate' \in [Scan -> {"none", "held", "let go", "stopped"}]
           /\ asking' \in [Scan -> {"no", "worker", "agent", "done"}]
           /\ toasted' \subseteq Scan
           /\ LeakOnlyOnFailure'
<1> USE DEF ScanTypeOK
<1>1. /\ fate' \in [Scan -> {"none", "held", "let go", "stopped"}]
      /\ asking' \in [Scan -> {"no", "worker", "agent", "done"}]
      /\ toasted' \subseteq Scan
  BY DEF Learn
<1>2. ASSUME NEW q \in Secret, fate'[q] = "let go" PROVE q \in expired' \cup unanswered'
  <2>1. q \in Scan
    BY ScanAssumption
  <2>2. CASE fate[q] = "let go"
    BY <2>2 DEF LeakOnlyOnFailure
  <2>3. CASE fate[q] # "let go"
    <3>1. q = s /\ ~verdict
      BY <1>2, <2>1, <2>3 DEF Learn
    <3> QED BY <3>1
  <2> QED BY <2>2, <2>3
<1> QED BY <1>1, <1>2 DEF LeakOnlyOnFailure

\* A content script's step keeps the invariant.
LEMMA ContentSteps ==
    ASSUME ScanInv, NEW s \in Scan,
           \/ Intercept(s) \/ BridgeTimesOut(s) \/ WorkerMissing(s) \/ AgentTells(s) \/ AgentSilent(s)
    PROVE  ScanInv'
<1> USE ScanAssumption DEF ScanInv
<1>1. CASE Intercept(s)
  <2>1. ScanTypeOK'
    BY <1>1 DEF Intercept, ScanTypeOK, worker
  <2>2. LeakOnlyOnFailure'
    BY <1>1 DEF Intercept, ScanTypeOK, LeakOnlyOnFailure
  <2> QED BY <2>1, <2>2
<1>2. CASE BridgeTimesOut(s)
  <2>1. ScanTypeOK'
    BY <1>2 DEF BridgeTimesOut, ScanTypeOK, worker
  <2>2. LeakOnlyOnFailure'
    BY <1>2 DEF BridgeTimesOut, ScanTypeOK, LeakOnlyOnFailure
  <2> QED BY <2>1, <2>2
<1>3. CASE WorkerMissing(s)
  <2>1. scanTrouble' \in 0..MaxScanTrouble
    BY <1>3, ScanTroubleBound DEF WorkerMissing
  <2> QED BY <1>3, <2>1 DEF WorkerMissing, ScanTypeOK, LeakOnlyOnFailure, worker
<1>4. CASE AgentTells(s)
  <2>1. (s \in Secret) \in BOOLEAN
    OBVIOUS
  <2> QED BY <1>4, <2>1, LearnSound DEF AgentTells, ScanTypeOK, worker
<1>5. CASE AgentSilent(s)
  BY <1>5, LearnSound DEF AgentSilent, ScanTypeOK, worker
<1> QED BY <1>1, <1>2, <1>3, <1>4, <1>5

\* So does a step of the worker for one scan.
LEMMA WorkerSteps ==
    ASSUME ScanInv, NEW s \in Scan,
           AskHost(s) \/ NoHost(s) \/ NativeTimesOut(s) \/ FetchAnswers(s) \/ FetchFails(s)
    PROVE  ScanInv'
<1> USE ScanAssumption DEF ScanInv
<1>1. CASE AskHost(s)
  <2>1. hostQueue' \in Seq(Scan)
    BY <1>1, HostQueueType DEF AskHost
  <2> QED BY <1>1, <2>1 DEF AskHost, ScanTypeOK, LeakOnlyOnFailure
<1>2. CASE NoHost(s)
  <2>1. scanTrouble' \in 0..MaxScanTrouble /\ port' \in {"none", "open", "unsupported"}
    BY <1>2, ScanTroubleBound DEF NoHost, ScanTypeOK
  <2> QED BY <1>2, <2>1 DEF NoHost, ScanTypeOK, LeakOnlyOnFailure
<1>3. CASE NativeTimesOut(s)
  BY <1>3 DEF NativeTimesOut, GiveUp, ScanTypeOK, LeakOnlyOnFailure
<1>4. CASE FetchAnswers(s)
  <2>1. (s \in Secret) \in BOOLEAN
    OBVIOUS
  <2> QED BY <1>4, <2>1, LearnSound DEF FetchAnswers, ScanTypeOK
<1>5. CASE FetchFails(s)
  <2>1. scanTrouble' \in 0..MaxScanTrouble
    BY <1>5, ScanTroubleBound DEF FetchFails
  <2> QED BY <1>5, <2>1, LearnSound DEF FetchFails, ScanTypeOK
<1> QED BY <1>1, <1>2, <1>3, <1>4, <1>5

\* So do the host and the browser.
LEMMA HostSteps ==
    ASSUME ScanInv, HostAnswers \/ HostEnds \/ WorkerStops
    PROVE  ScanInv'
<1> USE ScanAssumption DEF ScanInv
<1>1. CASE HostAnswers
  <2> DEFINE s == Head(hostQueue)
  <2>1. hostQueue' \in Seq(Scan) /\ UNCHANGED <<port, scanTrouble, expired, unanswered>>
    BY <1>1, HostQueueType DEF HostAnswers
  <2>2. CASE Addressee(s) = {}
    BY <1>1, <2>1, <2>2 DEF HostAnswers, ScanTypeOK, LeakOnlyOnFailure
  <2>3. CASE Addressee(s) # {}
    <3>1. PICK q \in Addressee(s) : /\ pending' = pending \ {q}
                                    /\ working' = [working EXCEPT ![q] = "done"]
                                    /\ Learn(q, s \in Secret)
      BY <1>1, <2>3 DEF HostAnswers
    <3>2. q = s /\ q \in Scan
      BY DEF Addressee, ScanTypeOK
    <3>3. (s \in Secret) \in BOOLEAN
      OBVIOUS
    <3>4. /\ fate' \in [Scan -> {"none", "held", "let go", "stopped"}]
          /\ asking' \in [Scan -> {"no", "worker", "agent", "done"}]
          /\ toasted' \subseteq Scan
          /\ LeakOnlyOnFailure'
      BY <2>1, <3>1, <3>2, <3>3, LearnSound
    <3> QED BY <2>1, <3>1, <3>4 DEF ScanTypeOK
  <2> QED BY <2>2, <2>3
<1>2. CASE HostEnds
  <2>1. scanTrouble' \in 0..MaxScanTrouble /\ hostQueue' \in Seq(Scan)
    BY <1>2, ScanTroubleBound, HostQueueType DEF HostEnds
  <2> QED BY <1>2, <2>1 DEF HostEnds, GiveUp, ScanTypeOK, LeakOnlyOnFailure
<1>3. CASE WorkerStops
  <2>1. scanTrouble' \in 0..MaxScanTrouble /\ hostQueue' \in Seq(Scan)
    BY <1>3, ScanTroubleBound, HostQueueType DEF WorkerStops
  <2> QED BY <1>3, <2>1 DEF WorkerStops, ScanTypeOK, LeakOnlyOnFailure
<1> QED BY <1>1, <1>2, <1>3

\* The invariant holds of every behaviour.
LEMMA ScanInvariance == ScanSpec => []ScanInv
<1>1. ScanInit => ScanInv
  <2> SUFFICES ASSUME ScanInit PROVE ScanInv
    OBVIOUS
  <2>1. scanTrouble \in 0..MaxScanTrouble /\ hostQueue \in Seq(Scan)
    BY ScanAssumption DEF ScanInit
  <2>2. LeakOnlyOnFailure
    BY ScanAssumption DEF ScanInit, LeakOnlyOnFailure
  <2> QED BY <2>1, <2>2 DEF ScanInit, ScanInv, ScanTypeOK
<1>2. ScanInv /\ [ScanNext]_scanVars => ScanInv'
  <2> SUFFICES ASSUME ScanInv, [ScanNext]_scanVars PROVE ScanInv'
    OBVIOUS
  <2>1. CASE UNCHANGED scanVars
    BY <2>1 DEF scanVars, worker, ScanInv, ScanTypeOK, LeakOnlyOnFailure
  <2>2. CASE ScanNext
    BY <2>2, ContentSteps, WorkerSteps, HostSteps DEF ScanNext, ScanStep
  <2> QED BY <2>1, <2>2
<1> QED BY <1>1, <1>2, PTL DEF ScanSpec

\* Type correctness of the extension.
THEOREM ScanTypeCorrect == ScanSpec => []ScanTypeOK
<1>1. ScanInv => ScanTypeOK
  BY DEF ScanInv
<1> QED BY <1>1, ScanInvariance, PTL

\* No secret is let go because of another scan's answer, failure or restart,
\* for any number of scans in flight.
THEOREM LeaksExplained == ScanSpec => []LeakOnlyOnFailure
<1>1. ScanInv => LeakOnlyOnFailure
  BY DEF ScanInv
<1> QED BY <1>1, ScanInvariance, PTL

-----------------------------------------------------------------------------
(* SystemConfig.                                                           *)

\* Before the reconciliation there is no operation and no flag.
Fresh == agent \in {"down", "starting"}
FreshIsIdle == Fresh => op = NoOp /\ ~restoring /\ flag = Nothing

\* What points at the agent is flagged, and is in the file before there are flags.
Known ==
    \A x \in Setting \ lapse : os[x] # "none" => IF Fresh THEN file[x] ELSE flag[x]

\* What is flagged is in the file, unless it is about to be written.
Unwritten(x) == op # NoOp /\ (op.at = "write" \/ (op.at = "persist" /\ op.x = x))
Filed == ~Fresh => \A x \in Setting \ lapse : flag[x] => file[x] \/ Unwritten(x)

\* A shutdown only restores.
ShutdownRestores == op # NoOp /\ op.kind = "shutdown" => op.action = "restore"

SettingsInv == TypeOK /\ FreshIsIdle /\ Known /\ Filed /\ ShutdownRestores

\* An operation under way has its parts.
LEMMA OpParts ==
    ASSUME TypeOK, op # NoOp
    PROVE  /\ op \in Op /\ op.x \in Setting /\ op.action \in {"apply", "restore"}
           /\ op.kind \in {"request", "reconcile", "shutdown"}
           /\ op.at \in {"command", "persist", "write"}
           /\ op.switched \in BOOLEAN
           /\ Now(op) \in Command /\ Now(op).x = op.x /\ Now(op).action = op.action
BY DEF TypeOK, Op, Now, Command

\* A setting is one of four.
OSType == [Setting -> {"none", "plain", "some", "all"}]

\* Commands keep to the values and to their setting, and a restore never
\* makes a setting point at the agent.
LEMMA CommandEffect ==
    ASSUME TypeOK, NEW c \in Command, Carried(c) \/ Botched(c)
    PROVE  /\ os' \in OSType
           /\ \A x \in Setting : x # c.x => os'[x] = os[x]
           /\ \A x \in Setting : c.action = "restore" /\ os'[x] # "none" => os[x] # "none"
           /\ Carried(c) /\ c.action = "restore" => os'[c.x] = "none"
<1>1. os \in OSType /\ c.x \in Setting /\ Aim(c) \in {"none", "all"}
  BY DEF TypeOK, OSType, Command, Aim
<1>2. c.action = "restore" => Aim(c) = "none"
  BY DEF Aim
<1>3. CASE Carried(c)
  BY <1>1, <1>2, <1>3 DEF Carried, OSType
<1>4. CASE Botched(c) /\ ~Carried(c)
  BY <1>1, <1>2, <1>4 DEF Botched, Points, OSType
<1> QED BY <1>3, <1>4

\* Failures are counted within their bound.
LEMMA TroubleBound ==
    ASSUME TypeOK, Trouble \/ UNCHANGED trouble
    PROVE  trouble' \in 0..MaxTrouble
<1>1. trouble \in 0..MaxTrouble /\ MaxTrouble \in Nat
  BY TroubleAssumption DEF TypeOK
<1> QED BY <1>1 DEF Trouble

\* The operation of a shutdown.
LEMMA RestoreAllType ==
    ASSUME NEW flags \in [Setting -> BOOLEAN]
    PROVE  /\ RestoreAll(flags) \in Op /\ RestoreAll(flags) # NoOp
           /\ RestoreAll(flags).kind = "shutdown" /\ RestoreAll(flags).action = "restore"
           /\ RestoreAll(flags).at \in {"command", "persist"}
<1>1. CASE \A x \in Setting : ~flags[x]
  BY <1>1, SettingAssumption DEF RestoreAll, Op, NoOp
<1>2. CASE ~\A x \in Setting : ~flags[x]
  <2>1. (IF flags["proxy"] THEN "proxy" ELSE "dns") \in Setting
    BY <1>2, SettingAssumption
  <2> QED BY <1>2, <2>1 DEF RestoreAll, Op, NoOp
<1> QED BY <1>1, <1>2

\* The invariant looks at these alone: any step that leaves them alone, and
\* the agent on its side of the reconciliation, keeps it.
LEMMA SettingsKept ==
    ASSUME SettingsInv, TypeOK', UNCHANGED <<os, flag, file, op, lapse>>, Fresh' = Fresh,
           restoring' => restoring
    PROVE  SettingsInv'
BY DEF SettingsInv, FreshIsIdle, Known, Filed, Unwritten, ShutdownRestores

\* The start of an operation, of any kind but writing.
LEMMA OperationBegins ==
    ASSUME SettingsInv, TypeOK', ~Fresh, op = NoOp, op' # NoOp, op'.at \in {"command", "persist"},
           op'.kind = "shutdown" => op'.action = "restore",
           UNCHANGED <<os, flag, file, lapse>>, Fresh' = Fresh
    PROVE  SettingsInv'
BY DEF SettingsInv, FreshIsIdle, Known, Filed, Unwritten, ShutdownRestores

-----------------------------------------------------------------------------
\* An operation that begins.
LEMMA BeginSteps ==
    ASSUME SettingsInv, Request \/ RestoreBegins \/ ShutdownBegins \/ SwitchAsks
    PROVE  SettingsInv'
<1> USE DEF SettingsInv
<1>1. ASSUME NEW c \in Command, NEW b \in BOOLEAN, RequestBegins(c, b)
      PROVE  /\ op' \in Op /\ op' # NoOp /\ op'.at = "command" /\ op'.kind = "request"
             /\ op = NoOp /\ ~Fresh
  BY <1>1 DEF RequestBegins, Op, NoOp, Command, Serving, Fresh
<1>2. CASE Request \/ SwitchAsks
  <2>1. PICK c \in Command, b \in BOOLEAN : RequestBegins(c, b)
    <3>1. [action |-> "apply", x |-> "proxy"] \in Command /\ [action |-> "restore", x |-> "proxy"] \in Command
      BY SettingAssumption DEF Command
    <3> QED BY <1>2, <3>1 DEF Request, SwitchAsks
  <2>2. UNCHANGED <<outside, flag, restoring, agent, listening, file, switch, trouble, lapse>>
    BY <1>2 DEF Request, SwitchAsks
  <2>3. TypeOK'
    BY <1>1, <2>1, <2>2 DEF TypeOK, outside
  <2> QED BY <1>1, <2>1, <2>2, <2>3, OperationBegins DEF outside, Fresh
<1>3. CASE RestoreBegins
  <2>1. op' \in Op /\ op' # NoOp /\ op'.at = "command" /\ op'.kind = "reconcile"
    BY <1>3, SettingAssumption DEF RestoreBegins, Op, NoOp
  <2>2. /\ op = NoOp /\ ~Fresh /\ restoring' = FALSE
        /\ UNCHANGED <<outside, flag, agent, listening, file, switch, trouble, lapse>>
    BY <1>3 DEF RestoreBegins, FreshIsIdle
  <2>3. TypeOK'
    BY <2>1, <2>2 DEF TypeOK, outside
  <2> QED BY <2>1, <2>2, <2>3, OperationBegins DEF outside, Fresh
<1>4. CASE ShutdownBegins
  <2>1. /\ op' \in Op /\ op' # NoOp /\ op'.at \in {"command", "persist"} /\ op'.action = "restore"
    BY <1>4, RestoreAllType DEF ShutdownBegins, TypeOK
  <2>2. /\ op = NoOp /\ ~Fresh
        /\ UNCHANGED <<outside, flag, restoring, agent, listening, file, switch, trouble, lapse>>
    BY <1>4 DEF ShutdownBegins, Fresh
  <2>3. TypeOK'
    BY <2>1, <2>2 DEF TypeOK, outside
  <2> QED BY <2>1, <2>2, <2>3, OperationBegins DEF outside, Fresh
<1> QED BY <1>2, <1>3, <1>4

\* Where the switch goes when its request is answered.
LEMMA SwitchType ==
    ASSUME TypeOK, SwitchHears
    PROVE  switch' \in {"idle", "enable", "apply", "restore", "disable"}
BY DEF TypeOK, SwitchHears

\* The flag follows the command, and the operation goes on.
LEMMA FlaggedEffect ==
    ASSUME TypeOK, ShutdownRestores, op # NoOp, op.at = "command", Flagged
    PROVE  /\ flag' \in [Setting -> BOOLEAN]
           /\ \A x \in Setting : x # op.x => flag'[x] = flag[x]
           /\ flag'[op.x] <=> op.action = "apply"
           /\ op' \in Op /\ op' # NoOp
           /\ op'.kind = "shutdown" => op'.action = "restore"
           /\ op.action = "apply" => op'.at = "persist" /\ op'.x = op.x
<1>1. /\ op \in Op /\ op.x \in Setting /\ op.action \in {"apply", "restore"}
  BY OpParts
<1>2. flag' = [flag EXCEPT ![op.x] = (op.action = "apply")]
  BY DEF Flagged
<1>3. /\ flag' \in [Setting -> BOOLEAN]
      /\ \A x \in Setting : x # op.x => flag'[x] = flag[x]
      /\ flag'[op.x] <=> op.action = "apply"
  BY <1>1, <1>2 DEF TypeOK
<1>4. CASE op.kind = "shutdown"
  <2>1. op' = RestoreAll(flag') /\ op.action = "restore"
    BY <1>4 DEF Flagged, ShutdownRestores
  <2> QED BY <1>3, <2>1, RestoreAllType
<1>5. CASE op.kind # "shutdown"
  <2>1. op' = [op EXCEPT !.at = "persist"]
    BY <1>5 DEF Flagged
  <2>2. op' \in Op /\ op' # NoOp /\ op'.kind # "shutdown" /\ op'.at = "persist" /\ op'.x = op.x
    BY <1>1, <1>5, <2>1 DEF Op, NoOp
  <2> QED BY <1>3, <2>2
<1> QED BY <1>4, <1>5

\* A command and its flag keep the invariant when the setting lapses, or its
\* flag and what it points at agree.
LEMMA FlagStep ==
    ASSUME SettingsInv, TypeOK', op # NoOp, op.at = "command", op' # NoOp, UNCHANGED <<file, agent>>,
           op'.kind = "shutdown" => op'.action = "restore",
           \A x \in Setting \ lapse' :
               x # op.x => x \notin lapse /\ os'[x] = os[x] /\ flag'[x] = flag[x],
           op.x \in Setting \ lapse' =>
               \/ os'[op.x] = "none" /\ ~flag'[op.x]
               \/ flag'[op.x] /\ op'.at = "persist" /\ op'.x = op.x
    PROVE  SettingsInv'
<1>1. ~Fresh /\ ~Fresh'
  BY DEF SettingsInv, FreshIsIdle, Fresh
<1>2. \A x \in Setting \ lapse : flag[x] => file[x]
  BY <1>1 DEF SettingsInv, Filed, Unwritten
<1>3. ASSUME NEW x \in Setting \ lapse'
      PROVE  (os'[x] # "none" => flag'[x]) /\ (flag'[x] => file'[x] \/ Unwritten(x)')
  <2>1. CASE x = op.x
    BY <1>3, <2>1 DEF Unwritten
  <2>2. CASE x # op.x
    BY <1>1, <1>2, <1>3, <2>2 DEF SettingsInv, Known
  <2> QED BY <2>1, <2>2
<1> QED BY <1>1, <1>3 DEF SettingsInv, FreshIsIdle, Known, Filed, ShutdownRestores

\* A command that is carried out, or ignored by the helper.
LEMMA CommandSteps ==
    ASSUME SettingsInv, CommandSucceeds \/ CommandIgnored
    PROVE  SettingsInv'
<1> USE DEF SettingsInv
<1>1. /\ op # NoOp /\ op.at = "command" /\ Flagged /\ (Carried(Now(op)) \/ Botched(Now(op)))
      /\ UNCHANGED <<late, strikes, restoring, agent, listening, file, switch>>
  BY DEF CommandSucceeds, CommandIgnored
<1>2. /\ op.x \in Setting /\ Now(op) \in Command /\ Now(op).x = op.x /\ Now(op).action = op.action
  BY <1>1, OpParts
<1>3. /\ os' \in OSType
      /\ \A x \in Setting : x # op.x => os'[x] = os[x]
      /\ Carried(Now(op)) /\ op.action = "restore" => os'[op.x] = "none"
  BY <1>1, <1>2, CommandEffect
<1>4. /\ flag' \in [Setting -> BOOLEAN]
      /\ \A x \in Setting : x # op.x => flag'[x] = flag[x]
      /\ flag'[op.x] <=> op.action = "apply"
      /\ op' \in Op /\ op' # NoOp
      /\ op'.kind = "shutdown" => op'.action = "restore"
      /\ op.action = "apply" => op'.at = "persist" /\ op'.x = op.x
  BY <1>1, FlaggedEffect
<1>5. trouble' \in 0..MaxTrouble
  BY TroubleBound DEF CommandSucceeds, CommandIgnored
<1>6. lapse' \subseteq Setting
  BY <1>2 DEF CommandSucceeds, CommandIgnored, Lapse, TypeOK
<1>7. TypeOK'
  BY <1>1, <1>3, <1>4, <1>5, <1>6 DEF TypeOK, OSType
<1>8. \A x \in Setting \ lapse' : x # op.x => x \notin lapse
  BY DEF CommandSucceeds, CommandIgnored, Lapse
<1>9. op.x \in Setting \ lapse' => Carried(Now(op))
  BY DEF CommandSucceeds, CommandIgnored, Lapse
<1>10. op.action \in {"apply", "restore"}
  BY <1>1, OpParts
<1> QED BY <1>1, <1>3, <1>4, <1>7, <1>8, <1>9, <1>10, FlagStep

\* A command that fails: its setting lapses.
LEMMA CommandFailsStep ==
    ASSUME SettingsInv, CommandFails
    PROVE  SettingsInv'
<1> USE DEF SettingsInv
<1>1. /\ op # NoOp /\ op.at = "command" /\ lapse' = lapse \cup {op.x}
      /\ UNCHANGED <<strikes, restoring, agent, listening, file>>
  BY DEF CommandFails, Lapse
<1>2. /\ op.x \in Setting /\ Now(op) \in Command /\ Now(op).x = op.x
  BY <1>1, OpParts
<1>3. os' \in OSType /\ (\A x \in Setting : x # op.x => os'[x] = os[x]) /\ late' \subseteq Command
  <2>1. CASE Botched(Now(op)) /\ UNCHANGED late
    BY <1>2, <2>1, CommandEffect DEF TypeOK
  <2>2. CASE late' = late \cup {Now(op)} /\ UNCHANGED os
    BY <1>2, <2>2 DEF TypeOK, OSType
  <2> QED BY <2>1, <2>2 DEF CommandFails
<1>4. trouble' \in 0..MaxTrouble /\ lapse' \subseteq Setting
  BY <1>1, <1>2, TroubleBound DEF CommandFails, TypeOK
<1>5. CASE op.kind = "shutdown"
  <2>1. Flagged /\ UNCHANGED switch
    BY <1>5 DEF CommandFails
  <2>2. /\ flag' \in [Setting -> BOOLEAN]
        /\ \A x \in Setting : x # op.x => flag'[x] = flag[x]
        /\ op' \in Op /\ op' # NoOp
        /\ op'.kind = "shutdown" => op'.action = "restore"
    BY <1>1, <2>1, FlaggedEffect
  <2>3. TypeOK'
    BY <1>1, <1>3, <1>4, <2>1, <2>2 DEF TypeOK, OSType
  <2> QED BY <1>1, <1>3, <2>2, <2>3, FlagStep
<1>6. CASE op.kind # "shutdown"
  <2>1. op' = NoOp /\ SwitchHears /\ UNCHANGED flag
    BY <1>6 DEF CommandFails
  <2>2. TypeOK'
    BY <1>1, <1>3, <1>4, <2>1, SwitchType DEF TypeOK, OSType
  <2>3. ~Fresh /\ ~Fresh'
    BY <1>1 DEF FreshIsIdle, Fresh
  <2>4. \A x \in Setting \ lapse' : x \notin lapse /\ os'[x] = os[x] /\ ~Unwritten(x)
    BY <1>1, <1>3 DEF Unwritten
  <2>5. Known' /\ Filed'
    BY <1>1, <2>1, <2>3, <2>4 DEF Known, Filed
  <2> QED BY <2>1, <2>2, <2>3, <2>5 DEF FreshIsIdle, ShutdownRestores
<1> QED BY <1>5, <1>6

\* The end of an operation.
LEMMA CompletedEffect ==
    ASSUME SettingsInv, op # NoOp, Completed
    PROVE  /\ op' = NoOp /\ agent' \in Phase /\ ~Fresh /\ ~Fresh'
           /\ switch' \in {"idle", "enable", "apply", "restore", "disable"}
<1>1. ~Fresh
  BY DEF SettingsInv, FreshIsIdle
<1>2. agent' \in {agent, "restored"}
  BY DEF Completed
<1> QED BY <1>1, <1>2, SwitchType DEF Completed, SettingsInv, TypeOK, Phase, Fresh

\* The record on disk: truncated, written, or neither.
LEMMA PersistSteps ==
    ASSUME SettingsInv, PersistTruncates \/ PersistWrites \/ PersistFails
    PROVE  SettingsInv'
<1> USE DEF SettingsInv
<1>1. CASE PersistTruncates
  <2>1. /\ op # NoOp /\ op.at = "persist" /\ file' = Nothing /\ op' = [op EXCEPT !.at = "write"]
        /\ UNCHANGED <<outside, flag, restoring, agent, listening, switch, trouble, lapse>>
    BY <1>1 DEF PersistTruncates
  <2>2. /\ op' \in Op /\ op' # NoOp /\ op'.at = "write" /\ op'.kind = op.kind /\ op'.action = op.action
    BY <2>1, OpParts DEF Op, NoOp
  <2>3. Nothing \in [Setting -> BOOLEAN]
    BY DEF Nothing
  <2>4. TypeOK'
    BY <2>1, <2>2, <2>3 DEF TypeOK, outside
  <2>5. ~Fresh /\ ~Fresh'
    BY <2>1 DEF FreshIsIdle, Fresh
  <2> QED BY <2>1, <2>2, <2>4, <2>5 DEF FreshIsIdle, Known, Filed, Unwritten, ShutdownRestores, outside
<1>2. CASE PersistWrites
  <2>1. /\ op # NoOp /\ file' = flag /\ lapse' = {x \in lapse : ~flag[x]}
        /\ UNCHANGED <<outside, flag, restoring, listening, trouble>>
    BY <1>2 DEF PersistWrites
  <2>2. /\ op' = NoOp /\ agent' \in Phase /\ ~Fresh /\ ~Fresh'
        /\ switch' \in {"idle", "enable", "apply", "restore", "disable"}
    BY <1>2, CompletedEffect DEF PersistWrites
  <2>3. TypeOK'
    BY <2>1, <2>2 DEF TypeOK, outside
  <2>4. \A x \in Setting \ lapse' : x \notin lapse \/ flag[x]
    BY <2>1
  <2> QED BY <2>1, <2>2, <2>3, <2>4 DEF FreshIsIdle, Known, Filed, ShutdownRestores, outside
<1>3. CASE PersistFails
  <2>1. /\ op # NoOp /\ lapse' = Setting /\ UNCHANGED <<outside, flag, restoring, listening, file>>
    BY <1>3 DEF PersistFails
  <2>2. /\ op' = NoOp /\ agent' \in Phase /\ ~Fresh /\ ~Fresh'
        /\ switch' \in {"idle", "enable", "apply", "restore", "disable"}
    BY <1>3, CompletedEffect DEF PersistFails
  <2>3. trouble' \in 0..MaxTrouble
    BY <1>3, TroubleBound DEF PersistFails
  <2>4. TypeOK'
    BY <2>1, <2>2, <2>3 DEF TypeOK, outside
  <2> QED BY <2>1, <2>2, <2>4 DEF FreshIsIdle, Known, Filed, ShutdownRestores
<1> QED BY <1>1, <1>2, <1>3

\* The process starts, takes over what the file says, and is told to stop.
LEMMA PhaseSteps ==
    ASSUME SettingsInv, Start \/ Reconcile \/ Signal \/ ShutdownTimesOut \/ CloseAPI
    PROVE  SettingsInv'
<1> USE DEF SettingsInv
<1>1. CASE Start
  <2>1. TypeOK'
    BY <1>1 DEF Start, TypeOK, outside, Phase
  <2> QED BY <1>1, <2>1, SettingsKept DEF Start, Fresh, outside
<1>2. CASE Signal \/ CloseAPI
  <2>1. TypeOK'
    BY <1>2 DEF Signal, CloseAPI, TypeOK, outside, Phase
  <2> QED BY <1>2, <2>1, SettingsKept DEF Signal, CloseAPI, Fresh, outside
<1>3. CASE ShutdownTimesOut
  <2>1. trouble' \in 0..MaxTrouble
    BY <1>3, TroubleBound DEF ShutdownTimesOut
  <2>2. TypeOK'
    BY <1>3, <2>1 DEF ShutdownTimesOut, TypeOK, outside, Phase
  <2> QED BY <1>3, <2>2, SettingsKept DEF ShutdownTimesOut, Fresh, outside
<1>4. CASE Reconcile
  <2>1. /\ Fresh /\ agent' = "up" /\ flag' = file /\ op = NoOp
        /\ UNCHANGED <<outside, op, listening, file, switch, trouble, lapse>>
    BY <1>4 DEF Reconcile, Adopted, Fresh, FreshIsIdle
  <2>2. restoring' \in BOOLEAN
    <3>1. restoring' = (file["proxy"] /\ ~listening)
      BY <1>4, Zenon DEF Reconcile
    <3> QED BY <3>1
  <2>3. TypeOK'
    BY <2>1, <2>2 DEF TypeOK, outside, Phase
  <2>4. ~Fresh'
    BY <2>1 DEF Fresh
  <2> QED BY <2>1, <2>3, <2>4 DEF FreshIsIdle, Known, Filed, ShutdownRestores, outside
<1> QED BY <1>1, <1>2, <1>3, <1>4

\* The process ends: what it was about to write lapses.
LEMMA DiesSteps ==
    ASSUME SettingsInv, Exit \/ Crash
    PROVE  SettingsInv'
<1> USE DEF SettingsInv
<1>1. Dies /\ agent # "down"
  BY DEF Exit, Crash
<1>2. /\ agent' = "down" /\ flag' = Nothing /\ op' = NoOp /\ restoring' = FALSE /\ listening' = FALSE
      /\ UNCHANGED <<os, strikes, file>>
  BY <1>1 DEF Dies
<1>3. late' \subseteq Command
  <2>1. CASE op # NoOp /\ op.at = "command"
    <3>1. Now(op) \in Command
      BY <2>1, OpParts
    <3> QED BY <1>1, <2>1, <3>1 DEF Dies, TypeOK
  <2>2. CASE ~(op # NoOp /\ op.at = "command")
    BY <1>1, <2>2 DEF Dies, TypeOK
  <2> QED BY <2>1, <2>2
<1>4. /\ lapse \subseteq lapse' /\ lapse' \subseteq Setting
      /\ \A x \in Setting : Unwritten(x) => x \in lapse'
  <2>1. CASE op = NoOp
    BY <1>1, <2>1 DEF Dies, TypeOK, Unwritten
  <2>2. CASE op # NoOp
    <3>1. op.at \in {"command", "persist", "write"} /\ op.x \in Setting
      BY <2>2, OpParts
    <3>2. CASE op.at = "command"
      BY <1>1, <2>2, <3>2 DEF Dies, TypeOK, Unwritten
    <3>3. CASE op.at = "persist"
      BY <1>1, <2>2, <3>1, <3>3 DEF Dies, TypeOK, Unwritten
    <3>4. CASE op.at = "write"
      BY <1>1, <2>2, <3>4 DEF Dies, TypeOK, Unwritten
    <3> QED BY <3>1, <3>2, <3>3, <3>4
  <2> QED BY <2>1, <2>2
<1>5. trouble' \in 0..MaxTrouble
  BY TroubleBound DEF Exit, Crash
<1>6. switch' \in {"idle", "enable", "apply", "restore", "disable"}
  BY <1>1, SwitchType DEF Dies
<1>7. Nothing \in [Setting -> BOOLEAN]
  BY DEF Nothing
<1>8. TypeOK'
  BY <1>2, <1>3, <1>4, <1>5, <1>6, <1>7 DEF TypeOK, Phase
<1>9. ASSUME NEW x \in Setting \ lapse', os[x] # "none" PROVE file[x]
  <2>1. x \notin lapse /\ ~Unwritten(x)
    BY <1>4, <1>9
  <2> QED BY <1>9, <2>1 DEF Known, Filed
<1>10. Fresh'
  BY <1>2 DEF Fresh
<1> QED BY <1>2, <1>8, <1>9, <1>10 DEF FreshIsIdle, Known, Filed, ShutdownRestores

\* The helper: its setting lapses, or it only gives the network back.
LEMMA HelperSteps ==
    ASSUME SettingsInv, LateCommand \/ Watchdog
    PROVE  SettingsInv'
<1> USE DEF SettingsInv
<1>1. CASE LateCommand
  <2>1. PICK c \in late : Carried(c) /\ late' = late \ {c} /\ lapse' = lapse \cup {c.x}
    BY <1>1 DEF LateCommand, Lapse
  <2>2. /\ c \in Command /\ c.x \in Setting
        /\ UNCHANGED <<strikes, process, file, switch, trouble>>
    BY <1>1 DEF LateCommand, TypeOK, Command
  <2>3. os' \in OSType /\ \A x \in Setting : x # c.x => os'[x] = os[x]
    BY <2>1, <2>2, CommandEffect
  <2>4. TypeOK'
    BY <2>1, <2>2, <2>3 DEF TypeOK, OSType, process
  <2>5. Known'
    BY <2>1, <2>2, <2>3 DEF Known, Fresh, process
  <2>6. Filed' /\ FreshIsIdle' /\ ShutdownRestores'
    BY <2>1, <2>2 DEF Filed, Unwritten, FreshIsIdle, ShutdownRestores, Fresh, process
  <2> QED BY <2>4, <2>5, <2>6
<1>2. CASE WatchdogLooks \/ WatchdogErrs
  <2>1. strikes' \in 0..Patience
    BY <1>2, PatienceAssumption DEF WatchdogLooks, WatchdogErrs, TypeOK
  <2>2. trouble' \in 0..MaxTrouble
    BY <1>2, TroubleBound DEF WatchdogLooks, WatchdogErrs
  <2>3. UNCHANGED <<os, late, process, file, switch, lapse>>
    BY <1>2 DEF WatchdogLooks, WatchdogErrs
  <2>4. TypeOK'
    BY <2>1, <2>2, <2>3 DEF TypeOK, process
  <2> QED BY <2>3, <2>4, SettingsKept DEF process, Fresh
<1>3. CASE WatchdogRestores \/ WatchdogFails
  <2> DEFINE c == [action |-> "restore", x |-> "proxy"]
  <2>1. c \in Command /\ c.action = "restore"
    BY SettingAssumption DEF Command
  <2>2. UNCHANGED os \/ Carried(c) \/ Botched(c)
    BY <1>3 DEF WatchdogRestores, WatchdogFails
  <2> HIDE DEF c
  <2>3. os' \in OSType /\ \A x \in Setting : os'[x] # "none" => os[x] # "none"
    <3>1. CASE UNCHANGED os
      BY <3>1 DEF TypeOK, OSType
    <3>2. CASE Carried(c) \/ Botched(c)
      BY <2>1, <3>2, CommandEffect
    <3> QED BY <2>2, <3>1, <3>2
  <2>4. UNCHANGED <<late, process, file, switch, lapse>>
    BY <1>3 DEF WatchdogRestores, WatchdogFails
  <2>5. trouble' \in 0..MaxTrouble /\ strikes' \in 0..Patience
    <3>1. trouble' \in 0..MaxTrouble
      BY <1>3, TroubleBound DEF WatchdogRestores, WatchdogFails
    <3>2. strikes' \in {Patience - 1, 0}
      BY <1>3 DEF WatchdogRestores, WatchdogFails
    <3> QED BY <3>1, <3>2, PatienceAssumption DEF TypeOK
  <2>6. TypeOK'
    BY <2>3, <2>4, <2>5 DEF TypeOK, OSType, process
  <2> QED BY <2>3, <2>4, <2>6 DEF Known, Filed, Unwritten, FreshIsIdle, ShutdownRestores, Fresh, process
<1> QED BY <1>1, <1>2, <1>3 DEF Watchdog

\* The switch and the listener.
LEMMA SwitchSteps ==
    ASSUME SettingsInv,
           Flip \/ SwitchEnables \/ SwitchDisables \/ SwitchUnanswered \/ ListenerChanges
    PROVE  SettingsInv'
<1> USE DEF SettingsInv
<1>1. trouble' \in 0..MaxTrouble
  BY TroubleBound DEF Flip, SwitchEnables, SwitchDisables, SwitchUnanswered, ListenerChanges
<1>2. switch' \in {"idle", "enable", "apply", "restore", "disable"}
  BY DEF Flip, SwitchEnables, SwitchDisables, SwitchUnanswered, ListenerChanges, TypeOK
<1>3. listening' \in BOOLEAN
  <2>1. listening' = listening \/ listening' = TRUE \/ listening' = FALSE \/ listening' = ~listening
    BY DEF Flip, SwitchEnables, SwitchDisables, SwitchUnanswered, ListenerChanges, process
  <2> QED BY <2>1 DEF TypeOK
<1>4. UNCHANGED <<outside, flag, op, restoring, agent, file, lapse>>
  BY DEF Flip, SwitchEnables, SwitchDisables, SwitchUnanswered, ListenerChanges, process
<1>5. TypeOK'
  BY <1>1, <1>2, <1>3, <1>4 DEF TypeOK, outside
<1> QED BY <1>4, <1>5, SettingsKept DEF outside, Fresh

\* The invariant holds of every behaviour.
LEMMA SettingsInvariance == Spec => []SettingsInv
<1>1. Init => SettingsInv
  <2> SUFFICES ASSUME Init PROVE SettingsInv
    OBVIOUS
  <2>1. trouble \in 0..MaxTrouble /\ strikes \in 0..Patience
    BY TroubleAssumption, PatienceAssumption DEF Init
  <2>2. TypeOK
    BY <2>1 DEF Init, TypeOK, Nothing, Phase
  <2> QED BY <2>2 DEF Init, SettingsInv, FreshIsIdle, Known, Filed, ShutdownRestores, Fresh
<1>2. SettingsInv /\ [Next]_vars => SettingsInv'
  <2> SUFFICES ASSUME SettingsInv, [Next]_vars PROVE SettingsInv'
    OBVIOUS
  <2>1. CASE UNCHANGED vars
    <3>1. TypeOK'
      BY <2>1 DEF vars, outside, process, SettingsInv, TypeOK
    <3> QED BY <2>1, <3>1, SettingsKept DEF vars, outside, process, Fresh
  <2>2. CASE Next
    BY <2>2, BeginSteps, CommandSteps, CommandFailsStep, PersistSteps, PhaseSteps, DiesSteps,
       HelperSteps, SwitchSteps DEF Next, Hold, Switch
  <2> QED BY <2>1, <2>2
<1> QED BY <1>1, <1>2, PTL DEF Spec

\* Type correctness of the settings.
THEOREM SettingsTypeCorrect == Spec => []TypeOK
<1>1. SettingsInv => TypeOK
  BY DEF SettingsInv
<1> QED BY <1>1, SettingsInvariance, PTL

\* The file tells a later process of everything that points at the agent,
\* over any number of requests, crashes, starts and late commands, except for
\* settings that one of these has cut off.
THEOREM FileKnows == Spec => []FileKnowsSettings
<1>1. SettingsInv => FileKnowsSettings
  <2> SUFFICES ASSUME SettingsInv, op = NoOp, NEW x \in Setting \ lapse, os[x] # "none"
               PROVE  file[x]
    BY DEF FileKnowsSettings
  <2> QED BY DEF SettingsInv, Known, Filed, Unwritten
<1> QED BY <1>1, SettingsInvariance, PTL

-----------------------------------------------------------------------------
(* TamperDetector.                                                         *)

\* The detector has asked after x in the look under way.
Asked(x) == lookAt = "compare" \/ (lookAt = "proxy" /\ x = "dns")

\* A detection is still to come of x without another change or failure: one the
\* look under way will count, or one a later look will.
Looming(x) == IF Asked(x) THEN (~answer[x] /\ lastOK[x]) \/ (answer[x] /\ ~pointed[x])
              ELSE lastOK[x] /\ ~pointed[x]

Owed(x) == IF Looming(x) THEN 1 ELSE 0

\* What is not asked yet is taken to be in order, and detections still to come are
\* already paid for.
TamperInv ==
    /\ TamperTypeOK
    /\ lookAt # "idle" => \A x \in Watched : ~Asked(x) => answer[x]
    /\ detections + Owed("dns") + Owed("proxy") <= tamperings + tamperTrouble

\* The detector starts.
LEMMA TamperInitInv == TamperInit => TamperInv
<1> SUFFICES ASSUME TamperInit PROVE TamperInv
  OBVIOUS
<1>1. TamperTypeOK
  BY TamperAssumption DEF TamperInit, TamperTypeOK
<1>2. Owed("dns") = 0 /\ Owed("proxy") = 0
  BY DEF TamperInit, Owed, Looming, Asked, Watched
<1> QED BY <1>1, <1>2 DEF TamperInit, TamperInv

\* A setting changes or is given back.
LEMMA SettingKeeps ==
    ASSUME TamperInv, NEW x \in Watched, Tampers(x) \/ PointsBack(x)
    PROVE  TamperInv'
<1> USE DEF TamperInv
<1>2. UNCHANGED <<lookAt, answer, lastOK, detections, tamperTrouble>>
  BY DEF Tampers, PointsBack
<1>1. TamperTypeOK'
  <2>1. pointed' \in [Watched -> BOOLEAN]
    BY DEF Tampers, PointsBack, TamperTypeOK
  <2>2. tamperings' \in 0..MaxTampering
    BY TamperAssumption DEF Tampers, PointsBack, TamperTypeOK
  <2> QED BY <1>2, <2>1, <2>2 DEF TamperTypeOK
<1>3. \A y \in Watched \ {x} : Owed(y)' = Owed(y)
  BY <1>2 DEF Tampers, PointsBack, TamperTypeOK, Owed, Looming, Asked
<1>4. Owed(x)' <= Owed(x) + (tamperings' - tamperings)
  <2>1. CASE Tampers(x)
    <3>1. tamperings' - tamperings = 1
      BY <2>1 DEF Tampers, TamperTypeOK
    <3> QED BY <3>1 DEF Owed
  <2>2. CASE PointsBack(x)
    <3>1. tamperings' = tamperings /\ pointed'[x] /\ ~pointed[x]
      BY <2>2 DEF PointsBack, TamperTypeOK
    <3>2. Looming(x)' => Looming(x)
      BY <1>2, <3>1 DEF Looming, Asked
    <3> QED BY <3>1, <3>2 DEF Owed, TamperTypeOK
  <2> QED BY <2>1, <2>2
<1>5. \A y \in Watched : Owed(y) \in {0, 1} /\ Owed(y)' \in {0, 1}
  BY DEF Owed
<1>6. x = "dns" \/ x = "proxy"
  BY DEF Watched
<1>7. detections' + Owed("dns")' + Owed("proxy")' <= tamperings' + tamperTrouble'
  BY <1>1, <1>2, <1>3, <1>4, <1>5, <1>6 DEF Watched, TamperTypeOK
<1>8. lookAt' # "idle" => \A y \in Watched : ~Asked(y)' => answer'[y]
  BY <1>2 DEF Asked
<1> QED BY <1>1, <1>7, <1>8

\* A look begins.
LEMMA LookBeginsKeeps ==
    ASSUME TamperInv, LookBegins
    PROVE  TamperInv'
<1> USE DEF TamperInv
<1>1. TamperTypeOK'
  BY DEF LookBegins, TamperTypeOK
<1>2. \A y \in Watched : Owed(y)' = Owed(y)
  BY DEF LookBegins, Owed, Looming, Asked
<1>3. lookAt' # "idle" => \A y \in Watched : ~Asked(y)' => answer'[y]
  BY DEF LookBegins
<1>4. UNCHANGED <<detections, tamperings, tamperTrouble>>
  BY DEF LookBegins
<1>5. "dns" \in Watched /\ "proxy" \in Watched
  BY DEF Watched
<1> QED BY <1>1, <1>2, <1>3, <1>4, <1>5

\* A question is answered or fails.
LEMMA AsksKeeps ==
    ASSUME TamperInv, NEW x \in Watched, TamperAsks(x)
    PROVE  TamperInv'
<1> USE DEF TamperInv
<1>1. /\ lookAt = x /\ lookAt' = IF x = "dns" THEN "proxy" ELSE "compare"
      /\ UNCHANGED <<pointed, lastOK, detections, tamperings>>
  BY DEF TamperAsks
<1>2. x = "dns" \/ x = "proxy"
  BY DEF Watched
<1>3. ~Asked(x) /\ Asked(x)' /\ answer[x]
  BY <1>1, <1>2 DEF Asked
<1>4. \A y \in Watched \ {x} : (Asked(y)' <=> Asked(y)) /\ answer'[y] = answer[y]
  BY <1>1, <1>2 DEF Asked, Watched, TamperAsks, TamperTypeOK
<1>5. /\ answer' \in [Watched -> BOOLEAN]
      /\ tamperTrouble' \in 0..MaxTamperTrouble
      /\ \/ answer'[x] = pointed[x] /\ tamperTrouble' = tamperTrouble
         \/ tamperTrouble' = tamperTrouble + 1
  BY TamperAssumption DEF TamperAsks, TamperTypeOK
<1>6. TamperTypeOK'
  BY <1>1, <1>5 DEF TamperTypeOK
<1>7. \A y \in Watched \ {x} : Owed(y)' = Owed(y)
  BY <1>1, <1>4 DEF Owed, Looming
<1>8. Owed(x)' <= Owed(x) + (tamperTrouble' - tamperTrouble)
  <2>1. CASE answer'[x] = pointed[x] /\ tamperTrouble' = tamperTrouble
    <3>1. Looming(x)' => Looming(x)
      BY <1>1, <1>3, <1>5, <2>1, Zenon DEF Looming
    <3> QED BY <2>1, <3>1 DEF Owed, TamperTypeOK
  <2>2. CASE tamperTrouble' = tamperTrouble + 1
    BY <2>2 DEF Owed, TamperTypeOK
  <2> QED BY <1>5, <2>1, <2>2
<1>9. \A y \in Watched : Owed(y) \in {0, 1} /\ Owed(y)' \in {0, 1}
  BY DEF Owed
<1>10. detections' + Owed("dns")' + Owed("proxy")' <= tamperings' + tamperTrouble'
  BY <1>1, <1>2, <1>5, <1>7, <1>8, <1>9 DEF Watched, TamperTypeOK
<1>11. \A y \in Watched : ~Asked(y)' => answer'[y]
  BY <1>1, <1>2, <1>3, <1>4
<1> QED BY <1>6, <1>10, <1>11

\* A look ends.
LEMMA LookEndsKeeps ==
    ASSUME TamperInv, LookEnds
    PROVE  TamperInv'
<1> USE DEF TamperInv
<1>1. /\ lookAt = "compare" /\ lookAt' = "idle" /\ lastOK' = answer
      /\ detections' = IF Tampered THEN detections + 1 ELSE detections
      /\ UNCHANGED <<pointed, answer, tamperings, tamperTrouble>>
  BY DEF LookEnds, Remembered
<1>2. TamperTypeOK'
  BY <1>1 DEF TamperTypeOK
<1>3. \A y \in Watched : Asked(y) /\ ~Asked(y)'
  BY <1>1 DEF Asked
<1>4. \A y \in Watched : Owed(y) \in {0, 1} /\ Owed(y)' \in {0, 1}
  BY DEF Owed
<1>5. \A y \in Watched : Looming(y)' => Looming(y)
  BY <1>1, <1>3 DEF Looming
<1>6. \A y \in Watched : Owed(y)' <= Owed(y)
  BY <1>5 DEF Owed
<1>7. ASSUME Tampered
      PROVE  \E y \in Watched : Owed(y) = 1 /\ Owed(y)' = 0
  <2>1. PICK y \in Watched : ~answer[y] /\ lastOK[y]
    BY <1>7 DEF Tampered
  <2>2. Looming(y) /\ ~Looming(y)'
    BY <1>1, <1>3, <2>1 DEF Looming
  <2> QED BY <2>2 DEF Owed
<1>8. Watched = {"dns", "proxy"}
  BY DEF Watched
<1>9. detections' + Owed("dns")' + Owed("proxy")' <= tamperings' + tamperTrouble'
  <2>1. CASE Tampered
    <3>1. Owed("dns")' + Owed("proxy")' + 1 <= Owed("dns") + Owed("proxy")
      BY <1>4, <1>6, <1>7, <1>8, <2>1
    <3> QED BY <1>1, <1>4, <1>8, <2>1, <3>1 DEF TamperTypeOK
  <2>2. CASE ~Tampered
    BY <1>1, <1>4, <1>6, <1>8, <2>2 DEF TamperTypeOK
  <2> QED BY <2>1, <2>2
<1> QED BY <1>1, <1>2, <1>9

\* Every step keeps the invariant.
LEMMA TamperInvariance == TamperSpec => []TamperInv
<1>1. ASSUME TamperInv, [TamperNext]_tamperVars PROVE TamperInv'
  <2>1. CASE UNCHANGED tamperVars
    BY <1>1, <2>1 DEF tamperVars, TamperInv, TamperTypeOK, Owed, Looming, Asked
  <2>2. CASE TamperNext
    BY <1>1, <2>2, SettingKeeps, LookBeginsKeeps, AsksKeeps, LookEndsKeeps DEF TamperNext
  <2> QED BY <1>1, <2>1, <2>2
<1> QED BY TamperInitInv, <1>1, PTL DEF TamperSpec

\* The variables of the tamper detector keep their types.
THEOREM TamperTypeCorrect == TamperSpec => []TamperTypeOK
BY TamperInvariance, PTL DEF TamperInv

\* Every detection goes back to a change or a failure of its own.
THEOREM Warranted == TamperSpec => []DetectionsWarranted
<1>1. TamperInv => DetectionsWarranted
  <2> SUFFICES ASSUME TamperInv PROVE DetectionsWarranted
    OBVIOUS
  <2>1. Owed("dns") \in {0, 1} /\ Owed("proxy") \in {0, 1}
    BY DEF Owed
  <2> QED BY <2>1 DEF TamperInv, TamperTypeOK, DetectionsWarranted
<1> QED BY TamperInvariance, <1>1, PTL
=============================================================================
