------------------------------- MODULE ScanClient -------------------------------
(***************************************************************************)
(* The browser extension's question to the agent (extension/src/content    *)
(* and extension/src/background): an interceptor holds what the user does  *)
(* back and asks the service worker, which asks the native host, then the  *)
(* agent's HTTP interface; when the worker gives no answer at all, the     *)
(* content script asks the agent itself.  No verdict means "let it go".    *)
(*                                                                         *)
(* A network request is held by the bridge in the page's own world, with a *)
(* timer; pastes, drops and form submissions are held by the content       *)
(* script, without one; the clipboard monitor holds nothing.               *)
(***************************************************************************)
EXTENDS Naturals, Sequences

CONSTANTS
    WebRequest,       \* fetch and XHR bodies that are long enough to be scanned
    Edit,             \* pastes, drops and form submissions
    Clip,             \* clipboard contents the monitor reads
    Secret,           \* what the agent blocks
    MaxScanTrouble    \* bound on transports failing and processes ending

Scan == WebRequest \cup Edit \cup Clip

ASSUME ScanAssumption == Secret \subseteq Scan /\ MaxScanTrouble \in Nat

VARIABLES
    fate,            \* fate[s]: what has become of the user's action
    asking,          \* asking[s]: whom the content script waits for
    working,         \* working[s]: whom the service worker waits for
    port,            \* port and portUnsupported
    pending,         \* the worker's open questions to the host, by id
    hostQueue,       \* questions the native host has not answered
    toasted,         \* "Prompt Gate blocked this ..." has been shown
    scanTrouble,
    \* History variables:
    expired,         \* requests the bridge let go on its timer
    unanswered       \* scans whose last transport has failed

worker == <<working, port, pending, hostQueue>>
scanVars == <<fate, asking, worker, toasted, scanTrouble, expired, unanswered>>

ScanTypeOK ==
    /\ fate \in [Scan -> {"none", "held", "let go", "stopped"}]
    /\ asking \in [Scan -> {"no", "worker", "agent", "done"}]
    /\ working \in [Scan -> {"no", "native", "http", "done"}]
    /\ port \in {"none", "open", "unsupported"}
    /\ pending \subseteq Scan
    /\ hostQueue \in Seq(Scan)
    /\ toasted \subseteq Scan
    /\ scanTrouble \in 0..MaxScanTrouble
    /\ expired \subseteq WebRequest
    /\ unanswered \subseteq Scan

ScanInit ==
    /\ fate = [s \in Scan |-> "none"]
    /\ asking = [s \in Scan |-> "no"]
    /\ working = [s \in Scan |-> "no"]
    /\ port = "none" /\ pending = {} /\ hostQueue = <<>>
    /\ toasted = {} /\ scanTrouble = 0 /\ expired = {} /\ unanswered = {}

ScanTrouble == scanTrouble < MaxScanTrouble /\ scanTrouble' = scanTrouble + 1

-----------------------------------------------------------------------------
(* The content scripts                                                     *)

\* requestScan, onPaste, onDrop, handleSubmit, maybeScanClipboard.
Intercept(s) ==
    /\ asking[s] = "no"
    /\ fate' = [fate EXCEPT ![s] = IF s \in Clip THEN "none" ELSE "held"]
    /\ asking' = [asking EXCEPT ![s] = "worker"]
    /\ UNCHANGED <<worker, toasted, scanTrouble, expired, unanswered>>

\* The content script has its result: a toast when it blocks, and the end of
\* the wait, which the bridge may have ended already.
Learn(s, blocked) ==
    /\ asking' = [asking EXCEPT ![s] = "done"]
    /\ toasted' = IF blocked THEN toasted \cup {s} ELSE toasted
    /\ fate' = [fate EXCEPT ![s] = IF @ # "held" THEN @
                                   ELSE IF blocked THEN "stopped" ELSE "let go"]

\* The bridge falls open.
BridgeTimesOut(s) ==
    /\ s \in WebRequest /\ fate[s] = "held"
    /\ fate' = [fate EXCEPT ![s] = "let go"]
    /\ expired' = expired \cup {s}
    /\ UNCHANGED <<asking, worker, toasted, scanTrouble, unanswered>>

\* No service worker to take the message.
WorkerMissing(s) ==
    /\ asking[s] = "worker" /\ working[s] = "no"
    /\ ScanTrouble
    /\ asking' = [asking EXCEPT ![s] = "agent"]
    /\ UNCHANGED <<fate, worker, toasted, expired, unanswered>>

\* scanViaHTTP of the content script.
AgentTells(s) ==
    /\ asking[s] = "agent"
    /\ Learn(s, s \in Secret)
    /\ UNCHANGED <<worker, scanTrouble, expired, unanswered>>

\* It is refused, or SCAN_TIMEOUT_MS has passed.
AgentSilent(s) ==
    /\ asking[s] = "agent"
    /\ Learn(s, FALSE)
    /\ unanswered' = unanswered \cup {s}
    /\ UNCHANGED <<worker, scanTrouble, expired>>

-----------------------------------------------------------------------------
(* The service worker                                                      *)

\* handleScan: ensurePort and postMessage ...
AskHost(s) ==
    /\ asking[s] = "worker" /\ working[s] = "no"
    /\ port # "unsupported"
    /\ port' = "open"
    /\ pending' = pending \cup {s}
    /\ hostQueue' = Append(hostQueue, s)
    /\ working' = [working EXCEPT ![s] = "native"]
    /\ UNCHANGED <<fate, asking, toasted, scanTrouble, expired, unanswered>>

\* ... or connectNative is missing or throws, or postMessage throws.
NoHost(s) ==
    /\ asking[s] = "worker" /\ working[s] = "no"
    /\ \/ port = "unsupported" /\ UNCHANGED <<port, scanTrouble>>
       \/ port = "none" /\ port' = "unsupported" /\ ScanTrouble
       \/ port = "open" /\ port' = port /\ ScanTrouble
    /\ working' = [working EXCEPT ![s] = "http"]
    /\ UNCHANGED <<fate, asking, pending, hostQueue, toasted, expired, unanswered>>

\* Mutant: answers are taken in the order of the questions still open.
FirstOpen(s) ==
    IF pending = {} THEN {}
    ELSE {hostQueue[CHOOSE i \in DOMAIN hostQueue :
              hostQueue[i] \in pending /\ \A j \in 1..(i - 1) : hostQueue[j] \notin pending]}

\* The open question an answer with this id belongs to.
Addressee(s) == {s} \cap pending

\* The host reads one message, scans and answers, and the worker hands the
\* result on; an answer to a question given up is ignored.
HostAnswers ==
    /\ hostQueue # <<>>
    /\ LET s == Head(hostQueue) IN
       IF Addressee(s) = {}
       THEN UNCHANGED <<working, pending, fate, asking, toasted>>
       ELSE \E q \in Addressee(s) :
                /\ pending' = pending \ {q}
                /\ working' = [working EXCEPT ![q] = "done"]
                /\ Learn(q, s \in Secret)
    /\ hostQueue' = Tail(hostQueue)
    /\ UNCHANGED <<port, scanTrouble, expired, unanswered>>

\* What the worker does with questions the host will not answer.
GiveUp(S) == working' = [s \in Scan |-> IF s \in S THEN "http" ELSE working[s]]

NativeTimesOut(s) ==
    /\ s \in pending
    /\ pending' = pending \ {s}
    /\ GiveUp({s})
    /\ UNCHANGED <<port, hostQueue, fate, asking, toasted, scanTrouble, expired, unanswered>>

\* Mutant: onDisconnect clears the timers and forgets who waits.
HostEndsSilently ==
    /\ port = "open" /\ ScanTrouble
    /\ port' = "none" /\ pending' = {} /\ hostQueue' = <<>>
    /\ UNCHANGED <<working, fate, asking, toasted, expired, unanswered>>

\* The host ends, was never installed, or met a message over its limit:
\* onDisconnect.
HostEnds ==
    /\ port = "open" /\ ScanTrouble
    /\ port' = "none" /\ pending' = {} /\ hostQueue' = <<>>
    /\ GiveUp(pending)
    /\ UNCHANGED <<fate, asking, toasted, expired, unanswered>>

\* scanViaHTTP of the worker: this fetch has no timeout.
FetchAnswers(s) ==
    /\ working[s] = "http"
    /\ working' = [working EXCEPT ![s] = "done"]
    /\ Learn(s, s \in Secret)
    /\ UNCHANGED <<port, pending, hostQueue, scanTrouble, expired, unanswered>>

FetchFails(s) ==
    /\ working[s] = "http" /\ ScanTrouble
    /\ working' = [working EXCEPT ![s] = "done"]
    /\ Learn(s, FALSE)
    /\ unanswered' = unanswered \cup {s}
    /\ UNCHANGED <<port, pending, hostQueue, expired>>

\* The browser stops the worker: its memory and its port are gone, and every
\* message without a reply fails at the sender.
WorkerStops ==
    /\ ScanTrouble
    /\ port' = "none" /\ pending' = {} /\ hostQueue' = <<>>
    /\ working' = [s \in Scan |-> IF working[s] = "no" THEN "no" ELSE "done"]
    /\ asking' = [s \in Scan |-> IF working[s] \in {"native", "http"} THEN "agent" ELSE asking[s]]
    /\ UNCHANGED <<fate, toasted, expired, unanswered>>

-----------------------------------------------------------------------------
ScanStep(s) ==
    \/ Intercept(s) \/ BridgeTimesOut(s) \/ WorkerMissing(s) \/ AgentTells(s) \/ AgentSilent(s)
    \/ AskHost(s) \/ NoHost(s) \/ NativeTimesOut(s) \/ FetchAnswers(s) \/ FetchFails(s)

ScanNext == (\E s \in Scan : ScanStep(s)) \/ HostAnswers \/ HostEnds \/ WorkerStops

\* Timers fire and messages to the worker are taken; nothing makes the host or
\* the agent answer.
ScanFairness ==
    \A s \in Scan :
        /\ WF_scanVars(BridgeTimesOut(s))
        /\ WF_scanVars(NativeTimesOut(s))
        /\ WF_scanVars(AgentSilent(s))
        /\ WF_scanVars(AskHost(s) \/ NoHost(s) \/ WorkerMissing(s))

ScanSpec == ScanInit /\ [][ScanNext]_scanVars
FairScanSpec == ScanSpec /\ ScanFairness

-----------------------------------------------------------------------------
(* Properties                                                              *)

\* A secret leaves the page only because the bridge's timer fired or because
\* the transport that was asked last failed for this very scan: no answer, no
\* disconnect and no restart of another scan lets it go.
LeakOnlyOnFailure ==
    \A s \in Secret : fate[s] = "let go" => s \in expired \cup unanswered

\* Whatever the user does goes on or is stopped, unless it waits for the
\* worker's fetch: every other wait has a timer or an end.
WaitsOnlyForFetch ==
    \A s \in Scan : fate[s] = "held" ~> (fate[s] # "held" \/ working[s] = "http")

\* An interceptor never keeps the user waiting for ever ("if the agent doesn't
\* answer within this budget we fall open").  NOT TRUE of pastes, drops and
\* forms while the worker's fetch has no answer.
EditsSettle == \A s \in Edit : fate[s] = "held" ~> fate[s] # "held"
=============================================================================
