------------------------------ MODULE BlockHistory ------------------------------
(***************************************************************************)
(* The history of blocked requests (store/store.go: block_events), kept    *)
(* only while the user agrees to it.                                       *)
(*                                                                         *)
(* A request of the proxy that is refused leaves a goroutine behind, which *)
(* asks for the consent, inserts and trims: three statements that nothing  *)
(* holds together.  The settings page gives and withdraws the consent and  *)
(* clears the history between any two of them.                             *)
(***************************************************************************)
EXTENDS Naturals, FiniteSets

CONSTANTS
    Recorder,        \* goroutines of refused requests
    MaxEvents,       \* rows the trim leaves (500)
    MaxEventTrouble  \* bound on failures

ASSUME HistoryAssumption ==
    IsFiniteSet(Recorder) /\ MaxEvents \in Nat \ {0} /\ MaxEventTrouble \in Nat

VARIABLES
    consent,       \* agent_preferences.block_events_enabled
    events,        \* number of rows
    recorder,      \* what each goroutine does next
    eventTrouble,
    \* History variables:
    untrimmed,     \* trims that have failed since the last one
    wiped,         \* the history was cleared after the consent was withdrawn
    stragglers     \* goroutines that were about to insert then

historyVars == <<consent, events, recorder, eventTrouble, untrimmed, wiped, stragglers>>

HistoryTypeOK ==
    /\ consent \in BOOLEAN
    /\ events \in Nat
    /\ recorder \in [Recorder -> {"idle", "insert", "trim"}]
    /\ eventTrouble \in 0..MaxEventTrouble
    /\ untrimmed \in Nat
    /\ wiped \in BOOLEAN
    /\ stragglers \subseteq Recorder

HistoryInit ==
    /\ consent = FALSE /\ events = 0
    /\ recorder = [r \in Recorder |-> "idle"]
    /\ eventTrouble = 0 /\ untrimmed = 0
    /\ wiped = TRUE /\ stragglers = {}

EventTrouble == eventTrouble < MaxEventTrouble /\ eventTrouble' = eventTrouble + 1

RecorderGoes(r, next) == recorder' = [recorder EXCEPT ![r] = next]

-----------------------------------------------------------------------------
\* Mutant: the consent is not asked.
AlwaysRecords(r) ==
    /\ recorder[r] = "idle"
    /\ RecorderGoes(r, "insert")
    /\ UNCHANGED <<consent, events, eventTrouble, untrimmed, wiped, stragglers>>

\* InsertBlockEvent: blockEventsEnabled.  Without consent, or when it cannot be
\* read, nothing happens.
AsksConsent(r) ==
    /\ recorder[r] = "idle"
    /\ consent
    /\ RecorderGoes(r, "insert")
    /\ UNCHANGED <<consent, events, eventTrouble, untrimmed, wiped, stragglers>>

\* The insert; it fails when the request's context has ended by now.
Inserts(r) ==
    /\ recorder[r] = "insert"
    /\ \/ events' = events + 1 /\ RecorderGoes(r, "trim") /\ UNCHANGED eventTrouble
       \/ EventTrouble /\ RecorderGoes(r, "idle") /\ UNCHANGED events
    /\ UNCHANGED <<consent, untrimmed, wiped, stragglers>>

Trimmed == IF events > MaxEvents THEN MaxEvents ELSE events

\* The trim, whose failure is ignored.
Trims(r) ==
    /\ recorder[r] = "trim"
    /\ RecorderGoes(r, "idle")
    /\ \/ events' = Trimmed /\ untrimmed' = 0 /\ UNCHANGED eventTrouble
       \/ EventTrouble /\ untrimmed' = untrimmed + 1 /\ UNCHANGED events
    /\ UNCHANGED <<consent, wiped, stragglers>>

\* SetBlockEventsEnabled; a goroutine that has been let in is not called back.
Consents ==
    /\ consent' = TRUE /\ wiped' = FALSE
    /\ UNCHANGED <<events, recorder, eventTrouble, untrimmed, stragglers>>

Withdraws ==
    /\ consent /\ consent' = FALSE
    /\ UNCHANGED <<events, recorder, eventTrouble, untrimmed, wiped, stragglers>>

\* ClearBlockEvents.
Clears ==
    /\ events' = 0
    /\ untrimmed' = 0
    /\ wiped' = ~consent
    /\ stragglers' = {r \in Recorder : recorder[r] = "insert"}
    /\ UNCHANGED <<consent, recorder, eventTrouble>>

\* The process ends between two statements; the table and the flag stay.
HistoryCrash ==
    /\ EventTrouble
    /\ recorder' = [r \in Recorder |-> "idle"]
    /\ untrimmed' = untrimmed + Cardinality({r \in Recorder : recorder[r] = "trim"})
    /\ UNCHANGED <<consent, events, wiped, stragglers>>

HistoryNext ==
    \/ \E r \in Recorder : AsksConsent(r) \/ Inserts(r) \/ Trims(r)
    \/ Consents \/ Withdraws \/ Clears \/ HistoryCrash

HistorySpec == HistoryInit /\ [][HistoryNext]_historyVars

-----------------------------------------------------------------------------
(* Properties                                                              *)

\* Goroutines between the insert and the trim.
Trimming == {r \in Recorder : recorder[r] = "trim"}

\* The table exceeds its limit by no more than the rows that are about to be
\* trimmed and those whose trim has failed since a trim succeeded.
HistoryBounded == events <= MaxEvents + Cardinality(Trimming) + untrimmed

\* Once the consent is withdrawn and the history cleared the table stays empty
\* until the user agrees again, whoever is refused meanwhile; only goroutines
\* that had been let in before the clearing can spoil it.
WithdrawalHolds == (wiped /\ stragglers = {}) => events = 0
=============================================================================
