-------------------------------- MODULE Canaries --------------------------------
(***************************************************************************)
(* Planted tripwires (api/canary.go, store/canary.go, dlp/canary.go):      *)
(* the rows of dlp_canaries and the patterns the pipeline looks for.       *)
(*                                                                         *)
(* A request changes the rows, reads them all again and installs what it   *)
(* has read; no lock spans two of these.  A canary is named after the      *)
(* request that creates it.                                                *)
(***************************************************************************)
EXTENDS Naturals, FiniteSets

CONSTANTS
    CanaryRequest,     \* POST and DELETE requests on /api/dlp/canary
    MaxCanaries,       \* maxCanaries
    MaxCanaryTrouble   \* bound on failures and restarts

ASSUME CanaryAssumption ==
    IsFiniteSet(CanaryRequest) /\ MaxCanaries \in Nat /\ MaxCanaryTrouble \in Nat

VARIABLES
    canaries,        \* the rows
    armed,           \* Pipeline.canaryPatterns
    canaryAt,        \* what each request does next
    canaryKnown,     \* canaryKnown[r]: the rows as r has listed them last
    canaryTrouble,
    \* History variables:
    canaryRaced,     \* creates past the check when another one checked
    canaryOverdue    \* the last installed set was out of date, or a refresh has failed

canaryVars == <<canaries, armed, canaryAt, canaryKnown, canaryTrouble, canaryRaced, canaryOverdue>>

CanaryTypeOK ==
    /\ canaries \subseteq CanaryRequest
    /\ armed \subseteq CanaryRequest
    /\ canaryAt \in [CanaryRequest -> {"new", "insert", "list", "install", "done"}]
    /\ canaryKnown \in [CanaryRequest -> SUBSET CanaryRequest]
    /\ canaryTrouble \in 0..MaxCanaryTrouble
    /\ canaryRaced \subseteq CanaryRequest
    /\ canaryOverdue \in BOOLEAN

CanaryInit ==
    /\ canaries = {} /\ armed = {}
    /\ canaryAt = [r \in CanaryRequest |-> "new"]
    /\ canaryKnown = [r \in CanaryRequest |-> {}]
    /\ canaryTrouble = 0 /\ canaryRaced = {} /\ canaryOverdue = FALSE

CanaryGoes(r, next) == canaryAt' = [canaryAt EXCEPT ![r] = next]

CanaryTrouble == canaryTrouble < MaxCanaryTrouble /\ canaryTrouble' = canaryTrouble + 1

BelowLimit(known) == Cardinality(known) < MaxCanaries

-----------------------------------------------------------------------------
\* A locked profile, a bad label, an unknown id.
CanaryRefused(r) ==
    /\ canaryAt[r] = "new"
    /\ CanaryGoes(r, "done")
    /\ UNCHANGED <<canaries, armed, canaryKnown, canaryTrouble, canaryRaced, canaryOverdue>>

\* createCanary: the list and the limit.
CreateChecks(r) ==
    /\ canaryAt[r] = "new"
    /\ IF BelowLimit(canaries) THEN CanaryGoes(r, "insert") ELSE CanaryGoes(r, "done")
    /\ canaryRaced' = canaryRaced \cup
           IF BelowLimit(canaries) THEN {q \in CanaryRequest : canaryAt[q] = "insert"} ELSE {}
    /\ UNCHANGED <<canaries, armed, canaryKnown, canaryTrouble, canaryOverdue>>

CreateInserts(r) ==
    /\ canaryAt[r] = "insert"
    /\ canaries' = canaries \cup {r}
    /\ CanaryGoes(r, "list")
    /\ UNCHANGED <<armed, canaryKnown, canaryTrouble, canaryRaced, canaryOverdue>>

\* Mutant: a delete leaves the pattern set to the next create.
DeleteWithoutRefresh(r) ==
    /\ canaryAt[r] = "new"
    /\ \E c \in canaries : canaries' = canaries \ {c}
    /\ CanaryGoes(r, "done")
    /\ UNCHANGED <<armed, canaryKnown, canaryTrouble, canaryRaced, canaryOverdue>>

\* handleCanaryItem.
DeleteRemoves(r) ==
    /\ canaryAt[r] = "new"
    /\ \E c \in canaries : canaries' = canaries \ {c}
    /\ CanaryGoes(r, "list")
    /\ UNCHANGED <<armed, canaryKnown, canaryTrouble, canaryRaced, canaryOverdue>>

\* refreshCanaryPatterns: the rows ...
RefreshLists(r) ==
    /\ canaryAt[r] = "list"
    /\ canaryKnown' = [canaryKnown EXCEPT ![r] = canaries]
    /\ CanaryGoes(r, "install")
    /\ UNCHANGED <<canaries, armed, canaryTrouble, canaryRaced, canaryOverdue>>

\* ... and SetCanaryPatterns.
RefreshInstalls(r) ==
    /\ canaryAt[r] = "install"
    /\ armed' = canaryKnown[r]
    /\ canaryOverdue' = (canaryKnown[r] # canaries)
    /\ CanaryGoes(r, "done")
    /\ UNCHANGED <<canaries, canaryKnown, canaryTrouble, canaryRaced>>

\* Answered 500: before the change nothing has happened, after it the pattern
\* set stays as it is.
CanaryFails(r) ==
    /\ canaryAt[r] \in {"insert", "list"}
    /\ CanaryTrouble
    /\ CanaryGoes(r, "done")
    /\ canaryOverdue' = (canaryOverdue \/ canaryAt[r] = "list")
    /\ UNCHANGED <<canaries, armed, canaryKnown, canaryRaced>>

\* The agent ends and starts again: loadCanaryPatterns, which may fail.
CanaryRestart ==
    /\ CanaryTrouble
    /\ \/ armed' = canaries /\ canaryOverdue' = FALSE
       \/ armed' = {} /\ canaryOverdue' = TRUE
    /\ canaryAt' = [r \in CanaryRequest |-> IF canaryAt[r] = "new" THEN "new" ELSE "done"]
    /\ UNCHANGED <<canaries, canaryKnown, canaryRaced>>

CanaryStep(r) ==
    \/ CanaryRefused(r) \/ CreateChecks(r) \/ CreateInserts(r) \/ DeleteRemoves(r)
    \/ RefreshLists(r) \/ RefreshInstalls(r) \/ CanaryFails(r)

CanaryNext == (\E r \in CanaryRequest : CanaryStep(r)) \/ CanaryRestart

CanarySpec == CanaryInit /\ [][CanaryNext]_canaryVars

-----------------------------------------------------------------------------
(* Properties                                                              *)

\* Only creates that pass the check before another one has inserted can exceed
\* the limit, and each by no more than its own canary.
LimitHolds == Cardinality(canaries \ canaryRaced) <= MaxCanaries

\* When no request is under way, the pipeline looks for exactly the canaries
\* of the table ("the active tripwires always mirror the persisted set"),
\* unless the refresh that came last had listed the rows before a change or
\* has failed: then every restart and every later refresh puts it right.
TripwiresMirrorRows ==
    ((\A r \in CanaryRequest : canaryAt[r] \in {"new", "done"}) /\ ~canaryOverdue) => armed = canaries
=============================================================================
