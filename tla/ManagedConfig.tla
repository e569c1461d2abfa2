----------------------------- MODULE ManagedConfig -----------------------------
(***************************************************************************)
(* The configuration an enterprise profile manages: the dlp_config row and *)
(* the category_policies table, their live copies in the DLP pipeline      *)
(* (DLPScan) and in the policy engine, the profile that locks them         *)
(* (agent/internal/profile), the handlers that change them                 *)
(* (agent/internal/api) and the start of the agent (cmd/agent).            *)
(*                                                                         *)
(* A profile reaches the agent at its start, by a refresh and by an        *)
(* import.  Applying it takes one step for every write and every setter,   *)
(* any write may fail, and the lock is taken last.  PolicyEngine has the   *)
(* steps of a Reload; here it is one.                                      *)
(***************************************************************************)
EXTENDS DLPScan

CONSTANTS
    Api,         \* goroutines serving requests
    Main,        \* main.run, then the refresher's goroutine
    Casts,       \* which goroutines are active together, one set for a behaviour
    Category,
    Action,      \* what a policy says of a category
    Default,     \* the action of every category on a fresh install
    Profiles,    \* the profiles there are
    Keep,        \* what a profile says of a knob that it leaves alone
    NoProfile,
    InitialThresholds,
    InitialWeights,
    MaxTrouble   \* bound on requests, publications, failures and restarts

Rows == [thresholds : Thresholds, weights : Weights]
\* What a profile that Parse accepts, or a request, sets policies to.
Pins == UNION {[C -> Action] : C \in SUBSET Category}

ASSUME ActorAssumption == Setter = Api \cup {Main} /\ Main \notin Api
ASSUME DefaultAssumption ==
    /\ Default \in Action
    /\ InitialThresholds \in Thresholds
    /\ InitialWeights \in Weights
ASSUME ProfilesAssumption ==
    /\ Keep \notin Thresholds \cup Weights
    /\ NoProfile \notin Profiles
    /\ Profiles # {}
    /\ Profiles \subseteq [managed : BOOLEAN, policies : Pins,
                           thresholds : Thresholds \cup {Keep},
                           weights : Weights \cup {Keep}]
ASSUME CastsAssumption == Casts \subseteq SUBSET (Api \cup {Main} \cup Scanner)
ASSUME TroubleAssumption == MaxTrouble \in Nat

VARIABLES
    row,        \* dlp_config
    table,      \* category_policies
    engine,     \* Engine.categories
    holder,     \* Holder.current
    published,  \* the profile profile_url serves
    etag,       \* the profile whose validators the refresher remembers
    starting,   \* the API does not listen yet
    pc,         \* where each goroutine is
    job,        \* the profile it applies, if it applies one
    todo,       \* the categories it has still to write
    cur,        \* the row it writes
    cast,       \* the active goroutines
    trouble,    \* how much more trouble comes
    \* History variables:
    alone,      \* alone[p]: no other operation since p's began
    baseline,   \* the managed profile that was applied alone, if it still rules
    mixed       \* two updates of the DLP configuration overlapped

tables == <<row, table, engine>>
fleet == <<holder, published, etag, starting>>
locals == <<job, todo, cur>>
history == <<alone, baseline, mixed>>
vars == <<pipeline, tables, fleet, pc, locals, cast, trouble, history>>

Nothing == [c \in {} |-> Default]
PC == {"idle", "load", "policies", "readRow", "writeRow", "thresholds", "weights",
       "rebuild", "reset", "reload", "hold"}
\* Where an operation has persisted a row that is not live yet.
Window == {"thresholds", "weights"}

TypeOK ==
    /\ ScanTypeOK
    /\ row \in Rows
    /\ table \in [Category -> Action]
    /\ engine \in [Category -> Action]
    /\ holder \in Profiles \cup {NoProfile}
    /\ published \in Profiles
    /\ etag \in Profiles \cup {NoProfile}
    /\ starting \in BOOLEAN
    /\ pc \in [Setter -> PC]
    /\ job \in [Setter -> Profiles \cup {NoProfile}]
    /\ todo \in [Setter -> Pins]
    /\ cur \in [Setter -> Rows]
    /\ cast \in Casts
    /\ trouble \in 0..MaxTrouble
    /\ alone \in [Setter -> BOOLEAN]
    /\ baseline \in Profiles \cup {NoProfile}
    /\ mixed \in BOOLEAN

InitialRow == [thresholds |-> InitialThresholds, weights |-> InitialWeights]

\* A fresh install, before loadProfileOnStartup.
Init ==
    /\ row = InitialRow
    /\ table = [c \in Category |-> Default]
    /\ engine = table
    /\ \E a \in PatternSet : ScanInit(row.thresholds, row.weights, a)
    /\ holder = NoProfile
    /\ published \in Profiles
    /\ etag = NoProfile
    /\ starting = TRUE
    /\ pc = [p \in Setter |-> IF p = Main THEN "load" ELSE "idle"]
    /\ job = [p \in Setter |-> NoProfile]
    /\ todo = [p \in Setter |-> Nothing]
    /\ cur = [p \in Setter |-> InitialRow]
    /\ cast \in Casts
    /\ trouble = MaxTrouble
    /\ alone = [p \in Setter |-> p = Main]
    /\ baseline = NoProfile
    /\ mixed = FALSE

-----------------------------------------------------------------------------
Goto(p, s) == pc' = [pc EXCEPT ![p] = s]
Trouble == trouble > 0 /\ trouble' = trouble - 1

Locked == holder # NoProfile /\ holder.managed

\* The operation of p is over; its variables are no more.
Done(p) ==
    /\ Goto(p, "idle")
    /\ job' = [job EXCEPT ![p] = NoProfile]
    /\ todo' = [todo EXCEPT ![p] = Nothing]
    /\ cur' = [cur EXCEPT ![p] = InitialRow]
    /\ alone' = [alone EXCEPT ![p] = FALSE]
    /\ starting' = (starting /\ p # Main)

\* An operation of p begins at s.
Begin(p, s) ==
    /\ pc[p] = "idle"
    /\ ~starting
    /\ p \in cast
    /\ Goto(p, s)
    /\ alone' = [q \in Setter |-> q = p /\ \A r \in Setter : pc[r] = "idle"]
    /\ UNCHANGED <<pipeline, tables, holder, published, starting, cast, mixed>>

\* A request of the API.
Request(p, s) == p \in Api /\ Trouble /\ Begin(p, s) /\ UNCHANGED etag

\* Mutant: the lock is not asked.
PutConfigUnlocked(p, r) ==
    /\ Request(p, "writeRow")
    /\ cur' = [cur EXCEPT ![p] = r]
    /\ UNCHANGED <<job, todo, baseline>>

\* PUT /api/dlp/config
PutConfig(p, r) ==
    /\ ~Locked
    /\ Request(p, "writeRow")
    /\ cur' = [cur EXCEPT ![p] = r]
    /\ UNCHANGED <<job, todo, baseline>>

\* PUT /api/policies/:category, POST /api/protection-plan
PutPolicies(p, w) ==
    /\ ~Locked
    /\ Request(p, "policies")
    /\ todo' = [todo EXCEPT ![p] = w]
    /\ UNCHANGED <<job, cur, baseline>>

\* POST /api/rules/update: the callback that rebuilds the pipeline.
UpdateRules(p) == Request(p, "rebuild") /\ UNCHANGED <<locals, baseline>>

\* Apply begins: what ruled so far may be replaced step by step.
ApplyBegins(p, q) ==
    /\ job' = [job EXCEPT ![p] = q]
    /\ todo' = [todo EXCEPT ![p] = q.policies]
    /\ baseline' = NoProfile
    /\ UNCHANGED cur

\* POST /api/profile/import, of an inline profile or of one that was fetched.
Import(p, q) == Request(p, "policies") /\ ApplyBegins(p, q)

\* LoadFromURLConditional: 200 with another profile, and not 304.
Modified == etag # published

\* Mutant: the lock keeps the refresher out too.
RefreshUnlocked ==
    /\ Modified
    /\ ~Locked
    /\ Begin(Main, "policies")
    /\ etag' = published
    /\ ApplyBegins(Main, published)
    /\ UNCHANGED trouble

\* checkOnce: the validators are remembered, then the profile is applied.  A
\* poll that answers 304 changes nothing.
Refresh ==
    /\ Modified
    /\ Begin(Main, "policies")
    /\ etag' = published
    /\ ApplyBegins(Main, published)
    /\ UNCHANGED trouble

\* loadProfileOnStartup, which remembers no validators, and its failure.
Load ==
    /\ pc[Main] = "load"
    /\ Goto(Main, "policies")
    /\ ApplyBegins(Main, published)
    /\ UNCHANGED <<pipeline, tables, fleet, cast, trouble, alone, mixed>>

LoadFails ==
    /\ pc[Main] = "load"
    /\ Trouble
    /\ Done(Main)
    /\ UNCHANGED <<pipeline, tables, holder, published, etag, cast, baseline, mixed>>

-----------------------------------------------------------------------------
(* The steps of an operation                                               *)

\* SetPolicy of one category, in the order of the profile's map.
SetPolicy(p, c) ==
    /\ pc[p] = "policies"
    /\ c \in DOMAIN todo[p]
    /\ table' = [table EXCEPT ![c] = todo[p][c]]
    /\ todo' = [todo EXCEPT ![p] = [x \in DOMAIN @ \ {c} |-> @[x]]]
    /\ UNCHANGED <<pipeline, row, engine, fleet, pc, job, cur, cast, trouble, history>>

PinsRow(q) == q # NoProfile /\ (q.thresholds # Keep \/ q.weights # Keep)

PoliciesSet(p) ==
    /\ pc[p] = "policies"
    /\ todo[p] = Nothing
    /\ Goto(p, IF PinsRow(job[p]) THEN "readRow" ELSE "reload")
    /\ UNCHANGED <<pipeline, tables, fleet, locals, cast, trouble, history>>

Pinned(knob, old) == IF knob = Keep THEN old ELSE knob

\* mergeDLP
Merge(q, r) ==
    [thresholds |-> Pinned(q.thresholds, r.thresholds),
     weights    |-> Pinned(q.weights, r.weights)]

ReadRow(p) ==
    /\ pc[p] = "readRow"
    /\ cur' = [cur EXCEPT ![p] = Merge(job[p], row)]
    /\ Goto(p, "writeRow")
    /\ UNCHANGED <<pipeline, tables, fleet, job, todo, cast, trouble, history>>

WriteRow(p) ==
    /\ pc[p] = "writeRow"
    /\ row' = cur[p]
    /\ mixed' = \E q \in Setter : pc[q] \in Window
    /\ Goto(p, "thresholds")
    /\ UNCHANGED <<pipeline, table, engine, fleet, locals, cast, trouble, alone, baseline>>

\* applyLiveDLP and the sink of profileApplyOptions: two setters.
LiveThresholds(p) ==
    /\ pc[p] = "thresholds"
    /\ SetThresholds(p, cur[p].thresholds)
    /\ Goto(p, "weights")
    /\ UNCHANGED <<tables, fleet, locals, cast, trouble, history>>

\* Mutant: the weights wait for the next start of the agent.
LiveWeightsLater(p) ==
    /\ pc[p] = "weights"
    /\ SetWeights(p, weights)
    /\ Goto(p, "reset")
    /\ UNCHANGED <<tables, fleet, locals, cast, trouble, history>>

LiveWeights(p) ==
    /\ pc[p] = "weights"
    /\ SetWeights(p, cur[p].weights)
    /\ Goto(p, "reset")
    /\ UNCHANGED <<tables, fleet, locals, cast, trouble, history>>

LivePatterns(p) ==
    /\ pc[p] = "rebuild"
    /\ \E a \in PatternSet : Rebuild(p, a)
    /\ Goto(p, "reset")
    /\ UNCHANGED <<tables, fleet, locals, cast, trouble, history>>

\* The end of SetWeights and of Rebuild; applying a profile goes on.
Reset(p) ==
    /\ pc[p] = "reset"
    /\ ResetCache(p)
    /\ IF job[p] = NoProfile
       THEN Done(p)
       ELSE Goto(p, "reload") /\ UNCHANGED <<locals, alone, starting>>
    /\ UNCHANGED <<tables, holder, published, etag, cast, trouble, baseline, mixed>>

\* Engine.Reload
Reload(p) ==
    /\ pc[p] = "reload"
    /\ engine' = table
    /\ IF job[p] = NoProfile
       THEN Done(p)
       ELSE Goto(p, "hold") /\ UNCHANGED <<locals, alone, starting>>
    /\ UNCHANGED <<pipeline, row, table, holder, published, etag, cast, trouble,
                   baseline, mixed>>

\* Holder.Set: from here on the profile locks the configuration.
Hold(p) ==
    /\ pc[p] = "hold"
    /\ holder' = job[p]
    /\ baseline' = IF alone[p] /\ job[p].managed THEN job[p] ELSE NoProfile
    /\ Done(p)
    /\ UNCHANGED <<pipeline, tables, published, etag, cast, trouble, mixed>>

\* A query, an upsert or the Reload fails: the operation returns the error and
\* undoes nothing.
Fail(p) ==
    /\ Trouble
    /\ \/ pc[p] = "policies" /\ todo[p] # Nothing
       \/ pc[p] \in {"readRow", "writeRow", "reload"}
    /\ Done(p)
    /\ UNCHANGED <<pipeline, tables, holder, published, etag, cast, baseline, mixed>>

-----------------------------------------------------------------------------
(* The surroundings                                                        *)

Publish ==
    /\ Trouble
    /\ published' \in Profiles
    /\ UNCHANGED <<pipeline, tables, holder, etag, starting, pc, locals, cast, history>>

\* The agent dies at any moment; the next one builds everything from SQLite.
Restart ==
    /\ Trouble
    /\ Fresh(row.thresholds, row.weights, patterns)
    /\ engine' = table
    /\ holder' = NoProfile
    /\ etag' = NoProfile
    /\ starting' = TRUE
    /\ pc' = [p \in Setter |-> IF p = Main THEN "load" ELSE "idle"]
    /\ job' = [p \in Setter |-> NoProfile]
    /\ todo' = [p \in Setter |-> Nothing]
    /\ cur' = [p \in Setter |-> InitialRow]
    /\ alone' = [p \in Setter |-> p = Main]
    /\ baseline' = NoProfile
    /\ mixed' = FALSE
    /\ UNCHANGED <<caching, row, table, published, cast>>

-----------------------------------------------------------------------------
Asks(p) ==
    \/ \E r \in Rows : PutConfig(p, r)
    \/ \E w \in Pins \ {Nothing} : PutPolicies(p, w)
    \/ \E q \in Profiles : Import(p, q)
    \/ UpdateRules(p)

Advance(p) ==
    \/ \E c \in Category : SetPolicy(p, c)
    \/ PoliciesSet(p) \/ ReadRow(p) \/ WriteRow(p)
    \/ LiveThresholds(p) \/ LiveWeights(p) \/ LivePatterns(p) \/ Reset(p)
    \/ Reload(p) \/ Hold(p)

others == <<tables, fleet, pc, locals, cast, trouble, history>>

\* Scans are served once the API listens.
Scanning(s) ==
    /\ ~starting
    /\ s \in cast
    /\ ScanBegin(s) \/ ScanStep(s)
    /\ UNCHANGED others

Expiry == Expire /\ UNCHANGED others

Next ==
    \/ \E p \in Api : Asks(p)
    \/ \E p \in Setter : Advance(p) \/ Fail(p)
    \/ Load \/ LoadFails \/ Refresh
    \/ \E s \in Scanner : Scanning(s)
    \/ Expiry \/ Publish \/ Restart

Spec == Init /\ [][Next]_vars

\* Goroutines that can go on do, the refresher's ticker ticks, and a cached
\* verdict expires.
Fairness ==
    /\ \A p \in Setter : WF_vars(Advance(p))
    /\ WF_vars(Load) /\ WF_vars(Refresh)
    /\ \A s \in Scanner : WF_vars(ScanStep(s) /\ UNCHANGED others)
    /\ WF_vars(Expiry)

FairSpec == Spec /\ Fairness

-----------------------------------------------------------------------------
(* Properties                                                              *)

\* What profile q says holds, in the database and in what is live.
Rules(q) ==
    /\ \A c \in DOMAIN q.policies : {table[c], engine[c]} = {q.policies[c]}
    /\ q.thresholds # Keep => {row.thresholds, thresholds} = {q.thresholds}
    /\ q.weights # Keep => {row.weights, weights} = {q.weights}

\* While a managed profile that was applied without interference is active,
\* "end users cannot drift the device away from the central baseline": no
\* request, in whatever order its steps come, changes what the profile says.
BaselineKept == baseline # NoProfile => Rules(baseline)

\* The live thresholds and weights "stay in sync with what's persisted", over
\* failures and partial applications, unless two updates overlapped; the next
\* update that none overlaps heals even that.
DLPInSync ==
    (~mixed /\ \A p \in Setter : pc[p] \notin Window)
        => row = [thresholds |-> thresholds, weights |-> weights]

\* A profile the refresher has not fetched when things calm down is applied.
UnfetchedApplied ==
    (trouble = 0 /\ Main \in cast /\ etag # published) ~> (holder = published)

\* Once nothing changes any more stale verdicts are gone for good.
StaleVerdictsExpire == (trouble = 0) ~> [](cache \in {NoEntry, Current})
=============================================================================
