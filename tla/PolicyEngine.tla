------------------------------ MODULE PolicyEngine ------------------------------
(***************************************************************************)
(* The policy engine's reload protocol and the requests that change what   *)
(* it is built from (agent/internal/policy, and the handlers of            *)
(* agent/internal/api and cmd/agent that write and then call Reload).      *)
(*                                                                         *)
(* What the engine serves is a pure function of the items a Reload read:   *)
(* the rule files on its source list and the category_policies table.  An  *)
(* item's content is therefore represented by its version, the number of   *)
(* writes it has had; RuleLookup says what a decision makes of a content.  *)
(*                                                                         *)
(* A Reload is not one step: it copies the source list, opens the rule     *)
(* files one after the other, queries the table and only then takes the    *)
(* write lock to swap both maps.  Nothing orders the Reloads of concurrent *)
(* goroutines.                                                             *)
(***************************************************************************)
EXTENDS Integers, Sequences

CONSTANTS
    Proc,       \* goroutines, each performing one operation of the API or the updater
    Main,       \* the goroutine running main.run
    Bundled,    \* the rule files of the configuration, in order
    AllowFile,  \* allow-overrides.txt
    BlockFile,  \* block-overrides.txt
    Policies    \* the category_policies table

Overrides == <<AllowFile, BlockFile>>
BundledFiles == {Bundled[i] : i \in DOMAIN Bundled}
OverrideFiles == {AllowFile, BlockFile}
Files == BundledFiles \cup OverrideFiles
Item == Files \cup {Policies}
Actor == Proc \cup {Main}

ASSUME ProcAssumption == Main \notin Proc
ASSUME ItemAssumption ==
    /\ Bundled \in Seq(BundledFiles)
    /\ Policies \notin Files
    /\ BundledFiles \cap OverrideFiles = {}
    /\ AllowFile # BlockFile

\* The version of an item the live snapshot was built without.
Unread == -1
Version == Nat \cup {Unread}

VARIABLES
    ver,      \* ver[x]: version of x on disk or in SQLite
    sources,  \* Engine.sources, the files the next Reload consults
    live,     \* live[x]: version of x in Engine.lookup / Engine.categories
    pc,       \* where each goroutine is in its operation
    todo,     \* the writes its operation still has to make, in order
    srcs,     \* the source list its Reload copied
    next,     \* index in srcs of the next file its Reload opens
    got,      \* the versions its Reload has read
    ovLock,   \* OverrideStore.mu: the goroutine holding it, if any
    \* History variables:
    wrote,    \* wrote[p][x]: version p's own last write gave x
    began,    \* began[p]: ver when p's Reload began
    liveBegan \* ver when the Reload that installed the live snapshot began

code == <<ver, sources, live, pc, todo, srcs, next, got, ovLock>>
history == <<wrote, began, liveBegan>>
vars == <<code, history>>

NoOne == "nobody"
PC == {"idle", "setSources", "lock", "write", "reload", "read", "install",
       "ok", "error"}

\* The snapshot a Reload over the files of s installs when it reads w.
SnapshotOf(s, w) ==
    [x \in Item |-> IF x = Policies \/ \E i \in DOMAIN s : s[i] = x
                    THEN w[x] ELSE Unread]

TypeOK ==
    /\ ver \in [Item -> Nat]
    /\ sources \in Seq(Files)
    /\ live \in [Item -> Version]
    /\ pc \in [Actor -> PC]
    /\ todo \in [Actor -> Seq(Item)]
    /\ srcs \in [Actor -> Seq(Files)]
    /\ next \in [Actor -> Nat \ {0}]
    /\ got \in [Actor -> [Item -> Version]]
    /\ ovLock \in Actor \cup {NoOne}
    /\ wrote \in [Actor -> [Item -> Version]]
    /\ began \in [Actor -> [Item -> Nat]]
    /\ liveBegan \in [Item -> Nat]

\* policy.New has loaded the engine from the configured files; main goes on
\* to register the override files.
Init ==
    /\ ver = [x \in Item |-> 0]
    /\ sources = Bundled
    /\ live = SnapshotOf(Bundled, ver)
    /\ pc = [p \in Actor |-> IF p = Main THEN "setSources" ELSE "idle"]
    /\ todo = [p \in Actor |-> <<>>]
    /\ srcs = [p \in Actor |-> <<>>]
    /\ next = [p \in Actor |-> 1]
    /\ got = [p \in Actor |-> [x \in Item |-> Unread]]
    /\ ovLock = NoOne
    /\ wrote = [p \in Actor |-> [x \in Item |-> Unread]]
    /\ began = [p \in Actor |-> ver]
    /\ liveBegan = ver

-----------------------------------------------------------------------------
(* Start of an operation.  The API listens only once main has registered   *)
(* the overrides; the rule updater's goroutine runs before that.           *)

Start(p, at, writes) ==
    /\ pc[p] = "idle"
    /\ pc' = [pc EXCEPT ![p] = at]
    /\ todo' = [todo EXCEPT ![p] = writes]
    /\ UNCHANGED <<ver, sources, live, srcs, next, got, ovLock, history>>

Serving == pc[Main] = "ok"

\* PUT /api/policies/:category
PutPolicy(p) == Serving /\ Start(p, "write", <<Policies>>)

\* POST /api/protection-plan: three upserts, each its own statement.
PutProtectionPlan(p) ==
    Serving /\ Start(p, "write", <<Policies, Policies, Policies>>)

\* PUT /api/rules/files/:name.  os.WriteFile truncates the file and then
\* writes it: a reader in between sees another content.
PutRuleFile(p, f) == Serving /\ Start(p, "write", <<f, f>>)

\* POST /api/rules/override: Add rewrites the other list's file, then its own.
PostOverride(p) ==
    /\ Serving
    /\ \/ Start(p, "lock", <<BlockFile, AllowFile>>)
       \/ Start(p, "lock", <<AllowFile, BlockFile>>)

\* DELETE /api/rules/override/:domain
DeleteOverride(p) == Serving /\ Start(p, "lock", <<AllowFile, BlockFile>>)

\* The rule updater renames each downloaded file into place, then reloads.
\* Before the API listens only its own goroutine does; then a POST
\* /api/rules/update joins in.
UpdateRules(p, fs) ==
    /\ Serving \/ \A q \in Proc : pc[q] \in {"idle", "ok", "error"}
    /\ Start(p, "write", fs)

-----------------------------------------------------------------------------
(* The writes of an operation.                                             *)

LockOverrides(p) ==
    /\ pc[p] = "lock"
    /\ ovLock = NoOne
    /\ ovLock' = p
    /\ pc' = [pc EXCEPT ![p] = "write"]
    /\ UNCHANGED <<ver, sources, live, todo, srcs, next, got, history>>

\* The deferred Unlock of OverrideStore.mu, on return from Add or Remove.
ReleaseOverrides(p) == ovLock' = IF ovLock = p THEN NoOne ELSE ovLock

Write(p) ==
    /\ pc[p] = "write"
    /\ todo[p] # <<>>
    /\ LET x == Head(todo[p]) IN
        /\ ver' = [ver EXCEPT ![x] = @ + 1]
        /\ wrote' = [wrote EXCEPT ![p][x] = ver[x] + 1]
    /\ todo' = [todo EXCEPT ![p] = Tail(@)]
    /\ UNCHANGED <<sources, live, pc, srcs, next, got, ovLock, began, liveBegan>>

\* Mutant: the request is answered without a Reload.
AnswerUnreloaded(p) ==
    /\ pc[p] = "write"
    /\ todo[p] = <<>>
    /\ ReleaseOverrides(p)
    /\ pc' = [pc EXCEPT ![p] = "ok"]
    /\ UNCHANGED <<ver, sources, live, todo, srcs, next, got, history>>

Written(p) ==
    /\ pc[p] = "write"
    /\ todo[p] = <<>>
    /\ ReleaseOverrides(p)
    /\ pc' = [pc EXCEPT ![p] = "reload"]
    /\ UNCHANGED <<ver, sources, live, todo, srcs, next, got, history>>

\* Mutant: the error path forgets the lock.
FailHoldingLock(p) ==
    /\ pc[p] = "write"
    /\ todo[p] # <<>>
    /\ pc' = [pc EXCEPT ![p] = "error"]
    /\ todo' = [todo EXCEPT ![p] = <<>>]
    /\ UNCHANGED <<ver, sources, live, srcs, next, got, ovLock, history>>

\* A write fails: the operation answers with an error.  What it wrote stays,
\* and nothing reloads.
WriteFails(p) ==
    /\ pc[p] = "write"
    /\ todo[p] # <<>>
    /\ ReleaseOverrides(p)
    /\ pc' = [pc EXCEPT ![p] = "error"]
    /\ todo' = [todo EXCEPT ![p] = <<>>]
    /\ UNCHANGED <<ver, sources, live, srcs, next, got, history>>

\* main.run: engine.SetSources(bundled ++ overrides), then Reload.
SetSources ==
    /\ pc[Main] = "setSources"
    /\ sources' = Bundled \o Overrides
    /\ pc' = [pc EXCEPT ![Main] = "reload"]
    /\ UNCHANGED <<ver, live, todo, srcs, next, got, ovLock, history>>

-----------------------------------------------------------------------------
(* Engine.Reload                                                           *)

ReloadBegin(p) ==
    /\ pc[p] = "reload"
    /\ srcs' = [srcs EXCEPT ![p] = sources]
    /\ next' = [next EXCEPT ![p] = 1]
    /\ got' = [got EXCEPT ![p] = [x \in Item |-> Unread]]
    /\ began' = [began EXCEPT ![p] = ver]
    /\ pc' = [pc EXCEPT ![p] = "read"]
    /\ UNCHANGED <<ver, sources, live, todo, ovLock, wrote, liveBegan>>

\* Mutant: a file that has been loaded before is not read again.
ReuseRuleFile(p) ==
    /\ pc[p] = "read"
    /\ next[p] \in DOMAIN srcs[p]
    /\ LET f == srcs[p][next[p]]
       IN  got' = [got EXCEPT ![p][f] = IF live[f] = Unread THEN ver[f] ELSE live[f]]
    /\ next' = [next EXCEPT ![p] = @ + 1]
    /\ UNCHANGED <<ver, sources, live, pc, todo, srcs, ovLock, history>>

\* One iteration of rules.Build.
ReadRuleFile(p) ==
    /\ pc[p] = "read"
    /\ next[p] \in DOMAIN srcs[p]
    /\ LET f == srcs[p][next[p]] IN got' = [got EXCEPT ![p][f] = ver[f]]
    /\ next' = [next EXCEPT ![p] = @ + 1]
    /\ UNCHANGED <<ver, sources, live, pc, todo, srcs, ovLock, history>>

ReadPolicies(p) ==
    /\ pc[p] = "read"
    /\ next[p] \notin DOMAIN srcs[p]
    /\ got' = [got EXCEPT ![p][Policies] = ver[Policies]]
    /\ pc' = [pc EXCEPT ![p] = "install"]
    /\ UNCHANGED <<ver, sources, live, todo, srcs, next, ovLock, history>>

\* The swap under Engine.mu; the operation then answers 200.
Install(p) ==
    /\ pc[p] = "install"
    /\ live' = got[p]
    /\ liveBegan' = began[p]
    /\ pc' = [pc EXCEPT ![p] = "ok"]
    /\ UNCHANGED <<ver, sources, todo, srcs, next, got, ovLock, wrote, began>>

\* A rule file cannot be read, or the query fails: the engine keeps what it
\* has, the operation answers 500 (main gives up and the agent never serves).
ReloadFails(p) ==
    /\ pc[p] = "read"
    /\ pc' = [pc EXCEPT ![p] = "error"]
    /\ UNCHANGED <<ver, sources, live, todo, srcs, next, got, ovLock, history>>

-----------------------------------------------------------------------------
Reload(p) ==
    ReloadBegin(p) \/ ReadRuleFile(p) \/ ReadPolicies(p) \/ Install(p)

Advance(p) == LockOverrides(p) \/ Write(p) \/ Written(p) \/ Reload(p)

Request(p) ==
    \/ PutPolicy(p)
    \/ PutProtectionPlan(p)
    \/ \E f \in BundledFiles : PutRuleFile(p, f)
    \/ PostOverride(p)
    \/ DeleteOverride(p)
    \/ \E n \in 0..Len(Bundled) : UpdateRules(p, SubSeq(Bundled, 1, n))

Next ==
    \/ SetSources
    \/ \E p \in Proc : Request(p)
    \/ \E p \in Actor : Advance(p) \/ WriteFails(p) \/ ReloadFails(p)

Spec == Init /\ [][Next]_vars

\* A goroutine that can take its next step is eventually scheduled, and a
\* contended mutex is eventually granted (Go's mutexes are starvation-free).
Fairness ==
    /\ WF_vars(SetSources)
    /\ \A p \in Actor : WF_vars(Advance(p)) /\ SF_vars(LockOverrides(p))

FairSpec == Spec /\ Fairness

-----------------------------------------------------------------------------
(* Properties                                                              *)

\* What the engine serves includes every change that was on disk, or in the
\* table, when the Reload that installed it began.  A change can be missing
\* from the live engine only while that Reload began before the change: a
\* slow Reload may undo a newer one, but nothing else loses a change.
SnapshotCoversEarlierWrites ==
    \A p \in Actor, x \in Item :
        (wrote[p][x] # Unread /\ wrote[p][x] <= liveBegan[x])
            => live[x] >= wrote[p][x]

\* An operation answers 200 only from the step that made all of its own
\* writes live ("Trigger policy reload so changes take effect immediately").
OwnWritesInstalled ==
    [][\A p \in Proc : (pc[p] # "ok" /\ pc'[p] = "ok")
            => \A x \in Item : live'[x] >= wrote[p][x]]_vars

\* No failure leaves a lock behind or a request unanswered.
EveryRequestAnswered ==
    \A p \in Proc : (pc[p] # "idle") ~> (pc[p] \in {"ok", "error"})
=============================================================================
