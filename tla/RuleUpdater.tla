------------------------------ MODULE RuleUpdater ------------------------------
(***************************************************************************)
(* The rule updater (agent/internal/rules/updater.go) with the reload      *)
(* callback main.run gives it, the version history in SQLite, the edits of *)
(* rule files over the API and restarts of the agent.                      *)
(*                                                                         *)
(* CheckNow runs in the updater's own goroutine and in the goroutine of    *)
(* every POST /api/rules/update: nothing makes two checks exclude each     *)
(* other.  A manifest is a version and a digest for every file; a digest   *)
(* stands for the content it is the digest of.  PolicyEngine splits the    *)
(* Reload of the engine file by file; here each half of the callback, the  *)
(* policy engine and then the DLP pipeline, reads its files in one step    *)
(* and installs them in another.                                           *)
(***************************************************************************)
EXTENDS Integers, Sequences

CONSTANTS
    Checker,     \* goroutines calling CheckNow
    Poller,      \* the updater's own goroutine
    Order,       \* the files of a manifest, in its order
    RuleFile,    \* those the policy engine reads; the pipeline reads the others
    Body,        \* what a file may contain
    Shipped,     \* what the files contain when the agent is installed
    Version,     \* manifest versions
    NoVersion,   \* the empty version
    MaxTrouble,  \* bound on failures, publications, edits and restarts
    Manifest     \* what the update server may publish

File == {Order[i] : i \in DOMAIN Order}

\* The values of local variables before they are assigned.
AnyManifest == CHOOSE m \in Manifest : TRUE
Empty == [f \in File |-> Shipped]

ASSUME CheckerAssumption == Poller \in Checker
ASSUME OrderAssumption == Order \in Seq(File)
ASSUME BodyAssumption == Shipped \in Body
ASSUME VersionAssumption == NoVersion \notin Version
ASSUME ManifestAssumption ==
    /\ Manifest # {}
    /\ Manifest \subseteq [version : Version, sum : [File -> Body]]
ASSUME TroubleAssumption == MaxTrouble \in Nat

VARIABLES
    pub,      \* the manifest the server publishes
    trouble,  \* how many more failures, publications, edits and restarts come
    file,     \* file[f]: the content of f in RulesDir
    live,     \* live[f]: the content of f the engine or the pipeline uses
    current,  \* Updater.currentVersion
    row,      \* the newest row of rule_versions
    pc,       \* where each CheckNow is
    base,     \* its "current"
    man,      \* the manifest it fetched
    at,       \* index of the next file it compares
    count,    \* whether it has replaced a file
    got,      \* what the current half of its reload has read
    \* History variables:
    alone,    \* alone[p]: no other check, edit or restart since p's began
    reloaded, \* versions whose check has completed a reload
    owed      \* the last reload of a check failed

code == <<pub, trouble, file, live, current, row, pc, base, man, at, count, got>>
vars == <<code, alone, reloaded, owed>>

Known == Version \cup {NoVersion}
PC == {"idle", "fetch", "apply", "download", "readRules", "setRules",
       "readPatterns", "setPatterns", "record", "persist"}

TypeOK ==
    /\ pub \in Manifest
    /\ trouble \in 0..MaxTrouble
    /\ file \in [File -> Body]
    /\ live \in [File -> Body]
    /\ current \in Known
    /\ row \in Known
    /\ pc \in [Checker -> PC]
    /\ base \in [Checker -> Known]
    /\ man \in [Checker -> Manifest]
    /\ at \in [Checker -> Nat \ {0}]
    /\ count \in [Checker -> BOOLEAN]
    /\ got \in [Checker -> [File -> Body]]
    /\ alone \in [Checker -> BOOLEAN]
    /\ reloaded \subseteq Version
    /\ owed \in BOOLEAN

Init ==
    /\ pub \in Manifest
    /\ trouble = MaxTrouble
    /\ file = Empty
    /\ live = file
    /\ current = NoVersion
    /\ row = NoVersion
    /\ pc = [p \in Checker |-> "idle"]
    /\ base = [p \in Checker |-> NoVersion]
    /\ man = [p \in Checker |-> AnyManifest]
    /\ at = [p \in Checker |-> 1]
    /\ count = [p \in Checker |-> FALSE]
    /\ got = [p \in Checker |-> Empty]
    /\ alone = [p \in Checker |-> FALSE]
    /\ reloaded = {}
    /\ owed = FALSE

\* From some moment on nothing fails, is published, edited or restarted.
calm == trouble = 0
Trouble == trouble > 0 /\ trouble' = trouble - 1

Goto(p, s) == pc' = [pc EXCEPT ![p] = s]

locals == <<base, man, at, count, got, alone>>

\* CheckNow returns, and its local variables are no more.
Return(p) ==
    /\ Goto(p, "idle")
    /\ base' = [base EXCEPT ![p] = NoVersion]
    /\ man' = [man EXCEPT ![p] = AnyManifest]
    /\ at' = [at EXCEPT ![p] = 1]
    /\ count' = [count EXCEPT ![p] = FALSE]
    /\ got' = [got EXCEPT ![p] = Empty]
    /\ alone' = [alone EXCEPT ![p] = FALSE]

-----------------------------------------------------------------------------
(* CheckNow                                                                *)

\* The bookkeeping under Updater.mu, the query of rule_versions included.
Begin(p) ==
    /\ pc[p] = "idle"
    /\ \/ /\ current' = IF current = NoVersion THEN row ELSE current
          /\ base' = [base EXCEPT ![p] = current']
          /\ UNCHANGED trouble
       \/ \* the query fails
          /\ current = NoVersion
          /\ Trouble
          /\ base' = [base EXCEPT ![p] = NoVersion]
          /\ UNCHANGED current
    /\ Goto(p, "fetch")
    /\ alone' = [q \in Checker |-> q = p /\ \A c \in Checker : pc[c] = "idle"]
    /\ UNCHANGED <<pub, file, live, row, man, at, count, got, reloaded, owed>>

\* Mutant: a manifest of the current version is not applied.
FetchNewer(p) ==
    /\ pc[p] = "fetch"
    /\ man' = [man EXCEPT ![p] = pub]
    /\ Goto(p, IF pub.version = base[p] THEN "record" ELSE "apply")
    /\ UNCHANGED <<pub, trouble, file, live, current, row, base, at, count, got,
                   alone, reloaded, owed>>

Fetch(p) ==
    /\ pc[p] = "fetch"
    /\ man' = [man EXCEPT ![p] = pub]
    /\ Goto(p, "apply")
    /\ UNCHANGED <<pub, trouble, file, live, current, row, base, at, count, got,
                   alone, reloaded, owed>>

\* One file of applyManifest: it is compared...
Compare(p) ==
    /\ pc[p] = "apply"
    /\ at[p] \in DOMAIN Order
    /\ IF file[Order[at[p]]] = man[p].sum[Order[at[p]]]
       THEN /\ at' = [at EXCEPT ![p] = @ + 1]
            /\ UNCHANGED pc
       ELSE /\ Goto(p, "download")
            /\ UNCHANGED at
    /\ UNCHANGED <<pub, trouble, file, live, current, row, base, man, count, got,
                   alone, reloaded, owed>>

\* ... and, when it differs, downloaded, verified and renamed into place.
Replace(p) ==
    /\ pc[p] = "download"
    /\ file' = [file EXCEPT ![Order[at[p]]] = man[p].sum[Order[at[p]]]]
    /\ count' = [count EXCEPT ![p] = TRUE]
    /\ at' = [at EXCEPT ![p] = @ + 1]
    /\ Goto(p, "apply")
    /\ UNCHANGED <<pub, trouble, live, current, row, base, man, got, alone,
                   reloaded, owed>>

VersionChanged(p) == man[p].version # base[p]

\* Mutant: an unchanged set of files is never reloaded.
AppliedReloadsOnCount(p) ==
    /\ pc[p] = "apply"
    /\ at[p] \notin DOMAIN Order
    /\ Goto(p, IF count[p] THEN "readRules" ELSE "record")
    /\ UNCHANGED <<pub, trouble, file, live, current, row, locals, reloaded, owed>>

Applied(p) ==
    /\ pc[p] = "apply"
    /\ at[p] \notin DOMAIN Order
    /\ Goto(p, IF count[p] \/ VersionChanged(p) THEN "readRules" ELSE "record")
    /\ UNCHANGED <<pub, trouble, file, live, current, row, locals, reloaded, owed>>

\* The reload callback: the policy engine, then the DLP pipeline.
Read(p) ==
    /\ pc[p] \in {"readRules", "readPatterns"}
    /\ got' = [got EXCEPT ![p] = file]
    /\ Goto(p, IF pc[p] = "readRules" THEN "setRules" ELSE "setPatterns")
    /\ UNCHANGED <<pub, trouble, file, live, current, row, base, man, at, count,
                   alone, reloaded, owed>>

\* Mutant: the pipeline keeps its patterns.
SetRulesOnly(p) ==
    /\ pc[p] = "setRules"
    /\ live' = [f \in File |-> IF f \in RuleFile THEN got[p][f] ELSE live[f]]
    /\ got' = [got EXCEPT ![p] = Empty]
    /\ reloaded' = reloaded \cup {man[p].version}
    /\ owed' = FALSE
    /\ Goto(p, "record")
    /\ UNCHANGED <<pub, trouble, file, current, row, base, man, at, count, alone>>

SetRules(p) ==
    /\ pc[p] = "setRules"
    /\ live' = [f \in File |-> IF f \in RuleFile THEN got[p][f] ELSE live[f]]
    /\ got' = [got EXCEPT ![p] = Empty]
    /\ Goto(p, "readPatterns")
    /\ UNCHANGED <<pub, trouble, file, current, row, base, man, at, count,
                   alone, reloaded, owed>>

\* pipeline.Rebuild
SetPatterns(p) ==
    /\ pc[p] = "setPatterns"
    /\ live' = [f \in File |-> IF f \in RuleFile THEN live[f] ELSE got[p][f]]
    /\ got' = [got EXCEPT ![p] = Empty]
    /\ reloaded' = reloaded \cup {man[p].version}
    /\ owed' = FALSE
    /\ Goto(p, "record")
    /\ UNCHANGED <<pub, trouble, file, current, row, base, man, at, count, alone>>

Record(p) ==
    /\ pc[p] = "record"
    /\ current' = man[p].version
    /\ IF VersionChanged(p) THEN Goto(p, "persist") /\ UNCHANGED locals
                            ELSE Return(p)
    /\ UNCHANGED <<pub, trouble, file, live, row, reloaded, owed>>

\* AppendRuleVersion
Persist(p) ==
    /\ pc[p] = "persist"
    /\ row' = man[p].version
    /\ Return(p)
    /\ UNCHANGED <<pub, trouble, file, live, current, reloaded, owed>>

\* Mutant: the version is recorded when the reload fails.
FailRecording(p) ==
    /\ Trouble
    /\ pc[p] \in {"fetch", "download", "readRules", "readPatterns", "persist"}
    /\ Return(p)
    /\ current' = IF pc[p] \in {"readRules", "readPatterns"} THEN man[p].version
                                                            ELSE current
    /\ owed' = (owed \/ pc[p] \in {"readRules", "readPatterns"})
    /\ UNCHANGED <<pub, file, live, row, reloaded>>

\* The manifest or a download cannot be had or verified, the rename fails, a
\* half of the reload fails, or the insert of the version does: CheckNow
\* returns the error, and what it has done so far stays.
Fail(p) ==
    /\ Trouble
    /\ pc[p] \in {"fetch", "download", "readRules", "readPatterns", "persist"}
    /\ Return(p)
    /\ owed' = (owed \/ pc[p] \in {"readRules", "readPatterns"})
    /\ UNCHANGED <<pub, file, live, current, row, reloaded>>

-----------------------------------------------------------------------------
(* The surroundings                                                        *)

Publish ==
    /\ Trouble
    /\ pub' \in Manifest
    /\ UNCHANGED <<file, live, current, row, pc, locals, reloaded, owed>>

\* PUT /api/rules/files/:name with the reload of the policy engine, which may
\* fail.  The pipeline is not rebuilt.
EditFile(f, b) ==
    /\ Trouble
    /\ file' = [file EXCEPT ![f] = b]
    /\ live' \in {live, [g \in File |-> IF g \in RuleFile THEN file'[g] ELSE live[g]]}
    /\ alone' = [q \in Checker |-> FALSE]
    /\ UNCHANGED <<pub, current, row, pc, base, man, at, count, got, reloaded, owed>>

\* The agent dies at any moment; policy.New and the pipeline read the files.
Restart ==
    /\ Trouble
    /\ current' = NoVersion
    /\ live' = file
    /\ pc' = [p \in Checker |-> "idle"]
    /\ base' = [p \in Checker |-> NoVersion]
    /\ man' = [p \in Checker |-> AnyManifest]
    /\ at' = [p \in Checker |-> 1]
    /\ count' = [p \in Checker |-> FALSE]
    /\ got' = [p \in Checker |-> Empty]
    /\ alone' = [p \in Checker |-> FALSE]
    /\ owed' = FALSE
    /\ UNCHANGED <<pub, file, row, reloaded>>

Step(p) ==
    \/ Fetch(p) \/ Compare(p) \/ Replace(p) \/ Applied(p)
    \/ Read(p) \/ SetRules(p) \/ SetPatterns(p)
    \/ Record(p) \/ Persist(p)

Next ==
    \/ \E p \in Checker : Begin(p) \/ Step(p) \/ Fail(p)
    \/ \E f \in File, b \in Body : EditFile(f, b)
    \/ Publish \/ Restart

Spec == Init /\ [][Next]_vars

\* A check that can go on does (its HTTP client has a timeout), and the
\* ticker of Start begins the next one.
Fairness ==
    /\ \A p \in Checker : WF_vars(Step(p))
    /\ WF_vars(Begin(Poller))

FairSpec == Spec /\ Fairness

-----------------------------------------------------------------------------
(* Properties                                                              *)

\* CheckNow returns without an error.
Succeeds(p) == Persist(p) \/ (Record(p) /\ ~VersionChanged(p))

\* A check that nothing overlapped and that answers "updated" leaves every
\* file, in the engine and in the pipeline, as its manifest has it: no
\* half-applied manifest is ever reported as an update.
UpdatedMeansLive ==
    [][\A p \in Checker :
        (Succeeds(p) /\ alone[p] /\ (count[p] \/ VersionChanged(p)))
            => live = man[p].sum]_vars

\* A version is remembered, in memory or in SQLite, only if some check of that
\* version has completed its reload ("reload ... *before* recording").
RecordedAfterReload == {current, row} \subseteq reloaded \cup {NoVersion}

Synced == file = pub.sum /\ current = pub.version

\* Whatever checks, edits, failures and restarts overlapped before, the files
\* and the version end up as the server has them.
FilesSettle == calm ~> []Synced

\* What the next check takes for the current version.
Remembered == IF current = NoVersion THEN row ELSE current

\* A version that has not been recorded when things calm down becomes live,
\* even if its files are already in place from a check that failed to reload.
UnrecordedBecomesLive ==
    (calm /\ Remembered # pub.version /\ \A p \in Checker : pc[p] = "idle")
        ~> (live = pub.sum)

\* What a comment of CheckNow promises, "the next poll will retry the reload":
\* after a reload that failed no check succeeds before one has reloaded.  The
\* code forgets the reload of a version that it has recorded before.
FailedReloadRetried ==
    [][\A p \in Checker : Succeeds(p) => ~owed]_vars
=============================================================================
