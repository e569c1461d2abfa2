--------------------------- MODULE RuleUpdaterProofs ---------------------------
(* What TLAPS proves of RuleUpdater, for any manifests, files, number of     *)
(* overlapping checks and amount of trouble.                                 *)
EXTENDS RuleUpdater, TLAPS

\* Every version a check may still record, or starts from, has been reloaded.
VersionsReloaded ==
    /\ RecordedAfterReload
    /\ \A p \in Checker : base[p] \in reloaded \cup {NoVersion}
    /\ \A p \in Checker :
          pc[p] \in {"record", "persist"} => man[p].version \in reloaded

\* A check compares from the first file on.
Fresh == \A p \in Checker : pc[p] \in {"idle", "fetch"} => at[p] = 1

\* How far a check that nothing overlaps has come.
AppliedSoFar(p) ==
    \A i \in DOMAIN Order :
        i < at[p] => file[Order[i]] = man[p].sum[Order[i]]

AloneProgress(p) ==
    /\ pc[p] # "idle"
    /\ \A q \in Checker : q # p => pc[q] = "idle"
    /\ AppliedSoFar(p)
    /\ pc[p] \in {"readRules", "setRules", "readPatterns", "setPatterns",
                  "record", "persist"} => file = man[p].sum
    /\ pc[p] \in {"setRules", "setPatterns"} => got[p] = man[p].sum
    /\ pc[p] \in {"readPatterns", "setPatterns"} =>
          \A f \in RuleFile \cap File : live[f] = man[p].sum[f]
    /\ (pc[p] \in {"record", "persist"} /\ (count[p] \/ VersionChanged(p)))
          => live = man[p].sum

AloneInv == \A p \in Checker : alone[p] => AloneProgress(p)

IInv == TypeOK /\ VersionsReloaded /\ Fresh /\ AloneInv

-----------------------------------------------------------------------------
LEMMA ManifestFields ==
    ASSUME NEW m \in Manifest
    PROVE  m.version \in Version /\ m.sum \in [File -> Body]
BY ManifestAssumption

LEMMA InitialValues ==
    /\ AnyManifest \in Manifest
    /\ Empty \in [File -> Body]
<1>1. AnyManifest \in Manifest
  BY ManifestAssumption DEF AnyManifest
<1>2. Empty \in [File -> Body]
  BY BodyAssumption DEF Empty
<1> QED BY <1>1, <1>2

LEMMA OrderFacts ==
    /\ Len(Order) \in Nat
    /\ DOMAIN Order = 1..Len(Order)
    /\ \A i \in DOMAIN Order : Order[i] \in File
    /\ \A f \in File : \E i \in DOMAIN Order : f = Order[i]
BY OrderAssumption DEF File

\* Returning keeps the types of the local variables.
LEMMA ReturnType ==
    ASSUME TypeOK, NEW p \in Checker, Return(p)
    PROVE  /\ pc' \in [Checker -> PC]
           /\ base' \in [Checker -> Known]
           /\ man' \in [Checker -> Manifest]
           /\ at' \in [Checker -> Nat \ {0}]
           /\ count' \in [Checker -> BOOLEAN]
           /\ got' \in [Checker -> [File -> Body]]
           /\ alone' \in [Checker -> BOOLEAN]
BY InitialValues DEF TypeOK, Return, Goto, PC, Known

-----------------------------------------------------------------------------
(* Type correctness                                                        *)

LEMMA InitType == Init => TypeOK
<1> SUFFICES ASSUME Init PROVE TypeOK
  OBVIOUS
<1>0. trouble \in 0..MaxTrouble
  BY TroubleAssumption DEF Init
<1>1. pub \in Manifest /\ file \in [File -> Body] /\ live \in [File -> Body]
  BY InitialValues DEF Init
<1>6. /\ current \in Known /\ row \in Known /\ reloaded \subseteq Version
      /\ owed \in BOOLEAN
  BY DEF Init, Known
<1>2. pc \in [Checker -> PC] /\ base \in [Checker -> Known] /\ at \in [Checker -> Nat \ {0}]
  BY DEF Init, PC, Known
<1>3. man \in [Checker -> Manifest]
  BY InitialValues DEF Init
<1>4. got \in [Checker -> [File -> Body]]
  BY InitialValues DEF Init
<1>5. count \in [Checker -> BOOLEAN] /\ alone \in [Checker -> BOOLEAN]
  BY DEF Init
<1> QED BY <1>0, <1>1, <1>2, <1>3, <1>4, <1>5, <1>6 DEF TypeOK

LEMMA NextType == TypeOK /\ [Next]_vars => TypeOK'
<1> SUFFICES ASSUME TypeOK, [Next]_vars
             PROVE  TypeOK'
  OBVIOUS
<1>a. Trouble => trouble' \in 0..MaxTrouble
  BY TroubleAssumption DEF Trouble, TypeOK
<1>1. ASSUME NEW p \in Checker, Begin(p)
      PROVE  TypeOK'
  <2>1. current' \in Known
    BY <1>1 DEF Begin, TypeOK
  <2>2. base' \in [Checker -> Known]
    BY <1>1, <2>1 DEF Begin, TypeOK, Known
  <2>3. alone' \in [Checker -> BOOLEAN]
    BY <1>1 DEF Begin
  <2> QED BY <1>1, <1>a, <2>1, <2>2, <2>3 DEF Begin, TypeOK, Goto, PC
<1>2. ASSUME NEW p \in Checker, Fetch(p)
      PROVE  TypeOK'
  BY <1>2 DEF Fetch, TypeOK, Goto, PC
<1>3. ASSUME NEW p \in Checker, Compare(p)
      PROVE  TypeOK'
  <2>1. at' \in [Checker -> Nat \ {0}] /\ pc' \in [Checker -> PC]
    BY <1>3 DEF Compare, TypeOK, Goto, PC
  <2> QED BY <1>3, <2>1 DEF Compare, TypeOK
<1>4. ASSUME NEW p \in Checker, Replace(p)
      PROVE  TypeOK'
  <2>1. man[p].sum \in [File -> Body]
    BY ManifestFields DEF TypeOK
  <2>2. file' \in [File -> Body]
    <3>1. CASE Order[at[p]] \in File
      BY <1>4, <2>1, <3>1 DEF Replace, TypeOK
    <3>2. CASE Order[at[p]] \notin File
      BY <1>4, <3>2 DEF Replace, TypeOK
    <3> QED BY <3>1, <3>2
  <2>3. at' \in [Checker -> Nat \ {0}] /\ count' \in [Checker -> BOOLEAN]
    BY <1>4 DEF Replace, TypeOK
  <2> QED BY <1>4, <2>2, <2>3 DEF Replace, TypeOK, Goto, PC
<1>5. ASSUME NEW p \in Checker, Applied(p)
      PROVE  TypeOK'
  BY <1>5 DEF Applied, TypeOK, Goto, PC, locals
<1>6. ASSUME NEW p \in Checker, Read(p)
      PROVE  TypeOK'
  BY <1>6 DEF Read, TypeOK, Goto, PC
<1>7. ASSUME NEW p \in Checker, SetRules(p)
      PROVE  TypeOK'
  <2>1. live' \in [File -> Body] /\ got' \in [Checker -> [File -> Body]]
    BY <1>7, InitialValues DEF SetRules, TypeOK
  <2> QED BY <1>7, <2>1 DEF SetRules, TypeOK, Goto, PC
<1>8. ASSUME NEW p \in Checker, SetPatterns(p)
      PROVE  TypeOK'
  <2>1. live' \in [File -> Body] /\ got' \in [Checker -> [File -> Body]]
    BY <1>8, InitialValues DEF SetPatterns, TypeOK
  <2>2. reloaded' \subseteq Version
    BY <1>8, ManifestFields DEF SetPatterns, TypeOK
  <2> QED BY <1>8, <2>1, <2>2 DEF SetPatterns, TypeOK, Goto, PC
<1>9. ASSUME NEW p \in Checker, Record(p)
      PROVE  TypeOK'
  <2>1. current' \in Known
    BY <1>9, ManifestFields DEF Record, TypeOK, Known
  <2>2. CASE VersionChanged(p)
    BY <1>9, <2>1, <2>2 DEF Record, TypeOK, Goto, PC, locals
  <2>3. CASE ~VersionChanged(p)
    BY <1>9, <2>1, <2>3, ReturnType DEF Record, TypeOK
  <2> QED BY <2>2, <2>3
<1>10. ASSUME NEW p \in Checker, Persist(p)
       PROVE  TypeOK'
  <2>1. row' \in Known
    BY <1>10, ManifestFields DEF Persist, TypeOK, Known
  <2> QED BY <1>10, <2>1, ReturnType DEF Persist, TypeOK
<1>11. ASSUME NEW p \in Checker, Fail(p)
       PROVE  TypeOK'
  BY <1>11, <1>a, ReturnType DEF Fail, TypeOK
<1>12. ASSUME NEW f \in File, NEW b \in Body, EditFile(f, b)
       PROVE  TypeOK'
  <2>1. file' \in [File -> Body]
    BY <1>12 DEF EditFile, TypeOK
  <2>2. [g \in File |-> IF g \in RuleFile THEN file'[g] ELSE live[g]] \in [File -> Body]
    BY <2>1 DEF TypeOK
  <2>3. live' \in [File -> Body]
    BY <1>12, <2>2 DEF EditFile, TypeOK
  <2> QED BY <1>12, <1>a, <2>1, <2>3 DEF EditFile, TypeOK
<1>13. CASE Publish
  BY <1>13, <1>a DEF Publish, TypeOK, locals
<1>14. CASE Restart
  <2>1. pc' \in [Checker -> PC] /\ base' \in [Checker -> Known]
        /\ at' \in [Checker -> Nat \ {0}]
    BY <1>14 DEF Restart, PC, Known
  <2>2. man' \in [Checker -> Manifest]
    BY <1>14, InitialValues DEF Restart
  <2>3. got' \in [Checker -> [File -> Body]]
    BY <1>14, InitialValues DEF Restart
  <2>4. count' \in [Checker -> BOOLEAN] /\ alone' \in [Checker -> BOOLEAN]
    BY <1>14 DEF Restart
  <2>5. current' \in Known /\ live' \in [File -> Body] /\ owed' \in BOOLEAN
    BY <1>14 DEF Restart, Known, TypeOK
  <2> QED BY <1>14, <1>a, <2>1, <2>2, <2>3, <2>4, <2>5 DEF Restart, TypeOK
<1>15. CASE UNCHANGED vars
  BY <1>15 DEF vars, code, TypeOK
<1> QED BY <1>1, <1>2, <1>3, <1>4, <1>5, <1>6, <1>7, <1>8, <1>9, <1>10, <1>11,
           <1>12, <1>13, <1>14, <1>15 DEF Next, Step

\* Type correctness of the updater.
THEOREM TypeCorrect == Spec => []TypeOK
BY InitType, NextType, PTL DEF Spec

-----------------------------------------------------------------------------
(* Versions                                                                *)

LEMMA InitVersions == Init => VersionsReloaded
BY DEF Init, VersionsReloaded, RecordedAfterReload

LEMMA NextVersions == TypeOK /\ VersionsReloaded /\ [Next]_vars => VersionsReloaded'
<1> SUFFICES ASSUME TypeOK, VersionsReloaded, [Next]_vars
             PROVE  VersionsReloaded'
  OBVIOUS
<1> USE DEF VersionsReloaded, RecordedAfterReload
<1>0. /\ \A p \in Checker : man[p] \in Manifest /\ man[p].version # NoVersion
      /\ base \in [Checker -> Known] /\ pc \in [Checker -> PC]
      /\ man \in [Checker -> Manifest]
  BY ManifestFields, VersionAssumption DEF TypeOK
<1>1. ASSUME NEW p \in Checker, Begin(p)
      PROVE  VersionsReloaded'
  <2>1. current' \in reloaded \cup {NoVersion} /\ base'[p] \in reloaded \cup {NoVersion}
    BY <1>1, <1>0 DEF Begin
  <2>2. \A q \in Checker : q # p => base'[q] = base[q] /\ pc'[q] = pc[q]
    BY <1>1, <1>0 DEF Begin, Goto
  <2>3. pc'[p] = "fetch"
    BY <1>1, <1>0 DEF Begin, Goto
  <2> QED BY <1>1, <2>1, <2>2, <2>3 DEF Begin
<1>2. ASSUME NEW p \in Checker, Fetch(p)
      PROVE  VersionsReloaded'
  BY <1>0, <1>2 DEF Fetch, Goto
<1>3. ASSUME NEW p \in Checker, Compare(p)
      PROVE  VersionsReloaded'
  <2>1. \A q \in Checker : pc'[q] = pc[q] \/ pc'[q] = "download"
    BY <1>0, <1>3 DEF Compare, Goto
  <2> QED BY <2>1, <1>3 DEF Compare
<1>4. ASSUME NEW p \in Checker, Replace(p)
      PROVE  VersionsReloaded'
  BY <1>0, <1>4 DEF Replace, Goto
<1>5. ASSUME NEW p \in Checker, Applied(p)
      PROVE  VersionsReloaded'
  <2>1. pc'[p] = "record" => man[p].version \in reloaded
    BY <1>0, <1>5 DEF Applied, Goto, VersionChanged
  <2>2. pc'[p] \in {"readRules", "record"} /\ \A q \in Checker : q # p => pc'[q] = pc[q]
    BY <1>0, <1>5 DEF Applied, Goto
  <2> QED BY <2>1, <2>2, <1>5 DEF Applied, locals
<1>6. ASSUME NEW p \in Checker, Read(p)
      PROVE  VersionsReloaded'
  BY <1>0, <1>6 DEF Read, Goto
<1>7. ASSUME NEW p \in Checker, SetRules(p)
      PROVE  VersionsReloaded'
  BY <1>0, <1>7 DEF SetRules, Goto
<1>8. ASSUME NEW p \in Checker, SetPatterns(p)
      PROVE  VersionsReloaded'
  BY <1>0, <1>8 DEF SetPatterns, Goto
<1>9. ASSUME NEW p \in Checker, Record(p)
      PROVE  VersionsReloaded'
  <2>1. current' \in reloaded
    BY <1>9 DEF Record
  <2>2. \A q \in Checker : pc'[q] \in {"record", "persist"} =>
            pc[q] \in {"record", "persist"} /\ man'[q] = man[q]
    BY <1>0, <1>9 DEF Record, Return, Goto, locals
  <2>3. \A q \in Checker : base'[q] \in {base[q], NoVersion}
    BY <1>0, <1>9 DEF Record, Return, locals
  <2> QED BY <1>9, <2>1, <2>2, <2>3 DEF Record
<1>10. ASSUME NEW p \in Checker, Persist(p)
       PROVE  VersionsReloaded'
  <2>1. row' \in reloaded
    BY <1>10 DEF Persist
  <2>2. \A q \in Checker : pc'[q] \in {"record", "persist"} =>
            pc[q] \in {"record", "persist"} /\ man'[q] = man[q]
    BY <1>0, <1>10 DEF Persist, Return, Goto
  <2>3. \A q \in Checker : base'[q] \in {base[q], NoVersion}
    BY <1>0, <1>10 DEF Persist, Return
  <2> QED BY <1>10, <2>1, <2>2, <2>3 DEF Persist
<1>11. ASSUME NEW p \in Checker, Fail(p)
       PROVE  VersionsReloaded'
  <2>2. \A q \in Checker : pc'[q] \in {"record", "persist"} =>
            pc[q] \in {"record", "persist"} /\ man'[q] = man[q]
    BY <1>0, <1>11 DEF Fail, Return, Goto
  <2>3. \A q \in Checker : base'[q] \in {base[q], NoVersion}
    BY <1>0, <1>11 DEF Fail, Return
  <2> QED BY <1>11, <2>2, <2>3 DEF Fail
<1>12. ASSUME NEW f \in File, NEW b \in Body, EditFile(f, b)
       PROVE  VersionsReloaded'
  BY <1>12 DEF EditFile
<1>13. CASE Publish
  BY <1>13 DEF Publish, locals
<1>14. CASE Restart
  BY <1>14 DEF Restart
<1>15. CASE UNCHANGED vars
  BY <1>15 DEF vars, code
<1> QED BY <1>1, <1>2, <1>3, <1>4, <1>5, <1>6, <1>7, <1>8, <1>9, <1>10, <1>11,
           <1>12, <1>13, <1>14, <1>15 DEF Next, Step

\* A version is remembered only after a reload of its files.
THEOREM VersionsRecordedLate == Spec => []RecordedAfterReload
<1>1. TypeOK /\ VersionsReloaded /\ [Next]_vars => (TypeOK /\ VersionsReloaded)'
  BY NextType, NextVersions
<1>2. Init => TypeOK /\ VersionsReloaded
  BY InitType, InitVersions
<1>3. VersionsReloaded => RecordedAfterReload
  BY DEF VersionsReloaded
<1> QED BY <1>1, <1>2, <1>3, PTL DEF Spec
-----------------------------------------------------------------------------
(* A check that nothing overlaps                                           *)

LEMMA InitFresh == Init => Fresh
BY DEF Init, Fresh

LEMMA NextFresh == TypeOK /\ Fresh /\ [Next]_vars => Fresh'
<1> SUFFICES ASSUME TypeOK, Fresh, [Next]_vars
             PROVE  Fresh'
  OBVIOUS
<1>0. pc \in [Checker -> PC] /\ at \in [Checker -> Nat \ {0}]
  BY DEF TypeOK
<1>1. ASSUME NEW p \in Checker, Begin(p) \/ Fetch(p) \/ Read(p)
      PROVE  Fresh'
  BY <1>0, <1>1 DEF Fresh, Begin, Fetch, Read, Goto
<1>2. ASSUME NEW p \in Checker, Compare(p) \/ Replace(p)
      PROVE  Fresh'
  <2>1. /\ \A q \in Checker : q # p => at'[q] = at[q] /\ pc'[q] = pc[q]
        /\ pc'[p] \in {"apply", "download"}
    BY <1>0, <1>2 DEF Compare, Replace, Goto
  <2> QED BY <2>1 DEF Fresh
<1>3. ASSUME NEW p \in Checker, Applied(p) \/ SetRules(p) \/ SetPatterns(p)
      PROVE  Fresh'
  BY <1>0, <1>3 DEF Fresh, Applied, SetRules, SetPatterns, Goto, locals
<1>4. ASSUME NEW p \in Checker, Record(p) \/ Persist(p) \/ Fail(p)
      PROVE  Fresh'
  <2>1. \/ at' = at /\ pc' = [pc EXCEPT ![p] = "persist"]
        \/ at' = [at EXCEPT ![p] = 1] /\ pc' = [pc EXCEPT ![p] = "idle"]
    BY <1>4 DEF Record, Persist, Fail, Return, Goto, locals
  <2> QED BY <1>0, <2>1 DEF Fresh
<1>5. ASSUME NEW f \in File, NEW b \in Body, EditFile(f, b)
      PROVE  Fresh'
  BY <1>5 DEF Fresh, EditFile
<1>6. CASE Publish \/ UNCHANGED vars
  BY <1>6 DEF Fresh, Publish, vars, code, locals
<1>7. CASE Restart
  BY <1>7 DEF Fresh, Restart
<1> QED BY <1>1, <1>2, <1>3, <1>4, <1>5, <1>6, <1>7 DEF Next, Step

\* A check that is past the last file has found or put every file in place.
LEMMA AllApplied ==
    ASSUME TypeOK, NEW p \in Checker, AppliedSoFar(p), at[p] \notin DOMAIN Order
    PROVE  file = man[p].sum
<1>1. \A i \in DOMAIN Order : i < at[p]
  BY OrderFacts DEF TypeOK
<1>2. \A f \in File : file[f] = man[p].sum[f]
  BY <1>1, OrderFacts DEF AppliedSoFar
<1>3. man[p].sum \in [File -> Body]
  BY ManifestFields DEF TypeOK
<1> QED BY <1>2, <1>3 DEF TypeOK

\* A check that is not alone, or has returned, has nothing to show; a step of
\* a check ends no other's being alone without saying so.
LEMMA OthersIdle ==
    ASSUME TypeOK, AloneInv, NEW p \in Checker, pc[p] # "idle",
           NEW q \in Checker, q # p
    PROVE  ~alone[q]
BY DEF AloneInv, AloneProgress

\* It is enough to look at the check that makes the step.
LEMMA StepAlone ==
    ASSUME TypeOK, AloneInv, NEW p \in Checker, pc[p] # "idle",
           alone' = alone \/ alone' = [alone EXCEPT ![p] = FALSE],
           alone'[p] => AloneProgress(p)'
    PROVE  AloneInv'
BY OthersIdle DEF TypeOK, AloneInv

LEMMA InitAlone == Init => AloneInv
BY DEF Init, AloneInv

LEMMA NextAlone == TypeOK /\ TypeOK' /\ Fresh /\ AloneInv /\ [Next]_vars => AloneInv'
<1> SUFFICES ASSUME TypeOK, TypeOK', Fresh, AloneInv, [Next]_vars
             PROVE  AloneInv'
  OBVIOUS
<1>0. /\ pc \in [Checker -> PC] /\ at \in [Checker -> Nat \ {0}]
      /\ count \in [Checker -> BOOLEAN] /\ got \in [Checker -> [File -> Body]]
      /\ alone \in [Checker -> BOOLEAN] /\ man \in [Checker -> Manifest]
      /\ base \in [Checker -> Known]
      /\ file \in [File -> Body] /\ live \in [File -> Body]
      /\ \A p \in Checker : man[p].sum \in [File -> Body]
  BY ManifestFields DEF TypeOK
<1>b. \A p \in Checker : alone[p] => AloneProgress(p)
  BY DEF AloneInv
<1>1. ASSUME NEW p \in Checker, Begin(p)
      PROVE  AloneInv'
  <2>1. \A q \in Checker : alone'[q] => q = p /\ \A c \in Checker : pc[c] = "idle"
    BY <1>1 DEF Begin
  <2>2. pc' = [pc EXCEPT ![p] = "fetch"] /\ at' = at
    BY <1>1 DEF Begin, Goto
  <2>3. at'[p] = 1 /\ pc'[p] = "fetch" /\ \A q \in Checker : q # p => pc'[q] = pc[q]
    BY <1>0, <1>1, <2>2 DEF Begin, Fresh
  <2>4. ASSUME alone'[p] PROVE AloneProgress(p)'
    <3>1. AppliedSoFar(p)'
      BY <2>3, OrderFacts DEF AppliedSoFar
    <3> QED BY <2>1, <2>3, <2>4, <3>1 DEF AloneProgress
  <2> QED BY <2>1, <2>4 DEF AloneInv
<1>2. ASSUME NEW p \in Checker, Fetch(p)
      PROVE  AloneInv'
  <2>1. at'[p] = 1 /\ pc'[p] = "apply" /\ \A q \in Checker : q # p => pc'[q] = pc[q]
    BY <1>0, <1>2 DEF Fetch, Fresh, Goto
  <2>2. AppliedSoFar(p)'
    BY <2>1, OrderFacts DEF AppliedSoFar
  <2>3. alone'[p] => AloneProgress(p)'
    BY <1>2, <1>b, <2>1, <2>2 DEF Fetch, AloneProgress
  <2> QED BY <1>2, <2>3, StepAlone DEF Fetch
<1>3. ASSUME NEW p \in Checker, Compare(p)
      PROVE  AloneInv'
  <2>1. ASSUME alone[p] PROVE AloneProgress(p)'
    <3>1. pc'[p] \in {"apply", "download"} /\ \A q \in Checker : q # p => pc'[q] = pc[q]
      BY <1>0, <1>3 DEF Compare, Goto
    <3>2. AppliedSoFar(p)'
      <4>1. CASE at' = at
        BY <1>3, <1>b, <2>1, <4>1 DEF Compare, AloneProgress, AppliedSoFar
      <4>2. CASE at' = [at EXCEPT ![p] = @ + 1]
        <5>1. at'[p] = at[p] + 1 /\ at[p] \in Nat
          BY <1>0, <4>2
        <5>2. CASE file[Order[at[p]]] = man[p].sum[Order[at[p]]]
          BY <1>3, <1>b, <2>1, <5>1, <5>2, OrderFacts DEF Compare, AloneProgress, AppliedSoFar
        <5>3. CASE file[Order[at[p]]] # man[p].sum[Order[at[p]]]
          BY <1>3, <1>0, <5>1, <5>3 DEF Compare
        <5> QED BY <5>2, <5>3
      <4> QED BY <1>3, <4>1, <4>2 DEF Compare
    <3> QED BY <1>b, <2>1, <3>1, <3>2 DEF AloneProgress
  <2> QED BY <1>3, <2>1, StepAlone DEF Compare
<1>4. ASSUME NEW p \in Checker, Replace(p)
      PROVE  AloneInv'
  <2>1. ASSUME alone[p] PROVE AloneProgress(p)'
    <3>1. pc'[p] = "apply" /\ (\A q \in Checker : q # p => pc'[q] = pc[q])
          /\ at'[p] = at[p] + 1 /\ at[p] \in Nat
      BY <1>0, <1>4 DEF Replace, Goto
    <3>2. \A i \in DOMAIN Order : file'[Order[i]] =
              IF Order[i] = Order[at[p]] THEN man[p].sum[Order[at[p]]] ELSE file[Order[i]]
      BY <1>0, <1>4, OrderFacts DEF Replace
    <3>3. man' = man /\ AppliedSoFar(p)
      BY <1>4, <1>b, <2>1 DEF Replace, AloneProgress
    <3>4. ASSUME NEW i \in DOMAIN Order, i < at[p] + 1
          PROVE  file'[Order[i]] = man[p].sum[Order[i]]
      <4>1. i < at[p] \/ i = at[p]
        BY <3>1, <3>4, OrderFacts
      <4> QED BY <3>2, <3>3, <4>1 DEF AppliedSoFar
    <3>5. AppliedSoFar(p)'
      BY <3>1, <3>3, <3>4 DEF AppliedSoFar
    <3> QED BY <1>b, <2>1, <3>1, <3>5 DEF AloneProgress
  <2> QED BY <1>4, <2>1, StepAlone DEF Replace
<1>5. ASSUME NEW p \in Checker, Applied(p)
      PROVE  AloneInv'
  <2>0. UNCHANGED <<file, live, man, at, count, base, alone, got>>
    BY <1>5 DEF Applied, locals
  <2>1. ASSUME alone[p] PROVE AloneProgress(p)'
    <3>1. pc'[p] \in {"readRules", "record"} /\ (\A q \in Checker : q # p => pc'[q] = pc[q])
      BY <1>0, <1>5 DEF Applied, Goto
    <3>2. file = man[p].sum
      BY <1>5, <1>b, <2>1, AllApplied DEF Applied, AloneProgress
    <3>3. pc'[p] = "record" => ~(count[p] \/ VersionChanged(p))
      BY <1>0, <1>5 DEF Applied, Goto
    <3> QED BY <1>b, <2>0, <2>1, <3>1, <3>2, <3>3 DEF AloneProgress, AppliedSoFar, VersionChanged
  <2> QED BY <1>5, <2>0, <2>1, StepAlone DEF Applied
<1>6. ASSUME NEW p \in Checker, Read(p)
      PROVE  AloneInv'
  <2>1. ASSUME alone[p] PROVE AloneProgress(p)'
    <3>1. /\ pc'[p] \in {"setRules", "setPatterns"}
          /\ pc'[p] = "setPatterns" => pc[p] = "readPatterns"
          /\ \A q \in Checker : q # p => pc'[q] = pc[q]
          /\ got'[p] = file
      BY <1>0, <1>6 DEF Read, Goto
    <3> QED BY <1>6, <1>b, <2>1, <3>1 DEF Read, AloneProgress, AppliedSoFar
  <2> QED BY <1>6, <2>1, StepAlone DEF Read
<1>7. ASSUME NEW p \in Checker, SetRules(p)
      PROVE  AloneInv'
  <2>1. ASSUME alone[p] PROVE AloneProgress(p)'
    <3>1. pc'[p] = "readPatterns" /\ \A q \in Checker : q # p => pc'[q] = pc[q]
      BY <1>0, <1>7 DEF SetRules, Goto
    <3>2. \A f \in RuleFile \cap File : live'[f] = man[p].sum[f]
      BY <1>7, <1>b, <2>1 DEF SetRules, AloneProgress
    <3> QED BY <1>7, <1>b, <2>1, <3>1, <3>2 DEF SetRules, AloneProgress, AppliedSoFar
  <2> QED BY <1>7, <2>1, StepAlone DEF SetRules
<1>8. ASSUME NEW p \in Checker, SetPatterns(p)
      PROVE  AloneInv'
  <2>1. ASSUME alone[p] PROVE AloneProgress(p)'
    <3>1. pc'[p] = "record" /\ \A q \in Checker : q # p => pc'[q] = pc[q]
      BY <1>0, <1>8 DEF SetPatterns, Goto
    <3>2. \A f \in File : live'[f] = man[p].sum[f]
      BY <1>8, <1>b, <2>1 DEF SetPatterns, AloneProgress
    <3>3. live' = man[p].sum
      <4>1. DOMAIN live' = File /\ live' = [f \in File |-> live'[f]]
        BY <1>8 DEF SetPatterns
      <4> QED BY <1>0, <3>2, <4>1
    <3> QED BY <1>8, <1>b, <2>1, <3>1, <3>3 DEF SetPatterns, AloneProgress, AppliedSoFar
  <2> QED BY <1>8, <2>1, StepAlone DEF SetPatterns
<1>9. ASSUME NEW p \in Checker, Record(p)
      PROVE  AloneInv'
  <2>1. CASE VersionChanged(p)
    <3>0. UNCHANGED <<file, live, man, at, count, base, alone, got>>
      BY <1>9, <2>1 DEF Record, locals
    <3>1. pc'[p] = "persist" /\ \A q \in Checker : q # p => pc'[q] = pc[q]
      BY <1>0, <1>9, <2>1 DEF Record, Goto
    <3>2. ASSUME alone[p] PROVE AloneProgress(p)'
      <4>1. file = man[p].sum /\ live = man[p].sum /\ AppliedSoFar(p)
            /\ \A q \in Checker : q # p => pc[q] = "idle"
        BY <1>9, <1>b, <2>1, <3>2 DEF Record, AloneProgress
      <4>2. AppliedSoFar(p)'
        BY <3>0, <4>1 DEF AppliedSoFar
      <4> QED BY <3>0, <3>1, <4>1, <4>2 DEF AloneProgress
    <3> QED BY <1>9, <3>0, <3>2, StepAlone DEF Record
  <2>2. CASE ~VersionChanged(p)
    <3>1. alone' = [alone EXCEPT ![p] = FALSE] /\ ~alone'[p]
      BY <1>0, <1>9, <2>2 DEF Record, Return
    <3> QED BY <1>9, <3>1, StepAlone DEF Record
  <2> QED BY <2>1, <2>2
<1>10. ASSUME NEW p \in Checker, Persist(p) \/ Fail(p)
       PROVE  AloneInv'
  <2>1. alone' = [alone EXCEPT ![p] = FALSE] /\ ~alone'[p] /\ pc[p] # "idle"
    BY <1>0, <1>10 DEF Persist, Fail, Return
  <2> QED BY <2>1, StepAlone
<1>12. ASSUME NEW f \in File, NEW b \in Body, EditFile(f, b)
       PROVE  AloneInv'
  BY <1>12 DEF EditFile, AloneInv
<1>13. CASE Publish
  BY <1>13, <1>b DEF Publish, locals, AloneInv, AloneProgress, AppliedSoFar, VersionChanged
<1>14. CASE Restart
  BY <1>14 DEF Restart, AloneInv
<1>15. CASE UNCHANGED vars
  BY <1>15, <1>b DEF vars, code, AloneInv, AloneProgress, AppliedSoFar, VersionChanged
<1> QED BY <1>1, <1>2, <1>3, <1>4, <1>5, <1>6, <1>7, <1>8, <1>9, <1>10, <1>12,
           <1>13, <1>14, <1>15 DEF Next, Step

LEMMA InitIInv == Init => IInv
BY InitType, InitVersions, InitFresh, InitAlone DEF IInv

LEMMA NextIInv == IInv /\ [Next]_vars => IInv'
BY NextType, NextVersions, NextFresh, NextAlone DEF IInv

LEMMA SuccessStep ==
    ASSUME IInv, NEW p \in Checker, Succeeds(p), alone[p], count[p] \/ VersionChanged(p)
    PROVE  live = man[p].sum
<1>1. pc[p] \in {"record", "persist"}
  BY DEF Succeeds, Persist, Record
<1> QED BY <1>1 DEF IInv, AloneInv, AloneProgress

\* What an undisturbed check reports as an update is live, whole.
THEOREM UpdatesLive == Spec => UpdatedMeansLive
<1>1. IInv => (\A p \in Checker :
                 (Succeeds(p) /\ alone[p] /\ (count[p] \/ VersionChanged(p)))
                     => live = man[p].sum)
  BY SuccessStep
<1>2. Spec => []IInv
  BY InitIInv, NextIInv, PTL DEF Spec
<1> QED BY <1>1, <1>2, PTL DEF UpdatedMeansLive
=============================================================================
