-------------------------- MODULE ManagedConfigProofs --------------------------
(* What TLAPS proves of ManagedConfig and DLPScan, for any patterns, scores, *)
(* profiles and goroutines and any amount of trouble.                        *)
EXTENDS ManagedConfig, TLAPS

\* Only a profile that pins a knob makes its operation read the row, and a new
\* operation starts without a profile.
Control ==
    \A p \in Setter :
        /\ pc[p] = "readRow" => PinsRow(job[p])
        /\ pc[p] \in {"idle", "load", "rebuild"} => job[p] = NoProfile

\* r is what a scan that has judged the patterns a should have found.
Chosen(r, a, w, t) ==
    \/ Blocks(a, w, t) = {} /\ r = Clean
    \/ /\ r \in Blocks(a, w, t)
       /\ \A q \in Blocks(a, w, t) :
             r.score > q.score \/ (r.score = q.score /\ r.pattern <= q.pattern)

\* How far a scan that no change has crossed has come.
ScanProgress(s) ==
    /\ at[s] # "idle" => used[s] = weights
    /\ at[s] = "lookup" => left[s] = patterns /\ best[s] = Clean
    /\ at[s] = "judge" =>
          /\ left[s] \subseteq patterns
          /\ Chosen(best[s], patterns \ left[s], weights, thresholds)

ScansInv == (\A s \in Scanner : s \notin crossed => ScanProgress(s)) /\ CacheCurrent

\* One update at a time: what it has written, and what of that is live.
SyncInv ==
    ~mixed =>
        /\ \A p, q \in Setter : (pc[p] \in Window /\ pc[q] \in Window) => p = q
        /\ \A p \in Setter : pc[p] \in Window => cur[p] = row
        /\ \A p \in Setter : pc[p] = "weights" => thresholds = row.thresholds
        /\ DLPInSync

\* The steps after the policies are written.
AfterPolicies ==
    {"readRow", "writeRow", "thresholds", "weights", "reset", "reload", "hold"}

PinnedRow(q, r) ==
    /\ q.thresholds # Keep => r.thresholds = q.thresholds
    /\ q.weights # Keep => r.weights = q.weights

Live == [thresholds |-> thresholds, weights |-> weights]

\* How far a profile has come that nothing overlaps.
ApplyProgress(p) ==
    /\ pc[p] = "policies" =>
          /\ \A c \in DOMAIN todo[p] :
                c \in DOMAIN job[p].policies /\ todo[p][c] = job[p].policies[c]
          /\ \A c \in DOMAIN job[p].policies \ DOMAIN todo[p] :
                table[c] = job[p].policies[c]
    /\ pc[p] \in AfterPolicies =>
          \A c \in DOMAIN job[p].policies : table[c] = job[p].policies[c]
    /\ pc[p] = "writeRow" => PinnedRow(job[p], cur[p])
    /\ pc[p] \in {"thresholds", "weights"} => row = cur[p] /\ PinnedRow(job[p], row)
    /\ pc[p] = "weights" => thresholds = row.thresholds
    /\ pc[p] \in {"reset", "reload", "hold"} =>
          PinnedRow(job[p], row) /\ PinnedRow(job[p], Live)
    /\ pc[p] = "hold" => engine = table

AloneInv ==
    \A p \in Setter : alone[p] =>
        /\ \A q \in Setter : q # p => pc[q] = "idle"
        /\ job[p] # NoProfile => ApplyProgress(p)

\* While the baseline rules there is nothing under way but new rules.
BaselineInv ==
    /\ BaselineKept
    /\ baseline # NoProfile =>
          /\ baseline = holder /\ Locked
          /\ \A p \in Setter :
                /\ pc[p] \in {"idle", "rebuild", "reset"}
                /\ job[p] = NoProfile


-----------------------------------------------------------------------------
LEMMA NothingToWrite == Nothing \in Pins
<1>1. Nothing \in [{} -> Action] /\ {} \in SUBSET Category
  BY DEF Nothing
<1> QED BY <1>1 DEF Pins

LEMMA PinsRange ==
    ASSUME NEW w \in Pins, NEW c \in DOMAIN w
    PROVE  c \in Category /\ w[c] \in Action
BY DEF Pins

LEMMA PinsWithout ==
    ASSUME NEW w \in Pins, NEW c
    PROVE  [x \in DOMAIN w \ {c} |-> w[x]] \in Pins
<1>1. PICK C \in SUBSET Category : w \in [C -> Action]
  BY DEF Pins
<1>2. [x \in DOMAIN w \ {c} |-> w[x]] \in [C \ {c} -> Action]
  BY <1>1
<1>3. C \ {c} \in SUBSET Category
  BY <1>1
<1> QED BY <1>2, <1>3 DEF Pins

LEMMA ProfileFields ==
    ASSUME NEW q \in Profiles
    PROVE  /\ q # NoProfile
           /\ q.managed \in BOOLEAN /\ q.policies \in Pins
           /\ q.thresholds \in Thresholds \cup {Keep}
           /\ q.weights \in Weights \cup {Keep}
BY ProfilesAssumption

LEMMA MergeType ==
    ASSUME NEW q \in Profiles, NEW r \in Rows
    PROVE  Merge(q, r) \in Rows /\ PinnedRow(q, Merge(q, r))
BY ProfileFields DEF Merge, Pinned, Rows, PinnedRow

LEMMA InitialRowType == InitialRow \in Rows
BY DefaultAssumption DEF InitialRow, Rows

LEMMA CleanIsResult == Clean \in Result
BY DEF Result

LEMMA JudgeType ==
    ASSUME NEW p \in Pattern, NEW w \in Weights, NEW t
    PROVE  Judge(p, w, t) \in Result
<1>1. Block(p, Score[p, w]) \in Result
  <2>1. Block(p, Score[p, w]) \in {Block(p, Score[p, v]) : v \in Weights}
    OBVIOUS
  <2> QED BY <2>1 DEF Result
<1> QED BY <1>1, CleanIsResult DEF Judge

-----------------------------------------------------------------------------
(* Type correctness                                                        *)

LEMMA DoneType ==
    ASSUME TypeOK, NEW p \in Setter, Done(p)
    PROVE  /\ pc' \in [Setter -> PC]
           /\ job' \in [Setter -> Profiles \cup {NoProfile}]
           /\ todo' \in [Setter -> Pins]
           /\ cur' \in [Setter -> Rows]
           /\ alone' \in [Setter -> BOOLEAN]
           /\ starting' \in BOOLEAN
<1>1. pc' \in [Setter -> PC]
  BY DEF Done, Goto, TypeOK, PC
<1>2. job' \in [Setter -> Profiles \cup {NoProfile}]
  BY DEF Done, TypeOK
<1>3. todo' \in [Setter -> Pins]
  BY NothingToWrite DEF Done, TypeOK
<1>4. cur' \in [Setter -> Rows]
  BY InitialRowType DEF Done, TypeOK
<1>5. alone' \in [Setter -> BOOLEAN] /\ starting' \in BOOLEAN
  BY DEF Done, TypeOK
<1> QED BY <1>1, <1>2, <1>3, <1>4, <1>5

LEMMA ApplyBeginsType ==
    ASSUME TypeOK, NEW p \in Setter, NEW q \in Profiles, ApplyBegins(p, q)
    PROVE  /\ job' \in [Setter -> Profiles \cup {NoProfile}]
           /\ todo' \in [Setter -> Pins]
           /\ cur' \in [Setter -> Rows]
           /\ baseline' \in Profiles \cup {NoProfile}
<1>1. job' \in [Setter -> Profiles \cup {NoProfile}]
  BY DEF ApplyBegins, TypeOK
<1>2. todo' \in [Setter -> Pins]
  BY ProfileFields DEF ApplyBegins, TypeOK
<1> QED BY <1>1, <1>2 DEF ApplyBegins, TypeOK

LEMMA BeginType ==
    ASSUME TypeOK, NEW p \in Setter, NEW s \in PC, Begin(p, s)
    PROVE  /\ pc' \in [Setter -> PC]
           /\ alone' \in [Setter -> BOOLEAN]
<1>1. pc' \in [Setter -> PC]
  BY DEF Begin, Goto, TypeOK
<1> QED BY <1>1 DEF Begin

LEMMA ScanEndsType ==
    ASSUME TypeOK, NEW s \in Scanner, ScanEnds(s)
    PROVE  /\ at' \in [Scanner -> {"idle", "lookup", "judge"}]
           /\ used' \in [Scanner -> Weights]
           /\ left' \in [Scanner -> SUBSET Pattern]
           /\ best' \in [Scanner -> Result]
           /\ crossed' \subseteq Scanner
<1>1. best' \in [Scanner -> Result]
  BY CleanIsResult DEF ScanEnds, TypeOK, ScanTypeOK
<1>2. /\ at' \in [Scanner -> {"idle", "lookup", "judge"}]
      /\ left' \in [Scanner -> SUBSET Pattern]
  BY DEF ScanEnds, TypeOK, ScanTypeOK
<1>3. used' \in [Scanner -> Weights] /\ crossed' \subseteq Scanner
  BY DEF ScanEnds, TypeOK, ScanTypeOK
<1> QED BY <1>1, <1>2, <1>3

LEMMA InitType == Init => TypeOK /\ Control
<1> SUFFICES ASSUME Init PROVE TypeOK /\ Control
  OBVIOUS
<1>1. row \in Rows /\ table \in [Category -> Action] /\ engine \in [Category -> Action]
  BY InitialRowType, DefaultAssumption DEF Init
<1>2. ScanTypeOK
  <2>1. row.thresholds \in Thresholds /\ row.weights \in Weights
    BY <1>1 DEF Rows
  <2>2. PICK a \in PatternSet : ScanInit(row.thresholds, row.weights, a)
    BY DEF Init
  <2> QED BY <2>1, <2>2, CleanIsResult DEF ScanInit, ScanTypeOK
<1>3. pc \in [Setter -> PC]
  BY DEF Init, PC
<1>4. todo \in [Setter -> Pins] /\ cur \in [Setter -> Rows]
  BY NothingToWrite, InitialRowType DEF Init
<1>5. trouble \in 0..MaxTrouble
  BY TroubleAssumption DEF Init
<1>6. Control
  BY DEF Init, Control
<1> QED BY <1>1, <1>2, <1>3, <1>4, <1>5, <1>6 DEF Init, TypeOK

LEMMA NextType == TypeOK /\ Control /\ [Next]_vars => TypeOK' /\ Control'
<1> SUFFICES ASSUME TypeOK, Control, [Next]_vars
             PROVE  TypeOK' /\ Control'
  OBVIOUS
<1>a. Trouble => trouble' \in 0..MaxTrouble
  BY TroubleAssumption DEF Trouble, TypeOK
<1>b. \A p \in Setter : pc[p] # "idle" => pc[p] \in PC
  BY DEF TypeOK
<1>1. ASSUME NEW p \in Api, NEW r \in Rows, PutConfig(p, r)
      PROVE  TypeOK' /\ Control'
  <2>1. p \in Setter /\ "writeRow" \in PC
    BY ActorAssumption DEF PC
  <2>2. Begin(p, "writeRow") /\ trouble' \in 0..MaxTrouble
    BY <1>1, <1>a DEF PutConfig, Request
  <2>3. pc' \in [Setter -> PC] /\ alone' \in [Setter -> BOOLEAN]
    BY <2>1, <2>2, BeginType
  <2>4. cur' \in [Setter -> Rows]
    BY <1>1 DEF PutConfig, TypeOK
  <2>5. TypeOK'
    BY <1>1, <2>2, <2>3, <2>4
    DEF PutConfig, Request, Begin, TypeOK, ScanTypeOK, pipeline, settings, scans, entry, tables
  <2>6. Control'
    BY <1>1, <2>1, <2>2 DEF PutConfig, Begin, Goto, Control, TypeOK
  <2> QED BY <2>5, <2>6
<1>2. ASSUME NEW p \in Api, NEW w \in Pins, PutPolicies(p, w)
      PROVE  TypeOK' /\ Control'
  <2>1. p \in Setter /\ "policies" \in PC
    BY ActorAssumption DEF PC
  <2>2. Begin(p, "policies") /\ trouble' \in 0..MaxTrouble
    BY <1>2, <1>a DEF PutPolicies, Request
  <2>3. pc' \in [Setter -> PC] /\ alone' \in [Setter -> BOOLEAN]
    BY <2>1, <2>2, BeginType
  <2>4. todo' \in [Setter -> Pins]
    BY <1>2 DEF PutPolicies, TypeOK
  <2>5. TypeOK'
    BY <1>2, <2>2, <2>3, <2>4
    DEF PutPolicies, Request, Begin, TypeOK, ScanTypeOK, pipeline, settings, scans, entry, tables
  <2>6. Control'
    BY <1>2, <2>1, <2>2 DEF PutPolicies, Begin, Goto, Control, TypeOK
  <2> QED BY <2>5, <2>6
<1>3. ASSUME NEW p \in Api, NEW q \in Profiles, Import(p, q)
      PROVE  TypeOK' /\ Control'
  <2>1. p \in Setter /\ "policies" \in PC
    BY ActorAssumption DEF PC
  <2>2. Begin(p, "policies") /\ trouble' \in 0..MaxTrouble /\ ApplyBegins(p, q)
    BY <1>3, <1>a DEF Import, Request
  <2>3. pc' \in [Setter -> PC] /\ alone' \in [Setter -> BOOLEAN]
    BY <2>1, <2>2, BeginType
  <2>4. /\ job' \in [Setter -> Profiles \cup {NoProfile}]
        /\ todo' \in [Setter -> Pins]
        /\ cur' \in [Setter -> Rows]
        /\ baseline' \in Profiles \cup {NoProfile}
    BY <2>1, <2>2, ApplyBeginsType
  <2>5. TypeOK'
    BY <1>3, <2>2, <2>3, <2>4
    DEF Import, Request, Begin, TypeOK, ScanTypeOK, pipeline, settings, scans, entry, tables
  <2>6. Control'
    BY <2>1, <2>2 DEF Begin, ApplyBegins, Goto, Control, TypeOK
  <2> QED BY <2>5, <2>6
<1>4. ASSUME NEW p \in Api, UpdateRules(p)
      PROVE  TypeOK' /\ Control'
  <2>1. p \in Setter /\ "rebuild" \in PC
    BY ActorAssumption DEF PC
  <2>2. Begin(p, "rebuild") /\ trouble' \in 0..MaxTrouble
    BY <1>4, <1>a DEF UpdateRules, Request
  <2>3. pc' \in [Setter -> PC] /\ alone' \in [Setter -> BOOLEAN]
    BY <2>1, <2>2, BeginType
  <2>5. TypeOK'
    BY <1>4, <2>2, <2>3
    DEF UpdateRules, Request, Begin, TypeOK, ScanTypeOK, pipeline, settings, scans, entry,
        tables, locals
  <2>6. Control'
    BY <1>4, <2>1, <2>2 DEF UpdateRules, Begin, Goto, Control, TypeOK, locals
  <2> QED BY <2>5, <2>6
<1>5. ASSUME Refresh
      PROVE  TypeOK' /\ Control'
  <2>1. Main \in Setter /\ "policies" \in PC /\ published \in Profiles
    BY ActorAssumption DEF PC, TypeOK
  <2>2. Begin(Main, "policies") /\ ApplyBegins(Main, published)
    BY <1>5 DEF Refresh
  <2>3. pc' \in [Setter -> PC] /\ alone' \in [Setter -> BOOLEAN]
    BY <2>1, <2>2, BeginType
  <2>4. /\ job' \in [Setter -> Profiles \cup {NoProfile}]
        /\ todo' \in [Setter -> Pins]
        /\ cur' \in [Setter -> Rows]
        /\ baseline' \in Profiles \cup {NoProfile}
    BY <2>1, <2>2, ApplyBeginsType
  <2>5. TypeOK'
    BY <1>5, <2>1, <2>2, <2>3, <2>4
    DEF Refresh, Begin, TypeOK, ScanTypeOK, pipeline, settings, scans, entry, tables
  <2>6. Control'
    BY <2>1, <2>2 DEF Begin, ApplyBegins, Goto, Control, TypeOK
  <2> QED BY <2>5, <2>6
<1>6. ASSUME Load
      PROVE  TypeOK' /\ Control'
  <2>1. Main \in Setter /\ "policies" \in PC /\ published \in Profiles
    BY ActorAssumption DEF PC, TypeOK
  <2>2. ApplyBegins(Main, published)
    BY <1>6 DEF Load
  <2>3. pc' \in [Setter -> PC]
    BY <1>6, <2>1 DEF Load, Goto, TypeOK
  <2>4. /\ job' \in [Setter -> Profiles \cup {NoProfile}]
        /\ todo' \in [Setter -> Pins]
        /\ cur' \in [Setter -> Rows]
        /\ baseline' \in Profiles \cup {NoProfile}
    BY <2>1, <2>2, ApplyBeginsType
  <2>5. TypeOK'
    BY <1>6, <2>3, <2>4
    DEF Load, TypeOK, ScanTypeOK, pipeline, settings, scans, entry, tables, fleet
  <2>6. Control'
    BY <1>6, <2>1, <2>2 DEF Load, ApplyBegins, Goto, Control, TypeOK
  <2> QED BY <2>5, <2>6
<1>7. ASSUME LoadFails
      PROVE  TypeOK' /\ Control'
  <2>1. Main \in Setter /\ Done(Main) /\ trouble' \in 0..MaxTrouble
    BY <1>7, <1>a, ActorAssumption DEF LoadFails
  <2>5. TypeOK'
    BY <1>7, <2>1, DoneType
    DEF LoadFails, TypeOK, ScanTypeOK, pipeline, settings, scans, entry, tables
  <2>6. Control'
    BY <2>1 DEF Done, Goto, Control, TypeOK
  <2> QED BY <2>5, <2>6
<1>8. ASSUME NEW p \in Setter, NEW c \in Category, SetPolicy(p, c)
      PROVE  TypeOK' /\ Control'
  <2>1. todo[p] \in Pins /\ c \in DOMAIN todo[p]
    BY <1>8 DEF SetPolicy, TypeOK
  <2>2. table' \in [Category -> Action]
    BY <1>8, <2>1, PinsRange DEF SetPolicy, TypeOK
  <2>3. todo' \in [Setter -> Pins]
    BY <1>8, <2>1, PinsWithout DEF SetPolicy, TypeOK
  <2>5. TypeOK'
    BY <1>8, <2>2, <2>3
    DEF SetPolicy, TypeOK, ScanTypeOK, pipeline, settings, scans, entry, fleet, history
  <2>6. Control'
    BY <1>8 DEF SetPolicy, Control
  <2> QED BY <2>5, <2>6
<1>9. ASSUME NEW p \in Setter, PoliciesSet(p)
      PROVE  TypeOK' /\ Control'
  <2>3. pc' \in [Setter -> PC]
    BY <1>9 DEF PoliciesSet, Goto, TypeOK, PC
  <2>5. TypeOK'
    BY <1>9, <2>3
    DEF PoliciesSet, TypeOK, ScanTypeOK, pipeline, settings, scans, entry, tables, fleet,
        locals, history
  <2>6. Control'
    BY <1>9 DEF PoliciesSet, Control, Goto, TypeOK, locals
  <2> QED BY <2>5, <2>6
<1>10. ASSUME NEW p \in Setter, ReadRow(p)
       PROVE  TypeOK' /\ Control'
  <2>1. job[p] \in Profiles /\ row \in Rows
    BY <1>10 DEF ReadRow, Control, PinsRow, TypeOK
  <2>2. cur' \in [Setter -> Rows]
    BY <1>10, <2>1, MergeType DEF ReadRow, TypeOK
  <2>3. pc' \in [Setter -> PC]
    BY <1>10 DEF ReadRow, Goto, TypeOK, PC
  <2>5. TypeOK'
    BY <1>10, <2>2, <2>3
    DEF ReadRow, TypeOK, ScanTypeOK, pipeline, settings, scans, entry, tables, fleet, history
  <2>6. Control'
    BY <1>10 DEF ReadRow, Control, Goto, TypeOK
  <2> QED BY <2>5, <2>6
<1>11. ASSUME NEW p \in Setter, WriteRow(p)
       PROVE  TypeOK' /\ Control'
  <2>2. row' \in Rows /\ mixed' \in BOOLEAN
    BY <1>11 DEF WriteRow, TypeOK
  <2>3. pc' \in [Setter -> PC]
    BY <1>11 DEF WriteRow, Goto, TypeOK, PC
  <2>5. TypeOK'
    BY <1>11, <2>2, <2>3
    DEF WriteRow, TypeOK, ScanTypeOK, pipeline, settings, scans, entry, fleet, locals
  <2>6. Control'
    BY <1>11 DEF WriteRow, Control, Goto, TypeOK, locals
  <2> QED BY <2>5, <2>6
<1>12. ASSUME NEW p \in Setter, LiveThresholds(p)
       PROVE  TypeOK' /\ Control'
  <2>1. cur[p].thresholds \in Thresholds
    BY DEF TypeOK, Rows
  <2>3. pc' \in [Setter -> PC]
    BY <1>12 DEF LiveThresholds, Goto, TypeOK, PC
  <2>4. ScanTypeOK'
    BY <1>12, <2>1 DEF LiveThresholds, SetThresholds, Changed, TypeOK, ScanTypeOK, entry
  <2>5. TypeOK'
    BY <1>12, <2>3, <2>4 DEF LiveThresholds, TypeOK, tables, fleet, locals, history
  <2>6. Control'
    BY <1>12 DEF LiveThresholds, Control, Goto, TypeOK, locals
  <2> QED BY <2>5, <2>6
<1>13. ASSUME NEW p \in Setter, LiveWeights(p)
       PROVE  TypeOK' /\ Control'
  <2>1. cur[p].weights \in Weights
    BY DEF TypeOK, Rows
  <2>3. pc' \in [Setter -> PC]
    BY <1>13 DEF LiveWeights, Goto, TypeOK, PC
  <2>4. ScanTypeOK'
    BY <1>13, <2>1 DEF LiveWeights, SetWeights, Changed, TypeOK, ScanTypeOK, entry
  <2>5. TypeOK'
    BY <1>13, <2>3, <2>4 DEF LiveWeights, TypeOK, tables, fleet, locals, history
  <2>6. Control'
    BY <1>13 DEF LiveWeights, Control, Goto, TypeOK, locals
  <2> QED BY <2>5, <2>6
<1>14. ASSUME NEW p \in Setter, LivePatterns(p)
       PROVE  TypeOK' /\ Control'
  <2>3. pc' \in [Setter -> PC]
    BY <1>14 DEF LivePatterns, Goto, TypeOK, PC
  <2>4. ScanTypeOK'
    BY <1>14 DEF LivePatterns, Rebuild, Changed, TypeOK, ScanTypeOK, entry
  <2>5. TypeOK'
    BY <1>14, <2>3, <2>4 DEF LivePatterns, TypeOK, tables, fleet, locals, history
  <2>6. Control'
    BY <1>14 DEF LivePatterns, Control, Goto, TypeOK, locals
  <2> QED BY <2>5, <2>6
<1>15. ASSUME NEW p \in Setter, Reset(p)
       PROVE  TypeOK' /\ Control'
  <2>4. ScanTypeOK'
    BY <1>15 DEF Reset, ResetCache, TypeOK, ScanTypeOK, settings, scans
  <2>5. CASE Done(p)
    <3>1. TypeOK'
      BY <1>15, <2>4, <2>5, DoneType DEF Reset, TypeOK, tables
    <3>2. Control'
      BY <2>5 DEF Done, Goto, Control, TypeOK
    <3> QED BY <3>1, <3>2
  <2>6. CASE Goto(p, "reload") /\ UNCHANGED <<locals, alone, starting>>
    <3>1. pc' \in [Setter -> PC]
      BY <2>6 DEF Goto, TypeOK, PC
    <3>2. TypeOK'
      BY <1>15, <2>4, <2>6, <3>1 DEF Reset, TypeOK, tables, locals
    <3>3. Control'
      BY <2>6 DEF Goto, Control, TypeOK, locals
    <3> QED BY <3>2, <3>3
  <2> QED BY <1>15, <2>5, <2>6 DEF Reset
<1>16. ASSUME NEW p \in Setter, Reload(p)
       PROVE  TypeOK' /\ Control'
  <2>4. ScanTypeOK' /\ engine' \in [Category -> Action]
    BY <1>16 DEF Reload, TypeOK, ScanTypeOK, pipeline, settings, scans, entry
  <2>5. CASE Done(p)
    <3>1. TypeOK'
      BY <1>16, <2>4, <2>5, DoneType DEF Reload, TypeOK
    <3>2. Control'
      BY <2>5 DEF Done, Goto, Control, TypeOK
    <3> QED BY <3>1, <3>2
  <2>6. CASE Goto(p, "hold") /\ UNCHANGED <<locals, alone, starting>>
    <3>1. pc' \in [Setter -> PC]
      BY <2>6 DEF Goto, TypeOK, PC
    <3>2. TypeOK'
      BY <1>16, <2>4, <2>6, <3>1 DEF Reload, TypeOK, locals
    <3>3. Control'
      BY <2>6 DEF Goto, Control, TypeOK, locals
    <3> QED BY <3>2, <3>3
  <2> QED BY <1>16, <2>5, <2>6 DEF Reload
<1>17. ASSUME NEW p \in Setter, Hold(p)
       PROVE  TypeOK' /\ Control'
  <2>1. Done(p) /\ holder' \in Profiles \cup {NoProfile}
        /\ baseline' \in Profiles \cup {NoProfile}
    BY <1>17 DEF Hold, TypeOK
  <2>5. TypeOK'
    BY <1>17, <2>1, DoneType
    DEF Hold, TypeOK, ScanTypeOK, pipeline, settings, scans, entry, tables
  <2>6. Control'
    BY <2>1 DEF Done, Goto, Control, TypeOK
  <2> QED BY <2>5, <2>6
<1>18. ASSUME NEW p \in Setter, Fail(p)
       PROVE  TypeOK' /\ Control'
  <2>1. Done(p) /\ trouble' \in 0..MaxTrouble
    BY <1>18, <1>a DEF Fail
  <2>5. TypeOK'
    BY <1>18, <2>1, DoneType
    DEF Fail, TypeOK, ScanTypeOK, pipeline, settings, scans, entry, tables
  <2>6. Control'
    BY <2>1 DEF Done, Goto, Control, TypeOK
  <2> QED BY <2>5, <2>6
<1>19. ASSUME NEW s \in Scanner, Scanning(s)
       PROVE  TypeOK' /\ Control'
  <2>1. ScanTypeOK'
    <3>1. CASE ScanBegin(s)
      <4>1. weights \in Weights /\ patterns \in SUBSET Pattern
        BY PatternAssumption DEF TypeOK, ScanTypeOK
      <4>2. best' \in [Scanner -> Result]
        BY <3>1, CleanIsResult DEF ScanBegin, TypeOK, ScanTypeOK
      <4>3. /\ at' \in [Scanner -> {"idle", "lookup", "judge"}]
            /\ used' \in [Scanner -> Weights]
            /\ left' \in [Scanner -> SUBSET Pattern]
        BY <3>1, <4>1 DEF ScanBegin, TypeOK, ScanTypeOK
      <4> QED BY <3>1, <4>2, <4>3 DEF ScanBegin, TypeOK, ScanTypeOK, settings, entry
    <3>2. CASE Hit(s)
      BY <3>2, ScanEndsType DEF Hit, TypeOK, ScanTypeOK, settings, entry
    <3>3. CASE Miss(s)
      BY <3>3 DEF Miss, TypeOK, ScanTypeOK, settings, entry
    <3>4. CASE Answer(s)
      <4>1. cache' \in Result \cup {NoEntry} /\ tainted' \in BOOLEAN
        <5>1. CASE caching
          BY <3>4, <5>1 DEF Answer, TypeOK, ScanTypeOK
        <5>2. CASE ~caching
          BY <3>4, <5>2 DEF Answer, TypeOK, ScanTypeOK
        <5> QED BY <5>1, <5>2
      <4>2. ScanEnds(s) /\ UNCHANGED <<settings, unsettled>>
        BY <3>4 DEF Answer
      <4>3. /\ at' \in [Scanner -> {"idle", "lookup", "judge"}]
            /\ used' \in [Scanner -> Weights]
            /\ left' \in [Scanner -> SUBSET Pattern]
            /\ best' \in [Scanner -> Result]
            /\ crossed' \subseteq Scanner
        BY <4>2, ScanEndsType
      <4>4. /\ thresholds' \in Thresholds /\ weights' \in Weights
            /\ patterns' \in PatternSet /\ caching' \in BOOLEAN
            /\ unsettled' \subseteq Setter
        BY <4>2 DEF TypeOK, ScanTypeOK, settings
      <4> QED BY <4>1, <4>3, <4>4 DEF ScanTypeOK
    <3>5. ASSUME NEW p \in Pattern, JudgePattern(s, p)
          PROVE  ScanTypeOK'
      <4>1. Judge(p, used[s], thresholds) \in Result
        BY JudgeType DEF TypeOK, ScanTypeOK
      <4>2. best' \in [Scanner -> Result]
        BY <3>5, <4>1 DEF JudgePattern, TypeOK, ScanTypeOK
      <4> QED BY <3>5, <4>2 DEF JudgePattern, TypeOK, ScanTypeOK, settings, entry
    <3> QED BY <1>19, <3>1, <3>2, <3>3, <3>4, <3>5 DEF Scanning, ScanStep
  <2>2. TypeOK' /\ Control'
    BY <1>19, <2>1 DEF Scanning, TypeOK, Control, others, tables, fleet, locals, history
  <2> QED BY <2>2
<1>20. ASSUME Expiry
       PROVE  TypeOK' /\ Control'
  <2>1. ScanTypeOK'
    BY <1>20 DEF Expiry, Expire, TypeOK, ScanTypeOK, settings, scans
  <2> QED BY <1>20, <2>1 DEF Expiry, TypeOK, Control, others, tables, fleet, locals, history
<1>21. ASSUME Publish
       PROVE  TypeOK' /\ Control'
  BY <1>21, <1>a
  DEF Publish, TypeOK, ScanTypeOK, Control, pipeline, settings, scans, entry, tables, locals,
      history
<1>22. ASSUME Restart
       PROVE  TypeOK' /\ Control'
  <2>1. row.thresholds \in Thresholds /\ row.weights \in Weights
    BY DEF TypeOK, Rows
  <2>2. ScanTypeOK'
    BY <1>22, <2>1, CleanIsResult DEF Restart, Fresh, TypeOK, ScanTypeOK
  <2>3. pc' \in [Setter -> PC]
    BY <1>22 DEF Restart, PC
  <2>4. todo' \in [Setter -> Pins] /\ cur' \in [Setter -> Rows]
    BY <1>22, NothingToWrite, InitialRowType DEF Restart
  <2>5. TypeOK'
    BY <1>22, <1>a, <2>2, <2>3, <2>4 DEF Restart, TypeOK
  <2>6. Control'
    BY <1>22 DEF Restart, Control
  <2> QED BY <2>5, <2>6
<1>23. CASE UNCHANGED vars
  BY <1>23
  DEF vars, TypeOK, ScanTypeOK, Control, pipeline, settings, scans, entry, tables, fleet,
      locals, history
<1> QED
  BY <1>1, <1>2, <1>3, <1>4, <1>5, <1>6, <1>7, <1>8, <1>9, <1>10, <1>11, <1>12, <1>13,
     <1>14, <1>15, <1>16, <1>17, <1>18, <1>19, <1>20, <1>21, <1>22, <1>23
  DEF Next, Asks, Advance

\* The whole configuration is well-formed in every reachable state.
THEOREM TypeCorrect == Spec => []TypeOK
<1>1. Init => TypeOK /\ Control
  BY InitType
<1>2. (TypeOK /\ Control) /\ [Next]_vars => (TypeOK /\ Control)'
  BY NextType
<1> QED BY <1>1, <1>2, PTL DEF Spec

-----------------------------------------------------------------------------
(* Scans                                                                   *)

LEMMA BlockFields ==
    ASSUME NEW p \in Pattern, NEW w \in Weights
    PROVE  /\ Block(p, Score[p, w]).blocked
           /\ Block(p, Score[p, w]).pattern = p /\ p \in Nat \ {0}
           /\ Block(p, Score[p, w]).score = Score[p, w] /\ Score[p, w] \in Int
BY PatternAssumption, ScoreAssumption DEF Block

\* At most one verdict is the best.
LEMMA VerdictUnique ==
    ASSUME NEW a \in SUBSET Pattern, NEW w \in Weights, NEW t \in Thresholds, NEW r,
           Chosen(r, a, w, t)
    PROVE  r = Verdict(a, w, t)
<1>1. CASE Blocks(a, w, t) = {}
  BY <1>1 DEF Chosen, Verdict
<1>2. CASE Blocks(a, w, t) # {}
  <2> DEFINE Best(x) == \A q \in Blocks(a, w, t) :
                           x.score > q.score \/ (x.score = q.score /\ x.pattern <= q.pattern)
  <2>1. r \in Blocks(a, w, t) /\ Best(r)
    BY <1>2 DEF Chosen
  <2>2. Verdict(a, w, t) = CHOOSE x \in Blocks(a, w, t) : Best(x)
    BY <1>2 DEF Verdict
  <2>3. PICK v \in Blocks(a, w, t) : v = Verdict(a, w, t) /\ Best(v)
    BY <2>1, <2>2
  <2>4. PICK p \in a : r = Block(p, Score[p, w])
    BY <2>1 DEF Blocks
  <2>5. PICK q \in a : v = Block(q, Score[q, w])
    BY <2>3 DEF Blocks
  <2>6. /\ r.score > v.score \/ (r.score = v.score /\ r.pattern <= v.pattern)
        /\ v.score > r.score \/ (v.score = r.score /\ v.pattern <= r.pattern)
    BY <2>1, <2>3
  <2>7. /\ r.pattern = p /\ v.pattern = q /\ p \in Nat /\ q \in Nat
        /\ r.score \in Int /\ v.score \in Int
    <3>1. p \in Pattern /\ q \in Pattern
      OBVIOUS
    <3> QED BY <2>4, <2>5, <3>1, BlockFields
  <2>8. p = q
    BY <2>6, <2>7
  <2> QED BY <2>3, <2>4, <2>5, <2>8
<1> QED BY <1>1, <1>2

\* Judging one more pattern keeps the best so far.
LEMMA ChosenExtends ==
    ASSUME NEW a \in SUBSET Pattern, NEW w \in Weights, NEW t \in Thresholds, NEW b,
           NEW p \in Pattern, Chosen(b, a, w, t)
    PROVE  LET r == Judge(p, w, t) IN
           Chosen(IF Prefer(r, b) THEN r ELSE b, a \cup {p}, w, t)
<1> DEFINE r == Judge(p, w, t)
           c == IF Prefer(r, b) THEN r ELSE b
           B == Block(p, Score[p, w])
<1>0. ~Clean.blocked
  BY DEF Clean
<1>1. CASE ~(Score[p, w] >= Need[p, t])
  <2>1. r = Clean /\ c = b
    BY <1>0, <1>1 DEF Judge, Prefer
  <2>2. Blocks(a \cup {p}, w, t) = Blocks(a, w, t)
    BY <1>1 DEF Blocks
  <2> QED BY <2>1, <2>2 DEF Chosen
<1>2. CASE Score[p, w] >= Need[p, t]
  <2>1. r = B
    BY <1>2 DEF Judge
  <2>2. Blocks(a \cup {p}, w, t) = Blocks(a, w, t) \cup {B}
    BY <1>2 DEF Blocks
  <2>3. B.blocked
    BY BlockFields
  <2>n. B.pattern \in Nat /\ B.score \in Int
    BY BlockFields
  <2> HIDE DEF B
  <2>4. CASE Blocks(a, w, t) = {}
    <3>1. b = Clean
      BY <2>4 DEF Chosen
    <3>2. c = B
      BY <1>0, <2>1, <2>3, <3>1 DEF Prefer
    <3>3. Blocks(a \cup {p}, w, t) = {B}
      BY <2>2, <2>4
    <3>4. B.score = B.score /\ B.pattern <= B.pattern
      BY <2>n
    <3> QED BY <3>2, <3>3, <3>4 DEF Chosen
  <2>5. CASE Blocks(a, w, t) # {}
    <3>1. /\ b \in Blocks(a, w, t)
          /\ \A q \in Blocks(a, w, t) :
                b.score > q.score \/ (b.score = q.score /\ b.pattern <= q.pattern)
      BY <2>5 DEF Chosen
    <3>2. ASSUME NEW x \in Blocks(a, w, t)
          PROVE  x.score \in Int /\ x.pattern \in Nat
      <4>1. PICK q \in a : x = Block(q, Score[q, w])
        BY DEF Blocks
      <4>2. q \in Pattern
        OBVIOUS
      <4> QED BY <4>1, <4>2, BlockFields
    <3>b. b.blocked
      <4>1. PICK q \in a : b = Block(q, Score[q, w])
        BY <3>1 DEF Blocks
      <4>2. q \in Pattern
        OBVIOUS
      <4> QED BY <4>1, <4>2, BlockFields
    <3>3. CASE Prefer(r, b)
      <4>1. c = B /\ (B.score > b.score \/ (B.score = b.score /\ B.pattern < b.pattern))
        BY <2>1, <3>b, <3>3 DEF Prefer
      <4>2. \A q \in Blocks(a, w, t) :
               B.score > q.score \/ (B.score = q.score /\ B.pattern <= q.pattern)
        BY <2>n, <3>1, <3>2, <4>1
      <4>3. B.score = B.score /\ B.pattern <= B.pattern
        BY <2>n
      <4> QED BY <2>2, <4>1, <4>2, <4>3 DEF Chosen
    <3>4. CASE ~Prefer(r, b)
      <4>1. c = b /\ ~(B.score > b.score) /\ ~(B.score = b.score /\ B.pattern < b.pattern)
        BY <2>1, <2>3, <3>4 DEF Prefer
      <4>2. b.score > B.score \/ (b.score = B.score /\ b.pattern <= B.pattern)
        BY <2>n, <3>1, <3>2, <4>1
      <4> QED BY <2>2, <3>1, <4>1, <4>2 DEF Chosen
    <3> QED BY <3>3, <3>4
  <2> QED BY <2>4, <2>5
<1> QED BY <1>1, <1>2

\* What a step does to the pipeline.
LEMMA PipelineSteps ==
    ASSUME TypeOK, [Next]_vars
    PROVE  \/ UNCHANGED pipeline
           \/ \E p \in Setter :
                 \/ \E t \in Thresholds : SetThresholds(p, t)
                 \/ \E w \in Weights : SetWeights(p, w)
                 \/ \E a \in PatternSet : Rebuild(p, a)
                 \/ ResetCache(p)
           \/ \E s \in Scanner : ScanBegin(s) \/ ScanStep(s)
           \/ Expire
           \/ Fresh(row.thresholds, row.weights, patterns) /\ UNCHANGED caching
<1>0. \A p \in Setter : cur[p].thresholds \in Thresholds /\ cur[p].weights \in Weights
  BY DEF TypeOK, Rows
<1>1. ASSUME NEW p \in Api, Asks(p)
      PROVE  UNCHANGED pipeline
  BY <1>1 DEF Asks, PutConfig, PutPolicies, Import, UpdateRules, Request, Begin
<1>2. ASSUME NEW p \in Setter, Fail(p)
      PROVE  UNCHANGED pipeline
  BY <1>2 DEF Fail
<1>3. CASE Load \/ LoadFails \/ Refresh \/ Publish \/ UNCHANGED vars
  BY <1>3 DEF Load, LoadFails, Refresh, Begin, Publish, vars
<1>4. ASSUME NEW p \in Setter, Advance(p)
      PROVE  \/ UNCHANGED pipeline
             \/ \E t \in Thresholds : SetThresholds(p, t)
             \/ \E w \in Weights : SetWeights(p, w)
             \/ \E a \in PatternSet : Rebuild(p, a)
             \/ ResetCache(p)
  <2>1. CASE LiveThresholds(p)
    BY <1>0, <2>1 DEF LiveThresholds
  <2>2. CASE LiveWeights(p)
    BY <1>0, <2>2 DEF LiveWeights
  <2>3. CASE LivePatterns(p)
    BY <2>3 DEF LivePatterns
  <2>4. CASE Reset(p)
    BY <2>4 DEF Reset
  <2>5. CASE \/ \E c \in Category : SetPolicy(p, c)
             \/ PoliciesSet(p) \/ ReadRow(p) \/ WriteRow(p) \/ Reload(p) \/ Hold(p)
    BY <2>5 DEF SetPolicy, PoliciesSet, ReadRow, WriteRow, Reload, Hold
  <2> QED BY <1>4, <2>1, <2>2, <2>3, <2>4, <2>5 DEF Advance
<1>5. ASSUME NEW s \in Scanner, Scanning(s)
      PROVE  ScanBegin(s) \/ ScanStep(s)
  BY <1>5 DEF Scanning
<1>6. CASE Expiry
  BY <1>6 DEF Expiry
<1>7. CASE Restart
  BY <1>7 DEF Restart
<1> QED BY <1>1, <1>2, <1>3, <1>4, <1>5, <1>6, <1>7 DEF Next

LEMMA InitScans == Init => ScansInv
<1> SUFFICES ASSUME Init PROVE ScansInv
  OBVIOUS
<1>1. cache = NoEntry /\ \A s \in Scanner : at[s] = "idle"
  BY DEF Init, ScanInit
<1> QED BY <1>1 DEF ScansInv, ScanProgress, CacheCurrent

\* The verdict of a finished scan that nothing crossed.
LEMMA FinishedIsCurrent ==
    ASSUME TypeOK, ScansInv, NEW s \in Scanner, s \notin crossed,
           at[s] = "judge", left[s] = {}
    PROVE  best[s] = Current
<1>1. patterns \ left[s] = patterns /\ Chosen(best[s], patterns \ left[s], weights, thresholds)
  BY DEF ScansInv, ScanProgress
<1>2. patterns \in SUBSET Pattern /\ weights \in Weights /\ thresholds \in Thresholds
  BY PatternAssumption DEF TypeOK, ScanTypeOK
<1> QED BY <1>1, <1>2, VerdictUnique DEF Current

LEMMA NextScans == TypeOK /\ ScansInv /\ [Next]_vars => ScansInv'
<1> SUFFICES ASSUME TypeOK, ScansInv, [Next]_vars
             PROVE  ScansInv'
  OBVIOUS
<1>0. patterns \in SUBSET Pattern /\ weights \in Weights /\ thresholds \in Thresholds
  BY PatternAssumption DEF TypeOK, ScanTypeOK
<1>1. CASE UNCHANGED pipeline
  BY <1>1 DEF ScansInv, ScanProgress, CacheCurrent, Current, pipeline, settings, scans, entry
<1>2. ASSUME NEW p \in Setter,
             \/ \E t \in Thresholds : SetThresholds(p, t)
             \/ \E w \in Weights : SetWeights(p, w)
             \/ \E a \in PatternSet : Rebuild(p, a)
      PROVE  ScansInv'
  <2>1. crossed' = Scanner /\ p \in unsettled'
    BY <1>2 DEF SetThresholds, SetWeights, Rebuild, Changed
  <2> QED BY <2>1 DEF ScansInv, CacheCurrent
<1>3. ASSUME NEW p \in Setter, ResetCache(p)
      PROVE  ScansInv'
  BY <1>3 DEF ResetCache, ScansInv, ScanProgress, CacheCurrent, settings, scans
<1>4. CASE Expire
  BY <1>4 DEF Expire, ScansInv, ScanProgress, CacheCurrent, settings, scans
<1>5. CASE Fresh(row.thresholds, row.weights, patterns)
  BY <1>5 DEF Fresh, ScansInv, ScanProgress, CacheCurrent
<1>6. ASSUME NEW s \in Scanner, ScanBegin(s)
      PROVE  ScansInv'
  <2>1. CacheCurrent'
    BY <1>6 DEF ScanBegin, ScansInv, CacheCurrent, Current, settings, entry
  <2>2. ASSUME NEW q \in Scanner, q \notin crossed'
        PROVE  ScanProgress(q)'
    <3>1. CASE q = s
      BY <1>6, <3>1 DEF ScanBegin, ScanProgress, TypeOK, ScanTypeOK, settings
    <3>2. CASE q # s
      BY <1>6, <2>2, <3>2 DEF ScanBegin, ScansInv, ScanProgress, TypeOK, ScanTypeOK, settings
    <3> QED BY <3>1, <3>2
  <2> QED BY <2>1, <2>2 DEF ScansInv
<1>7. ASSUME NEW s \in Scanner, ScanEnds(s), UNCHANGED settings
      PROVE  \A q \in Scanner : q \notin crossed' => ScanProgress(q)'
  <2> SUFFICES ASSUME NEW q \in Scanner, q \notin crossed'
               PROVE  ScanProgress(q)'
    OBVIOUS
  <2>1. CASE q = s
    BY <1>7, <2>1 DEF ScanEnds, ScanProgress, TypeOK, ScanTypeOK
  <2>2. CASE q # s
    BY <1>7, <2>2 DEF ScanEnds, ScansInv, ScanProgress, TypeOK, ScanTypeOK, settings
  <2> QED BY <2>1, <2>2
<1>8. ASSUME NEW s \in Scanner, Hit(s)
      PROVE  ScansInv'
  <2>1. CacheCurrent'
    BY <1>8 DEF Hit, ScansInv, CacheCurrent, Current, settings, entry
  <2> QED BY <1>7, <1>8, <2>1 DEF Hit, ScansInv
<1>9. ASSUME NEW s \in Scanner, Answer(s)
      PROVE  ScansInv'
  <2>1. CacheCurrent'
    <3> SUFFICES ASSUME cache' # NoEntry, unsettled' = {}, ~tainted'
                 PROVE  cache' = Current'
      BY DEF CacheCurrent
    <3>1. Current' = Current /\ unsettled = {}
      BY <1>9 DEF Answer, Current, settings
    <3>2. CASE caching
      <4>1. s \notin crossed /\ cache' = best[s]
        BY <1>9, <3>2 DEF Answer
      <4> QED BY <1>9, <3>1, <4>1, FinishedIsCurrent DEF Answer
    <3>3. CASE ~caching
      BY <1>9, <3>1, <3>3 DEF Answer, ScansInv, CacheCurrent
    <3> QED BY <3>2, <3>3
  <2> QED BY <1>7, <1>9, <2>1 DEF Answer, ScansInv
<1>10. ASSUME NEW s \in Scanner, Miss(s)
       PROVE  ScansInv'
  <2>1. CacheCurrent'
    BY <1>10 DEF Miss, ScansInv, CacheCurrent, Current, settings, entry
  <2>2. ASSUME NEW q \in Scanner, q \notin crossed'
        PROVE  ScanProgress(q)'
    <3>1. CASE q = s
      <4>1. used[s] = weights /\ left[s] = patterns /\ best[s] = Clean
        BY <1>10, <2>2, <3>1 DEF Miss, ScansInv, ScanProgress
      <4>2. patterns \ left[s] = {} /\ Blocks({}, weights, thresholds) = {}
        BY <4>1 DEF Blocks
      <4>3. Chosen(best[s], patterns \ left[s], weights, thresholds)
        BY <4>1, <4>2 DEF Chosen
      <4>4. at'[s] = "judge" /\ UNCHANGED <<settings, used, left, best>>
        BY <1>10 DEF Miss, TypeOK, ScanTypeOK
      <4> QED BY <3>1, <4>1, <4>3, <4>4 DEF ScanProgress, settings
    <3>2. CASE q # s
      BY <1>10, <2>2, <3>2 DEF Miss, ScansInv, ScanProgress, TypeOK, ScanTypeOK, settings
    <3> QED BY <3>1, <3>2
  <2> QED BY <2>1, <2>2 DEF ScansInv
<1>11. ASSUME NEW s \in Scanner, NEW p \in Pattern, JudgePattern(s, p)
       PROVE  ScansInv'
  <2>1. CacheCurrent'
    BY <1>11 DEF JudgePattern, ScansInv, CacheCurrent, Current, settings, entry
  <2>2. ASSUME NEW q \in Scanner, q \notin crossed'
        PROVE  ScanProgress(q)'
    <3>1. CASE q = s
      <4>1. /\ at[s] = "judge" /\ used[s] = weights
            /\ p \in left[s] /\ left[s] \subseteq patterns
            /\ Chosen(best[s], patterns \ left[s], weights, thresholds)
        BY <1>11, <2>2, <3>1 DEF JudgePattern, ScansInv, ScanProgress
      <4> DEFINE r == Judge(p, weights, thresholds)
                 c == IF Prefer(r, best[s]) THEN r ELSE best[s]
      <4>2. Chosen(c, (patterns \ left[s]) \cup {p}, weights, thresholds)
        BY <1>0, <4>1, ChosenExtends
      <4>3. (patterns \ left[s]) \cup {p} = patterns \ (left[s] \ {p})
        BY <4>1
      <4>4. best'[s] = c /\ left'[s] = left[s] \ {p} /\ at'[s] = "judge"
            /\ UNCHANGED <<settings, used>>
        BY <1>11, <4>1 DEF JudgePattern, TypeOK, ScanTypeOK
      <4> HIDE DEF c
      <4>5. Chosen(best'[s], patterns \ left'[s], weights, thresholds)
        BY <4>2, <4>3, <4>4
      <4> QED BY <3>1, <4>1, <4>4, <4>5 DEF ScanProgress, settings, Chosen
    <3>2. CASE q # s
      BY <1>11, <2>2, <3>2 DEF JudgePattern, ScansInv, ScanProgress, TypeOK, ScanTypeOK, settings
    <3> QED BY <3>1, <3>2
  <2> QED BY <2>1, <2>2 DEF ScansInv
<1> QED
  BY <1>1, <1>2, <1>3, <1>4, <1>5, <1>6, <1>8, <1>9, <1>10, <1>11, PipelineSteps DEF ScanStep

\* A scan during which nothing was changed answers the highest score of the
\* patterns, weights and thresholds in force, whatever the order of judging.
THEOREM ScansSound == Spec => []ScanSound
<1>1. TypeOK /\ ScansInv => ScanSound
  BY FinishedIsCurrent DEF ScanSound
<1> QED BY <1>1, InitScans, NextScans, TypeCorrect, PTL DEF Spec

\* No verdict outlives a change in the cache, but that of a scan which the
\* change crossed.
THEOREM CachedVerdicts == Spec => []CacheCurrent
<1>1. ScansInv => CacheCurrent
  BY DEF ScansInv
<1> QED BY <1>1, InitScans, NextScans, TypeCorrect, PTL DEF Spec

-----------------------------------------------------------------------------
(* The row and the live configuration                                      *)

\* The steps that leave the configuration alone.
LEMMA SyncKept ==
    ASSUME SyncInv, UNCHANGED <<row, thresholds, weights, mixed>>,
           \A p \in Setter : (pc[p] \in Window \/ pc'[p] \in Window)
                                => pc'[p] = pc[p] /\ cur'[p] = cur[p]
    PROVE  SyncInv'
<1>1. \A p \in Setter : pc'[p] \in Window <=> pc[p] \in Window
  OBVIOUS
<1>2. \A p \in Setter : pc[p] = "weights" => pc[p] \in Window
  BY DEF Window
<1>3. \A p \in Setter : pc'[p] = "weights" => pc'[p] \in Window
  BY DEF Window
<1>4. DLPInSync' = ((~mixed /\ \A p \in Setter : pc'[p] \notin Window)
                       => row = [thresholds |-> thresholds, weights |-> weights])
  BY DEF DLPInSync, Window
<1> QED BY <1>1, <1>2, <1>3, <1>4 DEF SyncInv, DLPInSync, Window

LEMMA InitSync == Init => SyncInv
<1> SUFFICES ASSUME Init PROVE SyncInv
  OBVIOUS
<1>1. \A p \in Setter : pc[p] \notin Window
  BY DEF Init, Window
<1>2. row = [thresholds |-> thresholds, weights |-> weights]
  BY DEF Init, ScanInit, InitialRow
<1> QED BY <1>1, <1>2 DEF SyncInv, DLPInSync, Window

LEMMA NextSync == TypeOK /\ SyncInv /\ [Next]_vars => SyncInv'
<1> SUFFICES ASSUME TypeOK, SyncInv, [Next]_vars
             PROVE  SyncInv'
  OBVIOUS
<1> USE DEF Window
<1>a. \A p \in Setter : pc[p] \in PC
  BY DEF TypeOK
<1>1. ASSUME NEW p \in Api, Asks(p)
      PROVE  SyncInv'
  <2>1. p \in Setter
    BY ActorAssumption
  <2>2. PICK s \in {"writeRow", "policies", "rebuild"} : Begin(p, s)
    BY <1>1 DEF Asks, PutConfig, PutPolicies, Import, UpdateRules, Request
  <2>3. \A r \in Setter : r # p => cur'[r] = cur[r]
    BY <1>1 DEF Asks, PutConfig, PutPolicies, Import, UpdateRules, Request, ApplyBegins, TypeOK,
                locals
  <2>4. \A r \in Setter : (pc[r] \in Window \/ pc'[r] \in Window)
                             => pc'[r] = pc[r] /\ cur'[r] = cur[r]
    BY <2>1, <2>2, <2>3 DEF Begin, Goto, TypeOK
  <2>5. UNCHANGED <<row, thresholds, weights, mixed>>
    BY <2>2 DEF Begin, pipeline, settings, tables
  <2> QED BY <2>4, <2>5, SyncKept
<1>2. CASE Refresh
  <2>1. Main \in Setter
    BY ActorAssumption
  <2>2. /\ \A r \in Setter : (pc[r] \in Window \/ pc'[r] \in Window)
                                => pc'[r] = pc[r] /\ cur'[r] = cur[r]
        /\ UNCHANGED <<row, thresholds, weights, mixed>>
    BY <1>2, <2>1
    DEF Refresh, Begin, Goto, ApplyBegins, TypeOK, pipeline, settings, tables
  <2> QED BY <2>2, SyncKept
<1>3. CASE Load
  <2>1. Main \in Setter
    BY ActorAssumption
  <2>2. /\ \A r \in Setter : (pc[r] \in Window \/ pc'[r] \in Window)
                                => pc'[r] = pc[r] /\ cur'[r] = cur[r]
        /\ UNCHANGED <<row, thresholds, weights, mixed>>
    BY <1>3, <2>1 DEF Load, Goto, ApplyBegins, TypeOK, pipeline, settings, tables
  <2> QED BY <2>2, SyncKept
<1>4. ASSUME NEW p \in Setter, Done(p), pc[p] \notin Window,
             UNCHANGED <<row, thresholds, weights, mixed>>
      PROVE  SyncInv'
  <2>1. \A r \in Setter : (pc[r] \in Window \/ pc'[r] \in Window)
                             => pc'[r] = pc[r] /\ cur'[r] = cur[r]
    BY <1>4 DEF Done, Goto, TypeOK
  <2> QED BY <1>4, <2>1, SyncKept
<1>5. CASE LoadFails
  <2>1. Main \in Setter
    BY ActorAssumption
  <2> QED BY <1>4, <1>5, <2>1 DEF LoadFails, pipeline, settings, tables
<1>6. ASSUME NEW p \in Setter, Fail(p)
      PROVE  SyncInv'
  BY <1>4, <1>6 DEF Fail, pipeline, settings, tables
<1>7. ASSUME NEW p \in Setter, Hold(p)
      PROVE  SyncInv'
  BY <1>4, <1>7 DEF Hold, pipeline, settings, tables
<1>8. ASSUME NEW p \in Setter, NEW s \in PC \ Window, Goto(p, s), pc[p] \notin Window,
             \A r \in Setter : r # p => cur'[r] = cur[r],
             UNCHANGED <<row, thresholds, weights, mixed>>
      PROVE  SyncInv'
  <2>1. \A r \in Setter : (pc[r] \in Window \/ pc'[r] \in Window)
                             => pc'[r] = pc[r] /\ cur'[r] = cur[r]
    BY <1>8 DEF Goto, TypeOK
  <2> QED BY <1>8, <2>1, SyncKept
<1>9. ASSUME NEW p \in Setter, Reset(p) \/ Reload(p)
      PROVE  SyncInv'
  <2>1. UNCHANGED <<row, thresholds, weights, mixed>> /\ pc[p] \notin Window
    BY <1>9 DEF Reset, Reload, ResetCache, settings, pipeline, tables
  <2>2. CASE Done(p)
    BY <1>4, <2>1, <2>2
  <2>3. ASSUME NEW s \in {"reload", "hold"}, Goto(p, s), UNCHANGED locals
        PROVE  SyncInv'
    BY <1>8, <2>1, <2>3 DEF locals, PC
  <2> QED BY <1>9, <2>2, <2>3 DEF Reset, Reload
<1>10. ASSUME NEW p \in Setter, PoliciesSet(p)
       PROVE  SyncInv'
  <2>1. PICK s \in {"readRow", "reload"} : Goto(p, s)
    BY <1>10 DEF PoliciesSet
  <2> QED BY <1>8, <1>10, <2>1 DEF PoliciesSet, PC, pipeline, settings, tables, locals, history
<1>11. ASSUME NEW p \in Setter, ReadRow(p)
       PROVE  SyncInv'
  <2>1. \A r \in Setter : r # p => cur'[r] = cur[r]
    BY <1>11 DEF ReadRow, TypeOK
  <2> QED BY <1>8, <1>11, <2>1 DEF ReadRow, PC, pipeline, settings, tables, history
<1>12. ASSUME NEW p \in Setter, NEW c \in Category, SetPolicy(p, c)
       PROVE  SyncInv'
  BY <1>12, SyncKept DEF SetPolicy, pipeline, settings, history
<1>13. ASSUME NEW p \in Setter, LivePatterns(p)
       PROVE  SyncInv'
  <2>1. UNCHANGED <<thresholds, weights>>
    BY <1>13 DEF LivePatterns, Rebuild
  <2> QED BY <1>8, <1>13, <2>1 DEF LivePatterns, PC, tables, locals, history
<1>14. ASSUME NEW p \in Setter, WriteRow(p)
       PROVE  SyncInv'
  <2> SUFFICES ASSUME ~mixed' PROVE SyncInv'
    BY DEF SyncInv
  <2>1. \A q \in Setter : pc[q] \notin Window
    BY <1>14 DEF WriteRow
  <2>2. \A q \in Setter : pc'[q] \in Window => q = p
    BY <1>14, <2>1 DEF WriteRow, Goto, TypeOK
  <2>3. pc'[p] = "thresholds" /\ cur'[p] = row'
    BY <1>14 DEF WriteRow, Goto, TypeOK, locals
  <2>4. DLPInSync'
    BY <2>3 DEF DLPInSync
  <2>5. \A q \in Setter : pc'[q] # "weights"
    BY <2>2, <2>3
  <2> QED BY <2>2, <2>3, <2>4, <2>5 DEF SyncInv
<1>15. ASSUME NEW p \in Setter, LiveThresholds(p)
       PROVE  SyncInv'
  <2> SUFFICES ASSUME ~mixed' PROVE SyncInv'
    BY DEF SyncInv
  <2>0. ~mixed /\ pc[p] = "thresholds" /\ UNCHANGED <<row, cur>>
    BY <1>15 DEF LiveThresholds, history, tables, locals
  <2>1. cur[p] = row /\ \A q \in Setter : pc[q] \in Window => q = p
    BY <2>0 DEF SyncInv
  <2>2. pc'[p] = "weights" /\ \A q \in Setter : q # p => pc'[q] = pc[q]
    BY <1>15 DEF LiveThresholds, Goto, TypeOK
  <2>3. thresholds' = row'.thresholds
    BY <1>15, <2>0, <2>1 DEF LiveThresholds, SetThresholds
  <2>4. DLPInSync'
    BY <2>2 DEF DLPInSync
  <2> QED BY <2>0, <2>1, <2>2, <2>3, <2>4 DEF SyncInv
<1>16. ASSUME NEW p \in Setter, LiveWeights(p)
       PROVE  SyncInv'
  <2> SUFFICES ASSUME ~mixed' PROVE SyncInv'
    BY DEF SyncInv
  <2>0. ~mixed /\ pc[p] = "weights" /\ UNCHANGED <<row, cur, thresholds>>
    BY <1>16 DEF LiveWeights, SetWeights, history, tables, locals
  <2>1. /\ cur[p] = row /\ thresholds = row.thresholds
        /\ \A q \in Setter : pc[q] \in Window => q = p
    BY <2>0 DEF SyncInv
  <2>2. \A q \in Setter : pc'[q] \notin Window
    BY <1>16, <2>1 DEF LiveWeights, Goto, TypeOK
  <2>3. weights' = row.weights /\ row \in Rows
    BY <1>16, <2>1 DEF LiveWeights, SetWeights, TypeOK
  <2>4. row' = [thresholds |-> thresholds', weights |-> weights']
    BY <2>0, <2>1, <2>3 DEF Rows
  <2>5. DLPInSync'
    BY <2>4 DEF DLPInSync
  <2> QED BY <2>2, <2>5 DEF SyncInv
<1>17. ASSUME NEW s \in Scanner, Scanning(s)
       PROVE  SyncInv'
  <2>1. UNCHANGED <<thresholds, weights>>
    BY <1>17
    DEF Scanning, ScanBegin, ScanStep, Hit, Miss, Answer, JudgePattern, settings
  <2> QED BY <1>17, <2>1, SyncKept DEF Scanning, others, tables, locals, history
<1>18. CASE Expiry \/ Publish
  <2>1. UNCHANGED <<thresholds, weights, row, mixed, pc, cur>>
    BY <1>18
    DEF Expiry, Expire, Publish, others, pipeline, settings, tables, locals, history
  <2> QED BY <2>1, SyncKept
<1>19. CASE Restart
  <2>1. \A p \in Setter : pc'[p] \notin Window
    BY <1>19 DEF Restart
  <2>2. row \in Rows /\ row' = row /\ thresholds' = row.thresholds /\ weights' = row.weights
    BY <1>19 DEF Restart, Fresh, TypeOK
  <2>3. row' = [thresholds |-> thresholds', weights |-> weights']
    BY <2>2 DEF Rows
  <2> QED BY <2>1, <2>3 DEF SyncInv, DLPInSync
<1>20. CASE UNCHANGED vars
  <2>1. UNCHANGED <<thresholds, weights, row, mixed, pc, cur>>
    BY <1>20 DEF vars, pipeline, settings, tables, locals, history
  <2> QED BY <2>1, SyncKept
<1> QED
  BY <1>1, <1>2, <1>3, <1>5, <1>6, <1>7, <1>9, <1>10, <1>11, <1>12, <1>13, <1>14, <1>15,
     <1>16, <1>17, <1>18, <1>19, <1>20
  DEF Next, Advance

\* Thresholds and weights in the pipeline are those in SQLite, whatever fails
\* or restarts, unless two updates overlapped and none has followed.
THEOREM InSync == Spec => []DLPInSync
<1>1. SyncInv => DLPInSync
  BY DEF SyncInv, DLPInSync
<1> QED BY <1>1, InitSync, NextSync, TypeCorrect, PTL DEF Spec

-----------------------------------------------------------------------------
(* The baseline                                                            *)

\* A step of p while p's operation goes on: no other operation can be alone.
LEMMA OthersNotAlone ==
    ASSUME AloneInv, NEW p \in Setter, pc[p] # "idle"
    PROVE  \A r \in Setter : r # p => ~alone[r]
BY DEF AloneInv

\* The end of an operation leaves none alone.
LEMMA DoneAlone ==
    ASSUME TypeOK, AloneInv, NEW p \in Setter, pc[p] # "idle", Done(p)
    PROVE  AloneInv'
<1>1. \A r \in Setter : ~alone'[r]
  BY OthersNotAlone DEF Done, TypeOK
<1> QED BY <1>1 DEF AloneInv

\* A step of p's operation: what is left to show is how far p has come.
LEMMA StepAlone ==
    ASSUME TypeOK, AloneInv, NEW p \in Setter, pc[p] # "idle", NEW s, Goto(p, s),
           UNCHANGED <<alone, job>>,
           (alone[p] /\ job[p] # NoProfile) => ApplyProgress(p)'
    PROVE  AloneInv'
<1>1. \A r \in Setter : alone'[r] => r = p
  BY OthersNotAlone
<1>2. alone[p] => \A q \in Setter : q # p => pc'[q] = "idle"
  BY DEF AloneInv, Goto, TypeOK
<1> QED BY <1>1, <1>2 DEF AloneInv

\* What an operation that starts now has to show.
LEMMA BeginAlone ==
    ASSUME TypeOK, NEW p \in Setter, NEW s, Begin(p, s),
           job'[p] # NoProfile => ApplyProgress(p)'
    PROVE  AloneInv'
<1>1. \A r \in Setter : alone'[r] => r = p /\ \A q \in Setter : pc[q] = "idle"
  BY DEF Begin
<1>2. \A q \in Setter : q # p => pc'[q] = pc[q]
  BY DEF Begin, Goto, TypeOK
<1> QED BY <1>1, <1>2 DEF AloneInv

LEMMA ApplyStarts ==
    ASSUME TypeOK, NEW p \in Setter, NEW q \in Profiles, ApplyBegins(p, q),
           Goto(p, "policies")
    PROVE  ApplyProgress(p)'
<1>1. pc'[p] = "policies" /\ job'[p] = q /\ todo'[p] = q.policies
  BY DEF ApplyBegins, Goto, TypeOK
<1> QED BY <1>1 DEF ApplyProgress, AfterPolicies

LEMMA InitAlone == Init => AloneInv
<1> SUFFICES ASSUME Init PROVE AloneInv
  OBVIOUS
<1>1. \A p \in Setter : alone[p] => p = Main
  BY DEF Init
<1>2. \A q \in Setter : (q # Main => pc[q] = "idle") /\ job[q] = NoProfile
  BY DEF Init
<1> QED BY <1>1, <1>2 DEF AloneInv

LEMMA NextAlone == TypeOK /\ Control /\ AloneInv /\ [Next]_vars => AloneInv'
<1> SUFFICES ASSUME TypeOK, Control, AloneInv, [Next]_vars
             PROVE  AloneInv'
  OBVIOUS
<1>1. ASSUME NEW p \in Api, Asks(p)
      PROVE  AloneInv'
  <2>1. p \in Setter
    BY ActorAssumption
  <2>2. ASSUME NEW q \in Profiles, Import(p, q)
        PROVE  AloneInv'
    <3>1. Begin(p, "policies") /\ ApplyBegins(p, q) /\ Goto(p, "policies")
      BY <2>2 DEF Import, Request, Begin
    <3>2. ApplyProgress(p)'
      BY <2>1, <3>1, ApplyStarts
    <3> QED BY <2>1, <3>1, <3>2, BeginAlone
  <2>3. ASSUME \/ \E r \in Rows : PutConfig(p, r)
               \/ \E w \in Pins \ {Nothing} : PutPolicies(p, w)
               \/ UpdateRules(p)
        PROVE  AloneInv'
    <3>1. PICK s \in {"writeRow", "policies", "rebuild"} : Begin(p, s)
      BY <2>3 DEF PutConfig, PutPolicies, UpdateRules, Request
    <3>2. job' = job /\ pc[p] = "idle"
      BY <2>3, <3>1 DEF PutConfig, PutPolicies, UpdateRules, Begin, locals
    <3>3. job'[p] = NoProfile
      BY <2>1, <3>2 DEF Control
    <3> QED BY <2>1, <3>1, <3>3, BeginAlone
  <2> QED BY <1>1, <2>2, <2>3 DEF Asks
<1>2. CASE Refresh
  <2>1. Main \in Setter /\ published \in Profiles
    BY ActorAssumption DEF TypeOK
  <2>2. Begin(Main, "policies") /\ ApplyBegins(Main, published) /\ Goto(Main, "policies")
    BY <1>2 DEF Refresh, Begin
  <2>3. ApplyProgress(Main)'
    BY <2>1, <2>2, ApplyStarts
  <2> QED BY <2>1, <2>2, <2>3, BeginAlone
<1>3. CASE Load
  <2>1. Main \in Setter /\ published \in Profiles
    BY ActorAssumption DEF TypeOK
  <2>2. /\ pc[Main] = "load" /\ ApplyBegins(Main, published)
        /\ Goto(Main, "policies") /\ UNCHANGED alone
    BY <1>3 DEF Load
  <2>3. ApplyProgress(Main)'
    BY <2>1, <2>2, ApplyStarts
  <2>4. \A r \in Setter : alone'[r] => r = Main
    BY <2>1, <2>2, OthersNotAlone
  <2>5. \A r \in Setter : alone[Main] /\ r # Main => pc'[r] = "idle"
    BY <2>1, <2>2 DEF AloneInv, Goto, TypeOK
  <2> QED BY <2>2, <2>3, <2>4, <2>5 DEF AloneInv
<1>4. CASE LoadFails
  BY <1>4, DoneAlone, ActorAssumption DEF LoadFails
<1>5. ASSUME NEW p \in Setter, Fail(p) \/ Hold(p)
      PROVE  AloneInv'
  BY <1>5, DoneAlone DEF Fail, Hold
<1>6. ASSUME NEW p \in Setter, NEW c \in Category, SetPolicy(p, c)
      PROVE  AloneInv'
  <2>0. /\ pc[p] = "policies" /\ c \in DOMAIN todo[p] /\ UNCHANGED <<pc, job, alone>>
        /\ todo'[p] = [x \in DOMAIN todo[p] \ {c} |-> todo[p][x]]
    BY <1>6 DEF SetPolicy, history, TypeOK
  <2>1. table' = [table EXCEPT ![c] = todo[p][c]] /\ table \in [Category -> Action]
    BY <1>6 DEF SetPolicy, TypeOK
  <2>2. ASSUME alone[p], job[p] # NoProfile
        PROVE  ApplyProgress(p)'
    <3>1. /\ \A d \in DOMAIN todo[p] :
                d \in DOMAIN job[p].policies /\ todo[p][d] = job[p].policies[d]
          /\ \A d \in DOMAIN job[p].policies \ DOMAIN todo[p] :
                table[d] = job[p].policies[d]
      BY <2>0, <2>2 DEF AloneInv, ApplyProgress
    <3>2. \A d \in DOMAIN job[p].policies : d \in Category
      BY <2>2, ProfileFields, PinsRange DEF TypeOK
    <3>3. \A d \in DOMAIN job[p].policies \ DOMAIN todo'[p] :
             table'[d] = job[p].policies[d]
      BY <2>0, <2>1, <3>1, <3>2
    <3>4. \A d \in DOMAIN todo'[p] :
             d \in DOMAIN job[p].policies /\ todo'[p][d] = job[p].policies[d]
      BY <2>0, <3>1
    <3> QED BY <2>0, <3>3, <3>4 DEF ApplyProgress, AfterPolicies
  <2>3. \A r \in Setter : alone[r] => r = p
    BY <2>0, OthersNotAlone
  <2> QED BY <2>0, <2>2, <2>3 DEF AloneInv
<1>7. ASSUME NEW p \in Setter, PoliciesSet(p)
      PROVE  AloneInv'
  <2>0. /\ pc[p] = "policies" /\ todo[p] = Nothing
        /\ UNCHANGED <<alone, job, todo, cur, table, engine, row, thresholds, weights>>
    BY <1>7 DEF PoliciesSet, locals, tables, history, pipeline, settings
  <2>1. PICK s : Goto(p, s) /\ s = IF PinsRow(job[p]) THEN "readRow" ELSE "reload"
    BY <1>7 DEF PoliciesSet
  <2>2. ASSUME alone[p], job[p] # NoProfile
        PROVE  ApplyProgress(p)'
    <3>1. \A d \in DOMAIN job[p].policies : table[d] = job[p].policies[d]
      BY <2>0, <2>2 DEF AloneInv, ApplyProgress, Nothing
    <3>2. pc'[p] = s
      BY <2>1 DEF Goto, TypeOK
    <3>3. CASE s = "readRow"
      BY <2>0, <3>1, <3>2, <3>3 DEF ApplyProgress, AfterPolicies
    <3>4. CASE s = "reload" /\ ~PinsRow(job[p])
      <4>1. PinnedRow(job[p], row) /\ PinnedRow(job[p], Live)
        BY <2>2, <3>4 DEF PinsRow, PinnedRow
      <4>2. PinnedRow(job[p], row)' /\ PinnedRow(job[p], Live)'
        BY <2>0, <4>1 DEF PinnedRow, Live
      <4> QED BY <2>0, <3>1, <3>2, <3>4, <4>2 DEF ApplyProgress, AfterPolicies
    <3> QED BY <2>1, <3>3, <3>4
  <2> QED BY <2>0, <2>1, <2>2, StepAlone
<1>8. ASSUME NEW p \in Setter, ReadRow(p)
      PROVE  AloneInv'
  <2>0. /\ pc[p] = "readRow" /\ Goto(p, "writeRow") /\ cur'[p] = Merge(job[p], row)
        /\ UNCHANGED <<alone, job, table>>
    BY <1>8 DEF ReadRow, tables, history, TypeOK
  <2>2. ASSUME alone[p], job[p] # NoProfile
        PROVE  ApplyProgress(p)'
    <3>1. \A d \in DOMAIN job[p].policies : table[d] = job[p].policies[d]
      BY <2>0, <2>2 DEF AloneInv, ApplyProgress, AfterPolicies
    <3>2. PinnedRow(job[p], cur'[p])
      BY <2>0, <2>2, MergeType DEF TypeOK
    <3>3. pc'[p] = "writeRow"
      BY <2>0 DEF Goto, TypeOK
    <3> QED BY <2>0, <3>1, <3>2, <3>3 DEF ApplyProgress, AfterPolicies, PinnedRow
  <2> QED BY <2>0, <2>2, StepAlone
<1>9. ASSUME NEW p \in Setter, WriteRow(p)
      PROVE  AloneInv'
  <2>0. /\ pc[p] = "writeRow" /\ Goto(p, "thresholds") /\ row' = cur[p]
        /\ UNCHANGED <<alone, job, cur, table>>
    BY <1>9 DEF WriteRow, locals
  <2>2. ASSUME alone[p], job[p] # NoProfile
        PROVE  ApplyProgress(p)'
    <3>1. /\ \A d \in DOMAIN job[p].policies : table[d] = job[p].policies[d]
          /\ PinnedRow(job[p], cur[p])
      BY <2>0, <2>2 DEF AloneInv, ApplyProgress, AfterPolicies
    <3>3. pc'[p] = "thresholds"
      BY <2>0 DEF Goto, TypeOK
    <3> QED BY <2>0, <3>1, <3>3 DEF ApplyProgress, AfterPolicies, PinnedRow
  <2> QED BY <2>0, <2>2, StepAlone
<1>10. ASSUME NEW p \in Setter, LiveThresholds(p)
       PROVE  AloneInv'
  <2>0. /\ pc[p] = "thresholds" /\ Goto(p, "weights") /\ thresholds' = cur[p].thresholds
        /\ UNCHANGED <<alone, job, cur, table, row>>
    BY <1>10 DEF LiveThresholds, SetThresholds, tables, locals, history
  <2>2. ASSUME alone[p], job[p] # NoProfile
        PROVE  ApplyProgress(p)'
    <3>1. /\ \A d \in DOMAIN job[p].policies : table[d] = job[p].policies[d]
          /\ row = cur[p] /\ PinnedRow(job[p], row)
      BY <2>0, <2>2 DEF AloneInv, ApplyProgress, AfterPolicies
    <3>3. pc'[p] = "weights"
      BY <2>0 DEF Goto, TypeOK
    <3> QED BY <2>0, <3>1, <3>3 DEF ApplyProgress, AfterPolicies, PinnedRow
  <2> QED BY <2>0, <2>2, StepAlone
<1>11. ASSUME NEW p \in Setter, LiveWeights(p)
       PROVE  AloneInv'
  <2>0. /\ pc[p] = "weights" /\ Goto(p, "reset") /\ weights' = cur[p].weights
        /\ UNCHANGED <<alone, job, cur, table, row, thresholds>>
    BY <1>11 DEF LiveWeights, SetWeights, tables, locals, history
  <2>2. ASSUME alone[p], job[p] # NoProfile
        PROVE  ApplyProgress(p)'
    <3>1. /\ \A d \in DOMAIN job[p].policies : table[d] = job[p].policies[d]
          /\ row = cur[p] /\ PinnedRow(job[p], row) /\ thresholds = row.thresholds
      BY <2>0, <2>2 DEF AloneInv, ApplyProgress, AfterPolicies
    <3>2. PinnedRow(job[p], row)' /\ PinnedRow(job[p], Live)'
      BY <2>0, <3>1 DEF PinnedRow, Live
    <3>3. pc'[p] = "reset"
      BY <2>0 DEF Goto, TypeOK
    <3> QED BY <2>0, <3>1, <3>2, <3>3 DEF ApplyProgress, AfterPolicies
  <2> QED BY <2>0, <2>2, StepAlone
<1>12. ASSUME NEW p \in Setter, LivePatterns(p)
       PROVE  AloneInv'
  <2>0. pc[p] = "rebuild" /\ Goto(p, "reset") /\ UNCHANGED <<alone, job>>
    BY <1>12 DEF LivePatterns, locals, history
  <2>1. job[p] = NoProfile
    BY <2>0 DEF Control
  <2> QED BY <2>0, <2>1, StepAlone
<1>13. ASSUME NEW p \in Setter, Reset(p)
       PROVE  AloneInv'
  <2>0. /\ pc[p] = "reset"
        /\ UNCHANGED <<table, row, thresholds, weights>>
    BY <1>13 DEF Reset, ResetCache, settings, tables
  <2>1. CASE Done(p)
    BY <2>0, <2>1, DoneAlone
  <2>2. CASE Goto(p, "reload") /\ UNCHANGED <<locals, alone, starting>>
    <3>0. UNCHANGED <<alone, job>>
      BY <2>2 DEF locals
    <3>1. ASSUME alone[p], job[p] # NoProfile
          PROVE  ApplyProgress(p)'
      <4>1. /\ \A d \in DOMAIN job[p].policies : table[d] = job[p].policies[d]
            /\ PinnedRow(job[p], row) /\ PinnedRow(job[p], Live)
        BY <2>0, <3>1 DEF AloneInv, ApplyProgress, AfterPolicies
      <4>2. PinnedRow(job[p], row)' /\ PinnedRow(job[p], Live)'
        BY <2>0, <3>0, <4>1 DEF PinnedRow, Live
      <4>3. pc'[p] = "reload"
        BY <2>2 DEF Goto, TypeOK
      <4> QED BY <2>0, <3>0, <4>1, <4>2, <4>3 DEF ApplyProgress, AfterPolicies
    <3> QED BY <2>0, <2>2, <3>0, <3>1, StepAlone
  <2> QED BY <1>13, <2>1, <2>2 DEF Reset
<1>14. ASSUME NEW p \in Setter, Reload(p)
       PROVE  AloneInv'
  <2>0. /\ pc[p] = "reload" /\ engine' = table
        /\ UNCHANGED <<table, row, thresholds, weights>>
    BY <1>14 DEF Reload, pipeline, settings
  <2>1. CASE Done(p)
    BY <2>0, <2>1, DoneAlone
  <2>2. CASE Goto(p, "hold") /\ UNCHANGED <<locals, alone, starting>>
    <3>0. UNCHANGED <<alone, job>>
      BY <2>2 DEF locals
    <3>1. ASSUME alone[p], job[p] # NoProfile
          PROVE  ApplyProgress(p)'
      <4>1. /\ \A d \in DOMAIN job[p].policies : table[d] = job[p].policies[d]
            /\ PinnedRow(job[p], row) /\ PinnedRow(job[p], Live)
        BY <2>0, <3>1 DEF AloneInv, ApplyProgress, AfterPolicies
      <4>2. PinnedRow(job[p], row)' /\ PinnedRow(job[p], Live)'
        BY <2>0, <3>0, <4>1 DEF PinnedRow, Live
      <4>3. pc'[p] = "hold"
        BY <2>2 DEF Goto, TypeOK
      <4> QED BY <2>0, <3>0, <4>1, <4>2, <4>3 DEF ApplyProgress, AfterPolicies
    <3> QED BY <2>0, <2>2, <3>0, <3>1, StepAlone
  <2> QED BY <1>14, <2>1, <2>2 DEF Reload
<1>15. ASSUME UNCHANGED <<pc, alone, job, todo, cur, table, engine, row, thresholds, weights>>
       PROVE  AloneInv'
  BY <1>15 DEF AloneInv, ApplyProgress, PinnedRow, Live, AfterPolicies
<1>16. ASSUME NEW s \in Scanner, Scanning(s)
       PROVE  AloneInv'
  <2>1. UNCHANGED <<thresholds, weights>>
    BY <1>16 DEF Scanning, ScanBegin, ScanStep, Hit, Miss, Answer, JudgePattern, settings
  <2> QED BY <1>15, <1>16, <2>1 DEF Scanning, others, tables, locals, history
<1>17. CASE Expiry \/ Publish \/ UNCHANGED vars
  BY <1>15, <1>17
  DEF Expiry, Expire, Publish, vars, others, pipeline, settings, tables, locals, history
<1>18. CASE Restart
  <2>1. /\ \A p \in Setter : alone'[p] => p = Main
        /\ \A q \in Setter : (q # Main => pc'[q] = "idle") /\ job'[q] = NoProfile
    BY <1>18 DEF Restart
  <2> QED BY <2>1 DEF AloneInv
<1> QED
  BY <1>1, <1>2, <1>3, <1>4, <1>5, <1>6, <1>7, <1>8, <1>9, <1>10, <1>11, <1>12, <1>13,
     <1>14, <1>16, <1>17, <1>18
  DEF Next, Advance

LEMMA InitBaseline == Init => BaselineInv
BY DEF Init, BaselineInv, BaselineKept

\* The steps that touch nothing the baseline says.
LEMMA BaselineUntouched ==
    ASSUME BaselineInv,
           UNCHANGED <<baseline, holder, table, engine, row, thresholds, weights>>,
           baseline # NoProfile =>
               \A p \in Setter : pc'[p] \in {"idle", "rebuild", "reset"} /\ job'[p] = NoProfile
    PROVE  BaselineInv'
BY DEF BaselineInv, BaselineKept, Rules, Locked

\* Nobody else is under way while the baseline rules.
LEMMA NoBaseline ==
    ASSUME BaselineInv, NEW p \in Setter,
           pc[p] \notin {"idle", "rebuild", "reset"} \/ job[p] # NoProfile
    PROVE  baseline = NoProfile
BY DEF BaselineInv

LEMMA NextBaseline ==
    TypeOK /\ Control /\ AloneInv /\ BaselineInv /\ [Next]_vars => BaselineInv'
<1> SUFFICES ASSUME TypeOK, Control, AloneInv, BaselineInv, [Next]_vars
             PROVE  BaselineInv'
  OBVIOUS
<1>0. ASSUME baseline' = NoProfile
      PROVE  BaselineInv'
  BY <1>0 DEF BaselineInv, BaselineKept
<1>1. ASSUME NEW p \in Api, Asks(p)
      PROVE  BaselineInv'
  <2>1. p \in Setter
    BY ActorAssumption
  <2>2. CASE \E q \in Profiles : Import(p, q)
    BY <1>0, <2>2 DEF Import, ApplyBegins
  <2>3. CASE (\E r \in Rows : PutConfig(p, r)) \/ (\E w \in Pins \ {Nothing} : PutPolicies(p, w))
    <3>1. baseline = NoProfile /\ baseline' = baseline
      BY <2>3 DEF PutConfig, PutPolicies, BaselineInv
    <3> QED BY <1>0, <3>1
  <2>4. CASE UpdateRules(p)
    <3>1. /\ Goto(p, "rebuild") /\ UNCHANGED <<job, baseline>>
          /\ UNCHANGED <<holder, table, engine, row, thresholds, weights>>
      BY <2>4 DEF UpdateRules, Request, Begin, locals, pipeline, settings, tables
    <3>2. baseline # NoProfile =>
             \A r \in Setter : pc'[r] \in {"idle", "rebuild", "reset"} /\ job'[r] = NoProfile
      BY <2>1, <3>1 DEF Goto, TypeOK, BaselineInv
    <3> QED BY <3>1, <3>2, BaselineUntouched
  <2> QED BY <1>1, <2>2, <2>3, <2>4 DEF Asks
<1>2. CASE Refresh \/ Load \/ Restart
  BY <1>0, <1>2 DEF Refresh, Load, Restart, ApplyBegins
<1>3. CASE LoadFails
  <2>1. baseline' = baseline /\ pc[Main] = "load" /\ Main \in Setter
    BY <1>3, ActorAssumption DEF LoadFails
  <2> QED BY <1>0, <2>1, NoBaseline
<1>4. ASSUME NEW p \in Setter,
             \/ \E c \in Category : SetPolicy(p, c)
             \/ PoliciesSet(p) \/ ReadRow(p) \/ WriteRow(p)
             \/ LiveThresholds(p) \/ LiveWeights(p) \/ Reload(p) \/ Fail(p)
      PROVE  BaselineInv'
  <2>1. baseline' = baseline /\ pc[p] \notin {"idle", "rebuild", "reset"}
    BY <1>4
    DEF SetPolicy, PoliciesSet, ReadRow, WriteRow, LiveThresholds, LiveWeights, Reload, Fail,
        history
  <2> QED BY <1>0, <2>1, NoBaseline
<1>5. ASSUME NEW p \in Setter, LivePatterns(p)
      PROVE  BaselineInv'
  <2>1. /\ Goto(p, "reset") /\ UNCHANGED <<job, baseline>>
        /\ UNCHANGED <<holder, table, engine, row, thresholds, weights>>
    BY <1>5 DEF LivePatterns, Rebuild, tables, fleet, locals, history
  <2>2. baseline # NoProfile =>
           \A r \in Setter : pc'[r] \in {"idle", "rebuild", "reset"} /\ job'[r] = NoProfile
    BY <2>1 DEF Goto, TypeOK, BaselineInv
  <2> QED BY <2>1, <2>2, BaselineUntouched
<1>6. ASSUME NEW p \in Setter, Reset(p)
      PROVE  BaselineInv'
  <2>1. UNCHANGED <<baseline, holder, table, engine, row, thresholds, weights>>
    BY <1>6 DEF Reset, ResetCache, settings, tables
  <2>2. CASE job[p] = NoProfile
    <3>1. Done(p)
      BY <1>6, <2>2 DEF Reset
    <3>2. baseline # NoProfile =>
             \A r \in Setter : pc'[r] \in {"idle", "rebuild", "reset"} /\ job'[r] = NoProfile
      BY <3>1 DEF Done, Goto, TypeOK, BaselineInv
    <3> QED BY <2>1, <3>2, BaselineUntouched
  <2>3. CASE job[p] # NoProfile
    BY <1>0, <2>1, <2>3, NoBaseline
  <2> QED BY <2>2, <2>3
<1>7. ASSUME NEW p \in Setter, Hold(p)
      PROVE  BaselineInv'
  <2>0. /\ pc[p] = "hold" /\ Done(p) /\ holder' = job[p]
        /\ UNCHANGED <<table, engine, row, thresholds, weights>>
        /\ baseline' = IF alone[p] /\ job[p].managed THEN job[p] ELSE NoProfile
    BY <1>7 DEF Hold, pipeline, settings, tables
  <2> SUFFICES ASSUME baseline' # NoProfile
               PROVE  BaselineInv'
    BY <1>0
  <2>1. /\ alone[p] /\ job[p].managed
        /\ baseline' = job[p] /\ job[p] # NoProfile /\ job[p] \in Profiles
    BY <2>0 DEF TypeOK
  <2>2. ApplyProgress(p) /\ \A q \in Setter : q # p => pc[q] = "idle"
    BY <2>1 DEF AloneInv
  <2>3. /\ \A d \in DOMAIN job[p].policies : table[d] = job[p].policies[d]
        /\ PinnedRow(job[p], row) /\ PinnedRow(job[p], Live) /\ engine = table
    BY <2>0, <2>2 DEF ApplyProgress, AfterPolicies
  <2>4. \A q \in Setter : pc'[q] = "idle" /\ job'[q] = NoProfile
    BY <2>0, <2>2 DEF Done, Goto, Control, TypeOK
  <2>5. Rules(baseline)'
    <3>1. \A d \in DOMAIN baseline'.policies : {table'[d], engine'[d]} = {baseline'.policies[d]}
      BY <2>0, <2>1, <2>3
    <3>2. /\ baseline'.thresholds # Keep =>
                {row'.thresholds, thresholds'} = {baseline'.thresholds}
          /\ baseline'.weights # Keep => {row'.weights, weights'} = {baseline'.weights}
      BY <2>0, <2>1, <2>3 DEF PinnedRow, Live
    <3> QED BY <3>1, <3>2 DEF Rules
  <2>6. (baseline = holder)' /\ Locked'
    BY <2>0, <2>1 DEF Locked
  <2> QED BY <2>4, <2>5, <2>6 DEF BaselineInv, BaselineKept
<1>8. ASSUME UNCHANGED <<baseline, holder, table, engine, row, thresholds, weights, pc, job>>
      PROVE  BaselineInv'
  BY <1>8, BaselineUntouched DEF BaselineInv
<1>9. ASSUME NEW s \in Scanner, Scanning(s)
      PROVE  BaselineInv'
  <2>1. UNCHANGED <<thresholds, weights>>
    BY <1>9 DEF Scanning, ScanBegin, ScanStep, Hit, Miss, Answer, JudgePattern, settings
  <2> QED BY <1>8, <1>9, <2>1 DEF Scanning, others, tables, fleet, locals, history
<1>10. CASE Expiry \/ Publish \/ UNCHANGED vars
  BY <1>8, <1>10
  DEF Expiry, Expire, Publish, vars, others, pipeline, settings, tables, fleet, locals, history
<1> QED
  BY <1>1, <1>2, <1>3, <1>4, <1>5, <1>6, <1>7, <1>9, <1>10 DEF Next, Advance

\* After a managed profile was applied without interference, the database and
\* the live engines say what it says until another one replaces it.
THEOREM BaselineHolds == Spec => []BaselineKept
<1> DEFINE Inv == TypeOK /\ Control /\ AloneInv /\ BaselineInv
<1>1. Init => Inv
  BY InitType, InitAlone, InitBaseline
<1>2. Inv /\ [Next]_vars => Inv'
  BY NextType, NextAlone, NextBaseline
<1>3. Inv => BaselineKept
  BY DEF BaselineInv
<1> HIDE DEF Inv
<1> QED BY <1>1, <1>2, <1>3, PTL DEF Spec
=============================================================================
