--------------------------- MODULE PolicyEngineProofs ---------------------------
(***************************************************************************)
(* Proofs about PolicyEngine, for any number of goroutines and rule files. *)
(***************************************************************************)
EXTENDS PolicyEngine, TLAPS

-----------------------------------------------------------------------------
(* The inductive invariant.                                                *)

\* No recorded version is ahead of the item it was read from.
Bounded ==
    \A x \in Item :
        /\ liveBegan[x] <= ver[x]
        /\ \A p \in Actor : wrote[p][x] <= ver[x] /\ began[p][x] <= ver[x]

\* Until main registers the override files nothing writes them; afterwards
\* every Reload that begins consults them.
Registered ==
    /\ pc[Main] = "setSources" =>
          \A p \in Actor, x \in OverrideFiles :
              /\ wrote[p][x] = Unread
              /\ pc[p] # "lock"
              /\ \A i \in DOMAIN todo[p] : todo[p][i] # x
    /\ sources = IF pc[Main] = "setSources" THEN Bundled ELSE Bundled \o Overrides
    /\ \A p \in Proc : pc[p] # "setSources"

\* Every write of x there is came after version v.
WrittenAfter(x, v) ==
    \A p \in Actor : wrote[p][x] = Unread \/ wrote[p][x] > v

\* What a Reload has read so far is no older than its beginning, and what it
\* will not read was not written when it began.
ReadsFresh ==
    \A q \in Actor : pc[q] \in {"read", "install"} =>
        /\ \A x \in Item : wrote[q][x] <= began[q][x]
        /\ \A x \in Files :
              \/ got[q][x] >= began[q][x]
              \/ /\ pc[q] = "read"
                 /\ \E i \in DOMAIN srcs[q] : i >= next[q] /\ srcs[q][i] = x
              \/ WrittenAfter(x, began[q][x])
        /\ pc[q] = "install" => got[q][Policies] >= began[q][Policies]

LiveFresh ==
    \A x \in Item : live[x] >= liveBegan[x] \/ WrittenAfter(x, liveBegan[x])

IInv == TypeOK /\ Bounded /\ Registered /\ ReadsFresh /\ LiveFresh

-----------------------------------------------------------------------------
(* The source lists.                                                       *)

\* The configured source list is a list of the files of the model.
LEMMA BundledType == Bundled \in Seq(Files)
BY ItemAssumption DEF Files

\* With the override files appended it is still one, and it names every file.
LEMMA AllSources ==
    /\ Bundled \o Overrides \in Seq(Files)
    /\ \A x \in Files :
          \E i \in DOMAIN (Bundled \o Overrides) : (Bundled \o Overrides)[i] = x
<1> DEFINE all == Bundled \o Overrides
<1>1. Bundled \in Seq(Files) /\ Overrides \in Seq(Files) /\ Len(Overrides) = 2
  BY BundledType DEF Overrides, Files, OverrideFiles
<1>2. /\ all \in Seq(Files)
      /\ Len(all) = Len(Bundled) + 2
      /\ \A i \in 1..Len(Bundled) : all[i] = Bundled[i]
      /\ all[Len(Bundled) + 1] = AllowFile
      /\ all[Len(Bundled) + 2] = BlockFile
  BY <1>1 DEF Overrides
<1>3. ASSUME NEW x \in Files
      PROVE  \E i \in DOMAIN all : all[i] = x
  <2>0. DOMAIN all = 1..(Len(Bundled) + 2) /\ Len(Bundled) \in Nat
    BY <1>1, <1>2
  <2>1. CASE x \in BundledFiles
    <3>1. PICK i \in DOMAIN Bundled : Bundled[i] = x
      BY <2>1 DEF BundledFiles
    <3> QED BY <3>1, <2>0, <1>1, <1>2
  <2>2. CASE x = AllowFile
    BY <2>2, <2>0, <1>2
  <2>3. CASE x = BlockFile
    BY <2>3, <2>0, <1>2
  <2> QED BY <2>1, <2>2, <2>3 DEF Files, OverrideFiles
<1> HIDE DEF all
<1> QED BY <1>2, <1>3 DEF all

\* The updater renames a prefix of the configured files.
LEMMA PrefixType ==
    ASSUME NEW n \in 0..Len(Bundled)
    PROVE  /\ SubSeq(Bundled, 1, n) \in Seq(Item)
           /\ \A i \in DOMAIN SubSeq(Bundled, 1, n) :
                 SubSeq(Bundled, 1, n)[i] \notin OverrideFiles
BY ItemAssumption DEF Item, Files

\* Every version in the state is an integer; what TypeOK says, pointwise.
LEMMA Ranges ==
    ASSUME TypeOK, NEW x \in Item, NEW p \in Actor
    PROVE  /\ ver[x] \in Nat /\ liveBegan[x] \in Nat /\ began[p][x] \in Nat
           /\ live[x] \in Int /\ wrote[p][x] \in Int /\ got[p][x] \in Int
<1>1. \A v \in Version : v \in Int
  BY DEF Version, Unread
<1>2. wrote[p] \in [Item -> Version] /\ got[p] \in [Item -> Version]
      /\ began[p] \in [Item -> Nat] /\ live \in [Item -> Version]
      /\ ver \in [Item -> Nat] /\ liveBegan \in [Item -> Nat]
  BY DEF TypeOK
<1> QED BY <1>1, <1>2

-----------------------------------------------------------------------------
\* The invariant holds initially.
LEMMA InitIInv == Init => IInv
<1> SUFFICES ASSUME Init PROVE IInv
  OBVIOUS
<1>1. TypeOK
  BY BundledType DEF Init, TypeOK, SnapshotOf, Version, Unread, PC
<1>2. Bounded
  BY DEF Init, Bounded, Unread
<1>3. Registered
  <2>1. Main \in Actor /\ OverrideFiles \subseteq Item
    BY DEF Actor, Item, Files
  <2>2. /\ pc[Main] = "setSources"
        /\ \A p \in Proc : pc[p] = "idle"
        /\ \A p \in Actor : pc[p] # "lock" /\ todo[p] = <<>>
        /\ \A p \in Actor, x \in OverrideFiles : wrote[p][x] = Unread
    BY <2>1, ProcAssumption DEF Init, Actor
  <2>3. sources = Bundled
    BY DEF Init
  <2> QED BY <2>2, <2>3 DEF Registered
<1>4. ReadsFresh
  BY DEF Init, ReadsFresh
<1>5. LiveFresh
  BY DEF Init, LiveFresh, WrittenAfter
<1> QED BY <1>1, <1>2, <1>3, <1>4, <1>5 DEF IInv

\* An actor other than main is not main, and every file is an item.
LEMMA Naming ==
    /\ Main \in Actor /\ Proc \subseteq Actor
    /\ Files \subseteq Item /\ Policies \in Item /\ Policies \notin Files
    /\ OverrideFiles \subseteq Files /\ BundledFiles \subseteq Files
    /\ AllowFile \in OverrideFiles /\ BlockFile \in OverrideFiles
BY ItemAssumption DEF Actor, Item, Files, OverrideFiles

\* The empty list of writes, and what is left of one after its head.
LEMMA EmptySeqType == <<>> \in Seq(Item)
OBVIOUS

LEMMA TailFacts ==
    ASSUME NEW w \in Seq(Item), w # <<>>
    PROVE  /\ Head(w) \in Item /\ Tail(w) \in Seq(Item)
           /\ Head(w) = w[1] /\ 1 \in DOMAIN w
           /\ \A i \in DOMAIN Tail(w) : i + 1 \in DOMAIN w /\ Tail(w)[i] = w[i + 1]
<1>1. Len(w) \in Nat /\ Len(w) >= 1 /\ DOMAIN w = 1..Len(w)
  OBVIOUS
<1>2. Tail(w) \in Seq(Item) /\ Len(Tail(w)) = Len(w) - 1
  BY <1>1
<1>3. DOMAIN Tail(w) = 1..(Len(w) - 1)
  BY <1>1, <1>2
<1> QED BY <1>1, <1>2, <1>3

\* Starting an operation keeps the invariant when its writes are items, and
\* name no override file before main has registered them.
LEMMA StartIInv ==
    ASSUME NEW p \in Proc, NEW at \in {"write", "lock"}, NEW w \in Seq(Item),
           IInv, Start(p, at, w),
           pc[Main] = "setSources" =>
              at = "write" /\ \A i \in DOMAIN w : w[i] \notin OverrideFiles
    PROVE  IInv'
<1> USE Naming
<1>1. TypeOK'
  BY DEF IInv, TypeOK, Start, history, PC
<1>2. Bounded'
  BY DEF IInv, Bounded, Start, history
<1>3. Registered'
  <2>1. p # Main /\ pc'[Main] = pc[Main]
    BY ProcAssumption DEF IInv, TypeOK, Start
  <2>2. ASSUME pc'[Main] = "setSources", NEW q \in Actor, NEW x \in OverrideFiles
        PROVE  /\ wrote'[q][x] = Unread
               /\ pc'[q] # "lock"
               /\ \A i \in DOMAIN todo'[q] : todo'[q][i] # x
    <3>1. CASE q = p
      BY <2>1, <2>2, <3>1 DEF IInv, TypeOK, Registered, Start, history
    <3>2. CASE q # p
      BY <2>1, <2>2, <3>2 DEF IInv, TypeOK, Registered, Start, history
    <3> QED BY <3>1, <3>2
  <2>3. \A q \in Proc : pc'[q] # "setSources"
    BY DEF IInv, TypeOK, Registered, Start
  <2>4. sources' = IF pc'[Main] = "setSources" THEN Bundled ELSE Bundled \o Overrides
    BY <2>1 DEF IInv, Registered, Start
  <2> QED BY <2>2, <2>3, <2>4 DEF Registered
<1>4. ReadsFresh'
  BY DEF IInv, TypeOK, ReadsFresh, WrittenAfter, Start, history
<1>5. LiveFresh'
  BY DEF IInv, LiveFresh, WrittenAfter, Start, history
<1> QED BY <1>1, <1>2, <1>3, <1>4, <1>5 DEF IInv

\* Every request starts that way.
LEMMA RequestIInv ==
    ASSUME NEW p \in Proc, IInv, Request(p)
    PROVE  IInv'
<1> USE Naming
<1> DEFINE Good(at, w) ==
      /\ at \in {"write", "lock"} /\ w \in Seq(Item)
      /\ pc[Main] = "setSources" =>
            at = "write" /\ \A i \in DOMAIN w : w[i] \notin OverrideFiles
<1>1. CASE PutPolicy(p)
  <2>1. Good("write", <<Policies>>)
    BY <1>1 DEF PutPolicy, Serving
  <2> QED BY <2>1, <1>1, StartIInv DEF PutPolicy
<1>2. CASE PutProtectionPlan(p)
  <2>1. Good("write", <<Policies, Policies, Policies>>)
    BY <1>2 DEF PutProtectionPlan, Serving
  <2> QED BY <2>1, <1>2, StartIInv DEF PutProtectionPlan
<1>3. ASSUME NEW f \in BundledFiles, PutRuleFile(p, f)
      PROVE  IInv'
  <2>1. Good("write", <<f, f>>)
    BY <1>3 DEF PutRuleFile, Serving
  <2> QED BY <2>1, <1>3, StartIInv DEF PutRuleFile
<1>4. CASE PostOverride(p)
  <2>1. Good("lock", <<BlockFile, AllowFile>>) /\ Good("lock", <<AllowFile, BlockFile>>)
    BY <1>4 DEF PostOverride, Serving
  <2>2. CASE Start(p, "lock", <<BlockFile, AllowFile>>)
    BY <2>1, <2>2, StartIInv
  <2>3. CASE Start(p, "lock", <<AllowFile, BlockFile>>)
    BY <2>1, <2>3, StartIInv
  <2> QED BY <2>2, <2>3, <1>4 DEF PostOverride
<1>5. CASE DeleteOverride(p)
  <2>1. Good("lock", <<AllowFile, BlockFile>>)
    BY <1>5 DEF DeleteOverride, Serving
  <2> QED BY <2>1, <1>5, StartIInv DEF DeleteOverride
<1>6. ASSUME NEW n \in 0..Len(Bundled), UpdateRules(p, SubSeq(Bundled, 1, n))
      PROVE  IInv'
  <2>1. Good("write", SubSeq(Bundled, 1, n))
    BY PrefixType
  <2> HIDE DEF Good
  <2>2. Start(p, "write", SubSeq(Bundled, 1, n))
    BY <1>6 DEF UpdateRules
  <2> QED BY <2>1, <2>2, StartIInv DEF Good
<1> QED BY <1>1, <1>2, <1>3, <1>4, <1>5, <1>6 DEF Request

\* Steps that touch only the control state of an actor keep the invariant.
LEMMA ControlIInv ==
    ASSUME NEW p \in Actor, IInv,
           LockOverrides(p) \/ Written(p) \/ WriteFails(p) \/ ReloadFails(p)
    PROVE  IInv'
<1> USE Naming
<1>1. /\ UNCHANGED <<ver, sources, live, srcs, next, got, history>>
      /\ pc[p] \in {"lock", "write", "read"}
      /\ \E s \in {"write", "reload", "error"} : pc' = [pc EXCEPT ![p] = s]
      /\ todo' = todo \/ todo' = [todo EXCEPT ![p] = <<>>]
      /\ ovLock' \in {ovLock, p, NoOne}
  BY DEF LockOverrides, Written, WriteFails, ReloadFails, ReleaseOverrides
<1>2. TypeOK'
  <2>1. pc' \in [Actor -> PC]
    BY <1>1 DEF IInv, TypeOK, PC
  <2>2. todo' \in [Actor -> Seq(Item)]
    BY <1>1, EmptySeqType DEF IInv, TypeOK
  <2>3. ovLock' \in Actor \cup {NoOne}
    BY <1>1 DEF IInv, TypeOK
  <2> QED BY <1>1, <2>1, <2>2, <2>3 DEF IInv, TypeOK, history
<1>3. Bounded'
  BY <1>1 DEF IInv, Bounded, history
<1>4. Registered'
  <2>1. ASSUME NEW q \in Actor
        PROVE  /\ pc'[q] = "setSources" <=> pc[q] = "setSources"
               /\ pc'[q] = "lock" => pc[q] = "lock"
               /\ todo'[q] = todo[q] \/ todo'[q] = <<>>
    <3>1. CASE q = p
      BY <1>1, <3>1 DEF IInv, TypeOK
    <3>2. CASE q # p
      BY <1>1, <3>2 DEF IInv, TypeOK
    <3> QED BY <3>1, <3>2
  <2>2. wrote' = wrote /\ sources' = sources
    BY <1>1 DEF history
  <2>3. ASSUME pc'[Main] = "setSources", NEW q \in Actor, NEW x \in OverrideFiles
        PROVE  /\ wrote'[q][x] = Unread
               /\ pc'[q] # "lock"
               /\ \A i \in DOMAIN todo'[q] : todo'[q][i] # x
    <3>1. pc[Main] = "setSources"
      BY <2>1, <2>3
    <3>2. CASE todo'[q] = <<>>
      BY <2>1, <2>2, <3>1, <3>2 DEF IInv, Registered
    <3>3. CASE todo'[q] = todo[q]
      BY <2>1, <2>2, <3>1, <3>3 DEF IInv, Registered
    <3> QED BY <2>1, <3>2, <3>3
  <2>4. \A q \in Proc : pc'[q] # "setSources"
    BY <2>1 DEF IInv, Registered
  <2>5. sources' = IF pc'[Main] = "setSources" THEN Bundled ELSE Bundled \o Overrides
    BY <2>1, <2>2 DEF IInv, Registered
  <2> QED BY <2>3, <2>4, <2>5 DEF Registered
<1>5. ReadsFresh'
  BY <1>1 DEF IInv, TypeOK, ReadsFresh, WrittenAfter, history
<1>6. LiveFresh'
  BY <1>1 DEF IInv, LiveFresh, WrittenAfter, history
<1> QED BY <1>2, <1>3, <1>4, <1>5, <1>6 DEF IInv

\* Main registers the override files: from here every Reload names them.
LEMMA SetSourcesIInv ==
    ASSUME IInv, SetSources
    PROVE  IInv'
<1> USE Naming
<1>1. TypeOK'
  BY AllSources DEF IInv, TypeOK, SetSources, history, PC
<1>2. Bounded'
  BY DEF IInv, Bounded, SetSources, history
<1>3. Registered'
  BY ProcAssumption DEF IInv, TypeOK, Registered, SetSources, history
<1>4. ReadsFresh'
  BY DEF IInv, TypeOK, ReadsFresh, WrittenAfter, SetSources, history
<1>5. LiveFresh'
  BY DEF IInv, LiveFresh, WrittenAfter, SetSources, history
<1> QED BY <1>1, <1>2, <1>3, <1>4, <1>5 DEF IInv

\* A write is newer than everything recorded before it.
LEMMA WriteIInv ==
    ASSUME NEW p \in Actor, IInv, Write(p)
    PROVE  IInv'
<1> USE Naming
<1> DEFINE y == Head(todo[p])
<1>0. todo[p] \in Seq(Item) /\ todo[p] # <<>>
  BY DEF IInv, TypeOK, Write
<1>1. /\ y \in Item /\ todo[p] \in Seq(Item) /\ Tail(todo[p]) \in Seq(Item)
      /\ y = todo[p][1] /\ 1 \in DOMAIN todo[p]
      /\ \A i \in DOMAIN Tail(todo[p]) :
            i + 1 \in DOMAIN todo[p] /\ Tail(todo[p])[i] = todo[p][i + 1]
  BY <1>0, TailFacts
<1> HIDE DEF y
<1>2. /\ pc[p] = "write"
      /\ ver' = [ver EXCEPT ![y] = @ + 1]
      /\ wrote' = [wrote EXCEPT ![p][y] = ver[y] + 1]
      /\ todo' = [todo EXCEPT ![p] = Tail(@)]
      /\ UNCHANGED <<sources, live, pc, srcs, next, got, ovLock, began, liveBegan>>
  BY DEF Write, y
<1>3. /\ ver' \in [Item -> Nat]
      /\ ver'[y] = ver[y] + 1
      /\ \A x \in Item : x # y => ver'[x] = ver[x]
      /\ wrote' \in [Actor -> [Item -> Version]]
      /\ wrote'[p][y] = ver[y] + 1
      /\ \A q \in Actor, x \in Item :
            q # p \/ x # y => wrote'[q][x] = wrote[q][x]
  <2>1. ver[y] + 1 \in Nat /\ ver[y] + 1 \in Version
    <3>1. ver[y] \in Nat
      BY <1>1, Ranges DEF IInv
    <3> QED BY <3>1 DEF Version
  <2>2. wrote[p] \in [Item -> Version] /\ wrote \in [Actor -> [Item -> Version]]
    BY DEF IInv, TypeOK
  <2>3. [wrote[p] EXCEPT ![y] = ver[y] + 1] \in [Item -> Version]
    BY <2>1, <2>2
  <2> QED BY <1>1, <1>2, <2>1, <2>2, <2>3 DEF IInv, TypeOK
<1>4. TypeOK'
  <2>1. todo' \in [Actor -> Seq(Item)]
    BY <1>1, <1>2 DEF IInv, TypeOK
  <2> QED BY <1>2, <1>3, <2>1 DEF IInv, TypeOK
<1>5. /\ Bounded'
      /\ \A x \in Item, v \in Nat :
            v <= ver[x] /\ WrittenAfter(x, v) => WrittenAfter(x, v)'
  <2>1. \A x \in Item : ver[x] \in Nat /\ ver[x] <= ver'[x] /\ ver'[x] \in Nat
    <3>1. ASSUME NEW x \in Item
          PROVE  ver[x] \in Nat /\ (ver'[x] = ver[x] \/ ver'[x] = ver[x] + 1)
      BY <1>3, Ranges DEF IInv
    <3> QED BY <3>1
  <2>2. ASSUME NEW q \in Actor, NEW x \in Item
        PROVE  wrote'[q][x] <= ver'[x] /\ (wrote'[q][x] = wrote[q][x] \/ wrote'[q][x] = ver[x] + 1)
    <3>1. CASE q = p /\ x = y
      BY <1>3, <3>1, <2>1
    <3>2. CASE q # p \/ x # y
      <4>1. wrote[q][x] <= ver[x] /\ wrote[q][x] \in Int
        BY Ranges DEF IInv, Bounded
      <4> QED BY <1>3, <3>2, <2>1, <4>1
    <3> QED BY <3>1, <3>2
  <2>3. ASSUME NEW x \in Item
        PROVE  liveBegan'[x] <= ver'[x] /\ \A q \in Actor : began'[q][x] <= ver'[x]
    <3>1. \A q \in Actor : began[q][x] \in Nat /\ liveBegan[x] \in Nat
      BY Ranges DEF IInv
    <3>2. liveBegan[x] <= ver[x] /\ \A q \in Actor : began[q][x] <= ver[x]
      BY DEF IInv, Bounded
    <3> QED BY <1>2, <2>1, <3>1, <3>2
  <2>4. ASSUME NEW x \in Item, NEW v \in Nat, v <= ver[x], WrittenAfter(x, v)
        PROVE  WrittenAfter(x, v)'
    BY <2>1, <2>2, <2>4 DEF WrittenAfter
  <2> QED BY <2>2, <2>3, <2>4 DEF Bounded
<1>6. Registered'
  <2>1. ASSUME pc'[Main] = "setSources", NEW q \in Actor, NEW x \in OverrideFiles
        PROVE  /\ wrote'[q][x] = Unread
               /\ pc'[q] # "lock"
               /\ \A i \in DOMAIN todo'[q] : todo'[q][i] # x
    <3>1. /\ pc[Main] = "setSources" /\ pc'[q] # "lock" /\ wrote[q][x] = Unread
          /\ \A r \in Actor : \A i \in DOMAIN todo[r] : todo[r][i] # x
      BY <1>2, <2>1 DEF IInv, Registered
    <3>2. y # x /\ x \in Item
      BY <1>1, <3>1
    <3>3. wrote'[q][x] = Unread
      BY <1>3, <3>1, <3>2
    <3>4. todo'[q] = IF q = p THEN Tail(todo[p]) ELSE todo[q]
      BY <1>2 DEF IInv, TypeOK
    <3>5. \A i \in DOMAIN todo'[q] : todo'[q][i] # x
      BY <1>1, <3>1, <3>4
    <3> QED BY <3>1, <3>3, <3>5
  <2> QED BY <1>2, <2>1 DEF IInv, Registered
<1>7. ReadsFresh'
  <2>1. ASSUME NEW q \in Actor, pc'[q] \in {"read", "install"}
        PROVE  /\ q # p
               /\ \A x \in Item : wrote'[q][x] <= began'[q][x]
               /\ \A x \in Files :
                     \/ got'[q][x] >= began'[q][x]
                     \/ /\ pc'[q] = "read"
                        /\ \E i \in DOMAIN srcs'[q] :
                              i >= next'[q] /\ srcs'[q][i] = x
                     \/ WrittenAfter(x, began[q][x])'
               /\ pc'[q] = "install" => got'[q][Policies] >= began'[q][Policies]
    <3>1. q # p /\ pc[q] \in {"read", "install"}
      BY <1>2, <2>1
    <3>2. \A x \in Item : wrote'[q][x] = wrote[q][x]
      BY <1>3, <3>1
    <3>3. \A x \in Item : began[q][x] \in Nat /\ began[q][x] <= ver[x]
      BY DEF IInv, TypeOK, Bounded
    <3>4. \A x \in Files : WrittenAfter(x, began[q][x]) => WrittenAfter(x, began[q][x])'
      BY <1>2, <1>5, <3>3
    <3> QED BY <1>2, <3>1, <3>2, <3>4 DEF IInv, ReadsFresh
  <2> QED BY <2>1 DEF ReadsFresh
<1>8. LiveFresh'
  <2>1. ASSUME NEW x \in Item
        PROVE  live'[x] >= liveBegan'[x] \/ WrittenAfter(x, liveBegan[x])'
    <3>1. liveBegan[x] \in Nat /\ liveBegan[x] <= ver[x]
      BY DEF IInv, TypeOK, Bounded
    <3> QED BY <1>2, <1>5, <3>1 DEF IInv, LiveFresh
  <2> QED BY <2>1 DEF LiveFresh
<1> QED BY <1>4, <1>5, <1>6, <1>7, <1>8 DEF IInv

\* Beginning a Reload resets what it has read and records the present.
LEMMA ReloadBeginIInv ==
    ASSUME NEW p \in Actor, IInv, ReloadBegin(p)
    PROVE  IInv'
<1> USE Naming
<1>1. TypeOK'
  <2>1. got' \in [Actor -> [Item -> Version]]
    <3>1. [x \in Item |-> Unread] \in [Item -> Version]
      BY DEF Version
    <3> QED BY <3>1 DEF IInv, TypeOK, ReloadBegin
  <2>2. next' \in [Actor -> Nat \ {0}] /\ pc' \in [Actor -> PC]
    BY DEF IInv, TypeOK, ReloadBegin, PC
  <2>3. srcs' \in [Actor -> Seq(Files)] /\ began' \in [Actor -> [Item -> Nat]]
    BY DEF IInv, TypeOK, ReloadBegin
  <2> QED BY <2>1, <2>2, <2>3 DEF IInv, TypeOK, ReloadBegin
<1>2. Bounded'
  BY DEF IInv, TypeOK, Bounded, ReloadBegin
<1>3. Registered'
  <2>1. /\ pc \in [Actor -> PC] /\ pc[p] = "reload"
        /\ pc' = [pc EXCEPT ![p] = "read"]
        /\ UNCHANGED <<sources, todo, wrote>>
    BY DEF IInv, TypeOK, ReloadBegin
  <2>2. \A q \in Actor : pc'[q] = IF q = p THEN "read" ELSE pc[q]
    BY <2>1
  <2>3. pc'[Main] = "setSources" <=> pc[Main] = "setSources"
    BY <2>1, <2>2
  <2>4. \A q \in Actor : pc'[q] = "lock" => pc[q] = "lock"
    BY <2>2
  <2>5. \A q \in Proc : pc'[q] # "setSources"
    BY <2>2 DEF IInv, Registered
  <2> QED BY <2>1, <2>3, <2>4, <2>5 DEF IInv, Registered
<1>4. ASSUME NEW x \in Files
      PROVE  (\E i \in DOMAIN sources : sources[i] = x) \/ WrittenAfter(x, ver[x])
  <2>1. CASE pc[Main] = "setSources"
    <3>1. CASE x \in BundledFiles
      BY <2>1, <3>1 DEF IInv, Registered, BundledFiles
    <3>2. CASE x \in OverrideFiles
      BY <2>1, <3>2 DEF IInv, Registered, WrittenAfter
    <3> QED BY <3>1, <3>2 DEF Files
  <2>2. CASE pc[Main] # "setSources"
    BY <2>2, AllSources DEF IInv, Registered
  <2> QED BY <2>1, <2>2
<1>5. ReadsFresh'
  <2> SUFFICES ASSUME NEW q \in Actor, pc'[q] \in {"read", "install"}
               PROVE  /\ \A x \in Item : wrote'[q][x] <= began'[q][x]
                      /\ \A x \in Files :
                            \/ got'[q][x] >= began'[q][x]
                            \/ /\ pc'[q] = "read"
                               /\ \E i \in DOMAIN srcs'[q] :
                                     i >= next'[q] /\ srcs'[q][i] = x
                            \/ WrittenAfter(x, began[q][x])'
                      /\ pc'[q] = "install" => got'[q][Policies] >= began'[q][Policies]
    BY DEF ReadsFresh
  <2>1. CASE q = p
    <3>1. /\ pc'[q] = "read" /\ srcs'[q] = sources /\ next'[q] = 1 /\ began'[q] = ver
          /\ wrote' = wrote
      BY <2>1 DEF IInv, TypeOK, ReloadBegin
    <3>2. \A x \in Item : wrote'[q][x] <= began'[q][x]
      BY <3>1 DEF IInv, Bounded
    <3>3. ASSUME NEW x \in Files
          PROVE  \/ \E i \in DOMAIN srcs'[q] : i >= next'[q] /\ srcs'[q][i] = x
                 \/ WrittenAfter(x, began[q][x])'
      <4>1. CASE \E i \in DOMAIN sources : sources[i] = x
        <5>1. sources \in Seq(Files)
          BY DEF IInv, TypeOK
        <5>2. \A i \in DOMAIN sources : i >= 1
          BY <5>1
        <5> QED BY <3>1, <4>1, <5>2
      <4>2. CASE WrittenAfter(x, ver[x])
        BY <2>1, <3>1, <4>2 DEF WrittenAfter
      <4> QED BY <1>4, <4>1, <4>2
    <3> QED BY <3>1, <3>2, <3>3
  <2>2. CASE q # p
    BY <2>2 DEF IInv, TypeOK, ReadsFresh, WrittenAfter, ReloadBegin
  <2> QED BY <2>1, <2>2
<1>6. LiveFresh'
  BY DEF IInv, LiveFresh, WrittenAfter, ReloadBegin
<1> QED BY <1>1, <1>2, <1>3, <1>5, <1>6 DEF IInv

\* Reading a file makes its version fresh and loses no other.
LEMMA ReadRuleFileIInv ==
    ASSUME NEW p \in Actor, IInv, ReadRuleFile(p)
    PROVE  IInv'
<1> USE Naming
<1> DEFINE n == next[p]
           f == srcs[p][n]
<1>0. /\ srcs[p] \in Seq(Files) /\ n \in DOMAIN srcs[p] /\ n \in Nat \ {0}
      /\ f \in Files /\ pc[p] = "read"
  BY DEF IInv, TypeOK, ReadRuleFile
<1>1. /\ got' = [got EXCEPT ![p][f] = ver[f]]
      /\ next' = [next EXCEPT ![p] = @ + 1]
      /\ UNCHANGED <<ver, sources, live, pc, todo, srcs, ovLock, wrote, began, liveBegan>>
  BY DEF ReadRuleFile, history
<1>2. ver[f] \in Nat /\ began[p][f] <= ver[f]
  BY <1>0, Ranges DEF IInv, Bounded
<1> HIDE DEF f
<1>3. /\ got' \in [Actor -> [Item -> Version]]
      /\ got'[p][f] = ver[f]
      /\ \A q \in Actor, x \in Item : q # p \/ x # f => got'[q][x] = got[q][x]
  <2>1. got[p] \in [Item -> Version] /\ got \in [Actor -> [Item -> Version]]
    BY DEF IInv, TypeOK
  <2>2. [got[p] EXCEPT ![f] = ver[f]] \in [Item -> Version]
    BY <1>2, <2>1 DEF Version
  <2> QED BY <1>0, <1>1, <2>1, <2>2
<1>4. /\ next' \in [Actor -> Nat \ {0}] /\ next'[p] = n + 1
      /\ \A q \in Actor : q # p => next'[q] = next[q]
  <2>1. n + 1 \in Nat \ {0}
    BY <1>0
  <2>2. next \in [Actor -> Nat \ {0}]
    BY DEF IInv, TypeOK
  <2> HIDE DEF n
  <2>3. next' = [next EXCEPT ![p] = n + 1]
    BY <1>1, <2>2 DEF n
  <2> QED BY <2>1, <2>2, <2>3
<1>5. TypeOK'
  BY <1>1, <1>3, <1>4 DEF IInv, TypeOK
<1>6. Bounded' /\ Registered' /\ LiveFresh'
  BY <1>1 DEF IInv, Bounded, Registered, LiveFresh, WrittenAfter
<1>7. ReadsFresh'
  <2> SUFFICES ASSUME NEW q \in Actor, pc'[q] \in {"read", "install"}
               PROVE  /\ \A x \in Item : wrote'[q][x] <= began'[q][x]
                      /\ \A x \in Files :
                            \/ got'[q][x] >= began'[q][x]
                            \/ /\ pc'[q] = "read"
                               /\ \E i \in DOMAIN srcs'[q] :
                                     i >= next'[q] /\ srcs'[q][i] = x
                            \/ WrittenAfter(x, began[q][x])'
                      /\ pc'[q] = "install" => got'[q][Policies] >= began'[q][Policies]
    BY DEF ReadsFresh
  <2>1. CASE q = p
    <3>1. ASSUME NEW x \in Files
          PROVE  \/ got'[q][x] >= began'[q][x]
                 \/ \E i \in DOMAIN srcs'[q] : i >= next'[q] /\ srcs'[q][i] = x
                 \/ WrittenAfter(x, began[q][x])'
      <4>1. CASE x = f
        BY <1>1, <1>2, <1>3, <2>1, <4>1
      <4>2. CASE x # f
        <5>1. \/ got[q][x] >= began[q][x]
              \/ \E i \in DOMAIN srcs[q] : i >= next[q] /\ srcs[q][i] = x
              \/ WrittenAfter(x, began[q][x])
          BY <1>0, <2>1 DEF IInv, ReadsFresh
        <5>2. CASE \E i \in DOMAIN srcs[q] : i >= next[q] /\ srcs[q][i] = x
          <6>1. PICK i \in DOMAIN srcs[p] : i >= n /\ srcs[p][i] = x
            BY <2>1, <5>2
          <6>2. i # n /\ i \in Nat
            BY <1>0, <4>2, <6>1 DEF f
          <6>3. i >= n + 1
            BY <1>0, <6>1, <6>2
          <6> QED BY <1>1, <1>4, <2>1, <6>1, <6>3
        <5>3. CASE got[q][x] >= began[q][x]
          BY <1>1, <1>3, <4>2, <5>3
        <5>4. CASE WrittenAfter(x, began[q][x])
          BY <1>1, <5>4 DEF WrittenAfter
        <5> QED BY <5>1, <5>2, <5>3, <5>4
      <4> QED BY <4>1, <4>2
    <3>2. pc'[q] = "read" /\ \A x \in Item : wrote'[q][x] <= began'[q][x]
      BY <1>0, <1>1, <2>1 DEF IInv, ReadsFresh
    <3> QED BY <3>1, <3>2
  <2>2. CASE q # p
    <3>1. \A x \in Item : got'[q][x] = got[q][x]
      BY <1>3, <2>2
    <3>2. next'[q] = next[q] /\ srcs' = srcs /\ pc' = pc /\ wrote' = wrote /\ began' = began
      BY <1>1, <1>4, <2>2
    <3> QED BY <3>1, <3>2 DEF IInv, ReadsFresh, WrittenAfter
  <2> QED BY <2>1, <2>2
<1> QED BY <1>5, <1>6, <1>7 DEF IInv

\* The query ends the reads: no file is left to open.
LEMMA ReadPoliciesIInv ==
    ASSUME NEW p \in Actor, IInv, ReadPolicies(p)
    PROVE  IInv'
<1> USE Naming
<1>1. /\ got' = [got EXCEPT ![p][Policies] = ver[Policies]]
      /\ pc' = [pc EXCEPT ![p] = "install"]
      /\ pc[p] = "read" /\ next[p] \notin DOMAIN srcs[p]
      /\ UNCHANGED <<ver, sources, live, todo, srcs, next, ovLock, wrote, began, liveBegan>>
  BY DEF ReadPolicies, history
<1>2. ver[Policies] \in Nat /\ began[p][Policies] <= ver[Policies]
  BY Ranges DEF IInv, Bounded
<1>3. /\ got' \in [Actor -> [Item -> Version]]
      /\ got'[p][Policies] = ver[Policies]
      /\ \A q \in Actor, x \in Item : q # p \/ x # Policies => got'[q][x] = got[q][x]
  <2>1. got[p] \in [Item -> Version] /\ got \in [Actor -> [Item -> Version]]
    BY DEF IInv, TypeOK
  <2>2. [got[p] EXCEPT ![Policies] = ver[Policies]] \in [Item -> Version]
    BY <1>2, <2>1 DEF Version
  <2> QED BY <1>1, <2>1, <2>2
<1>4. /\ pc' \in [Actor -> PC] /\ pc'[p] = "install"
      /\ \A q \in Actor : q # p => pc'[q] = pc[q]
  BY <1>1 DEF IInv, TypeOK, PC
<1>5. TypeOK'
  BY <1>1, <1>3, <1>4 DEF IInv, TypeOK
<1>6. Bounded' /\ LiveFresh'
  BY <1>1 DEF IInv, Bounded, LiveFresh, WrittenAfter
<1>7. Registered'
  <2>1. \A q \in Actor : /\ pc'[q] = "setSources" <=> pc[q] = "setSources"
                         /\ pc'[q] = "lock" => pc[q] = "lock"
    BY <1>1, <1>4
  <2> QED BY <1>1, <2>1 DEF IInv, Registered
<1>8. ReadsFresh'
  <2> SUFFICES ASSUME NEW q \in Actor, pc'[q] \in {"read", "install"}
               PROVE  /\ \A x \in Item : wrote'[q][x] <= began'[q][x]
                      /\ \A x \in Files :
                            \/ got'[q][x] >= began'[q][x]
                            \/ /\ pc'[q] = "read"
                               /\ \E i \in DOMAIN srcs'[q] :
                                     i >= next'[q] /\ srcs'[q][i] = x
                            \/ WrittenAfter(x, began[q][x])'
                      /\ pc'[q] = "install" => got'[q][Policies] >= began'[q][Policies]
    BY DEF ReadsFresh
  <2>1. CASE q = p
    <3>1. srcs[p] \in Seq(Files) /\ next[p] \in Nat /\ next[p] >= 1
      BY DEF IInv, TypeOK
    <3>2. \A i \in DOMAIN srcs[p] : ~(i >= next[p])
      BY <1>1, <3>1
    <3>3. \A x \in Files : got[p][x] >= began[p][x] \/ WrittenAfter(x, began[p][x])
      BY <1>1, <3>2 DEF IInv, ReadsFresh
    <3>4. \A x \in Files : got'[p][x] = got[p][x]
      BY <1>3
    <3>5. got'[p][Policies] >= began[p][Policies]
      BY <1>2, <1>3, Ranges DEF IInv
    <3>6. \A x \in Item : wrote[p][x] <= began[p][x]
      BY <1>1 DEF IInv, ReadsFresh
    <3> QED BY <1>1, <2>1, <3>3, <3>4, <3>5, <3>6 DEF WrittenAfter
  <2>2. CASE q # p
    <3>1. /\ \A x \in Item : got'[q][x] = got[q][x]
          /\ pc'[q] = pc[q]
      BY <1>3, <1>4, <2>2
    <3> QED BY <1>1, <3>1 DEF IInv, ReadsFresh, WrittenAfter
  <2> QED BY <2>1, <2>2
<1> QED BY <1>5, <1>6, <1>7, <1>8 DEF IInv

\* The swap makes live what was read, with the same guarantee.
LEMMA InstallIInv ==
    ASSUME NEW p \in Actor, IInv, Install(p)
    PROVE  IInv'
<1> USE Naming
<1>1. /\ live' = got[p] /\ liveBegan' = began[p] /\ pc[p] = "install"
      /\ pc' = [pc EXCEPT ![p] = "ok"]
      /\ UNCHANGED <<ver, sources, todo, srcs, next, got, ovLock, wrote, began>>
  BY DEF Install
<1>2. /\ pc' \in [Actor -> PC] /\ pc'[p] = "ok"
      /\ \A q \in Actor : q # p => pc'[q] = pc[q]
  BY <1>1 DEF IInv, TypeOK, PC
<1>3. TypeOK'
  BY <1>1, <1>2 DEF IInv, TypeOK
<1>4. Bounded'
  BY <1>1 DEF IInv, Bounded
<1>5. Registered'
  <2>1. \A q \in Actor : /\ pc'[q] = "setSources" <=> pc[q] = "setSources"
                         /\ pc'[q] = "lock" => pc[q] = "lock"
    BY <1>1, <1>2
  <2> QED BY <1>1, <2>1 DEF IInv, Registered
<1>6. ReadsFresh'
  <2>1. \A q \in Actor : pc'[q] \in {"read", "install"} => pc'[q] = pc[q]
    BY <1>2
  <2> QED BY <1>1, <2>1 DEF IInv, ReadsFresh, WrittenAfter
<1>7. LiveFresh'
  BY <1>1 DEF IInv, ReadsFresh, LiveFresh, WrittenAfter, Item
<1> QED BY <1>3, <1>4, <1>5, <1>6, <1>7 DEF IInv

-----------------------------------------------------------------------------
(* The results.                                                            *)

\* Every step keeps the invariant.
LEMMA StepIInv == IInv /\ [Next]_vars => IInv'
<1> SUFFICES ASSUME IInv, [Next]_vars PROVE IInv'
  OBVIOUS
<1>1. CASE SetSources
  BY <1>1, SetSourcesIInv
<1>2. ASSUME NEW p \in Proc, Request(p) PROVE IInv'
  BY <1>2, RequestIInv
<1>3. ASSUME NEW p \in Actor, Advance(p) \/ WriteFails(p) \/ ReloadFails(p)
      PROVE  IInv'
  BY <1>3, ControlIInv, WriteIInv, ReloadBeginIInv, ReadRuleFileIInv,
     ReadPoliciesIInv, InstallIInv DEF Advance, Reload
<1>4. CASE UNCHANGED vars
  <2>1. UNCHANGED <<ver, sources, live, pc, todo, srcs, next, got, ovLock,
                    wrote, began, liveBegan>>
    BY <1>4 DEF vars, code, history
  <2>2. TypeOK' /\ Bounded' /\ Registered' /\ LiveFresh'
    BY <2>1 DEF IInv, TypeOK, Bounded, Registered, LiveFresh, WrittenAfter
  <2>3. ReadsFresh'
    BY <2>1 DEF IInv, ReadsFresh, WrittenAfter
  <2> QED BY <2>2, <2>3 DEF IInv
<1> QED BY <1>1, <1>2, <1>3, <1>4 DEF Next

\* The invariant holds of every behaviour.
LEMMA Invariance == Spec => []IInv
BY InitIInv, StepIInv, PTL DEF Spec

\* Type correctness, for any number of goroutines and rule files.
THEOREM TypeCorrect == Spec => []TypeOK
<1>1. IInv => TypeOK
  BY DEF IInv
<1> QED BY <1>1, Invariance, PTL

\* What is served includes every change made before the Reload that installed
\* it began, whatever the order in which Reloads overlap.
THEOREM ChangesCovered == Spec => []SnapshotCoversEarlierWrites
<1>1. IInv => SnapshotCoversEarlierWrites
  <2> SUFFICES ASSUME IInv, NEW p \in Actor, NEW x \in Item,
                      wrote[p][x] # Unread, wrote[p][x] <= liveBegan[x]
               PROVE  live[x] >= wrote[p][x]
    BY DEF SnapshotCoversEarlierWrites
  <2>1. /\ liveBegan[x] \in Int /\ live[x] \in Int /\ wrote[p][x] \in Int
    BY Ranges DEF IInv
  <2>2. ~WrittenAfter(x, liveBegan[x])
    BY <2>1 DEF WrittenAfter
  <2>3. live[x] >= liveBegan[x]
    BY <2>2 DEF IInv, LiveFresh
  <2> QED BY <2>1, <2>3
<1> QED BY <1>1, Invariance, PTL

\* An operation is answered 200 by the step that makes its own writes live.
THEOREM AnswerInstallsOwnWrites == Spec => OwnWritesInstalled
<1> DEFINE Installed == \A p \in Proc : (pc[p] # "ok" /\ pc'[p] = "ok")
                          => \A x \in Item : live'[x] >= wrote[p][x]
<1>1. IInv /\ [Next]_vars => [Installed]_vars
  <2> SUFFICES ASSUME IInv, Next, NEW p \in Proc, pc[p] # "ok", pc'[p] = "ok",
                      NEW x \in Item
               PROVE  live'[x] >= wrote[p][x]
    OBVIOUS
  <2> USE Naming
  <2>1. pc \in [Actor -> PC] /\ p \in Actor
    BY DEF IInv, TypeOK
  <2>2. Install(p)
    <3>1. CASE SetSources
      BY <2>1, <3>1 DEF SetSources
    <3>2. ASSUME NEW q \in Proc, Request(q) PROVE FALSE
      <4>1. \E at \in {"write", "lock"} : pc' = [pc EXCEPT ![q] = at]
        BY <3>2 DEF Request, PutPolicy, PutProtectionPlan, PutRuleFile, PostOverride,
                    DeleteOverride, UpdateRules, Start
      <4> QED BY <2>1, <4>1
    <3>3. ASSUME NEW q \in Actor, LockOverrides(q) \/ Written(q) \/ WriteFails(q)
                                  \/ ReloadFails(q) \/ ReloadBegin(q) \/ ReadPolicies(q)
          PROVE  FALSE
      <4>1. \E at \in PC \ {"ok"} : pc' = [pc EXCEPT ![q] = at]
        BY <3>3 DEF LockOverrides, Written, WriteFails, ReloadFails, ReloadBegin,
                    ReadPolicies, PC
      <4> QED BY <2>1, <4>1
    <3>4. ASSUME NEW q \in Actor, Write(q) \/ ReadRuleFile(q) PROVE FALSE
      BY <3>4 DEF Write, ReadRuleFile
    <3>5. ASSUME NEW q \in Actor, Install(q) PROVE q = p
      BY <2>1, <3>5 DEF Install
    <3> QED BY <3>1, <3>2, <3>3, <3>4, <3>5 DEF Next, Advance, Reload
  <2>3. /\ live' = got[p] /\ pc[p] = "install"
    BY <2>2 DEF Install
  <2>4. /\ wrote[p][x] <= began[p][x]
        /\ x = Policies \/ x \in Files
        /\ x = Policies => got[p][x] >= began[p][x]
        /\ x \in Files => got[p][x] >= began[p][x] \/ WrittenAfter(x, began[p][x])
    BY <2>1, <2>3 DEF IInv, ReadsFresh, Item
  <2>5. /\ wrote[p][x] \in Int /\ began[p][x] \in Int /\ got[p][x] \in Int
        /\ wrote[p][x] = Unread \/ wrote[p][x] >= 0
        /\ got[p][x] >= Unread
    <3>1. \A v \in Version : v = Unread \/ v >= 0
      BY DEF Version, Unread
    <3>2. wrote[p][x] \in Version /\ got[p][x] \in Version
      BY <2>1 DEF IInv, TypeOK
    <3> QED BY <2>1, <3>1, <3>2, Ranges DEF IInv, Unread
  <2>6. CASE got[p][x] >= began[p][x]
    BY <2>3, <2>4, <2>5, <2>6
  <2>7. CASE WrittenAfter(x, began[p][x])
    BY <2>1, <2>3, <2>4, <2>5, <2>7 DEF WrittenAfter
  <2> QED BY <2>4, <2>6, <2>7
<1> QED BY <1>1, Invariance, PTL DEF Spec, OwnWritesInstalled
=============================================================================
