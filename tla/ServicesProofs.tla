----------------------------- MODULE ServicesProofs -----------------------------
(***************************************************************************)
(* Proofs about the parts of MCServices, for any number of requests and    *)
(* goroutines, any domains, entries and files, and any limits: induction,  *)
(* the domain index, the overrides, a request through the proxy, the      *)
(* correlator, the history of blocks, the canaries, the allowlist, matching *)
(* and the limiter of scan requests.                                       *)
(***************************************************************************)
EXTENDS OverrideStore, RequestPath, Correlator, BlockHistory, Canaries, Allowlist,
        DLPMatch, RateLimit, FiniteSetTheorems, WellFoundedInduction, TLAPS

-----------------------------------------------------------------------------
(* Induction over the natural numbers, for sets instead of predicates.     *)

NatLess == {ss \in Nat \X Nat : ss[1] < ss[2]}

\* The order of the natural numbers has no infinite descent.
LEMMA NatLessWF == IsWellFoundedOn(NatLess, Nat)
BY NatLessThanWellFounded DEF OpToRel, NatLess

\* A set of natural numbers has a least one.
LEMMA LeastNatural ==
    ASSUME NEW T, T \subseteq Nat, T # {}
    PROVE  \E x \in T : \A y \in T : x <= y
<1>1. PICK x \in T : \A y \in T : ~ (<<y, x>> \in NatLess)
  BY NatLessWF, WFMin
<1>2. \A m, n \in Nat : m < n => <<m, n>> \in NatLess
  BY DEF NatLess
<1>3. ASSUME NEW y \in T PROVE x <= y
  <2>1. x \in Nat /\ y \in Nat
    OBVIOUS
  <2>2. ~ (y < x)
    BY <2>1, <1>1, <1>2
  <2> QED BY <2>1, <2>2
<1> QED BY <1>3

\* A set that has 0 and every successor of its members has all of them.
LEMMA SetInduction ==
    ASSUME NEW T, 0 \in T, \A n \in Nat : n \in T => n + 1 \in T
    PROVE  Nat \subseteq T
<1> SUFFICES ASSUME Nat \ T # {} PROVE FALSE
  OBVIOUS
<1>1. PICK x \in Nat \ T : \A y \in Nat \ T : x <= y
  BY LeastNatural
<1>2. x # 0 /\ x - 1 \in Nat
  BY <1>1
<1>3. x - 1 \in T
  BY <1>1, <1>2
<1>4. x - 1 + 1 = x
  BY <1>1
<1> QED BY <1>1, <1>2, <1>3, <1>4

\* g is the fold over F[1], ..., F[n].
FoldOf(g, n, base, F) == g = [i \in 0..n |-> IF i = 0 THEN base ELSE F[i][g[i - 1]]]

\* There is one.
LEMMA FoldExists ==
    ASSUME NEW V, NEW base \in V, NEW F, NEW n \in Nat,
           \A i \in 1..n : F[i] \in [V -> V]
    PROVE  \E g \in [0..n -> V] : FoldOf(g, n, base, F)
<1> DEFINE T == {m \in Nat : m <= n => \E g \in [0..m -> V] : FoldOf(g, m, base, F)}
<1>1. 0 \in T
  <2>1. [i \in 0..0 |-> base] \in [0..0 -> V]
    OBVIOUS
  <2>2. FoldOf([i \in 0..0 |-> base], 0, base, F)
    BY DEF FoldOf
  <2> QED BY <2>1, <2>2
<1>2. ASSUME NEW m \in Nat, m \in T PROVE m + 1 \in T
  <2> SUFFICES ASSUME m + 1 <= n
               PROVE  \E g \in [0..(m + 1) -> V] : FoldOf(g, m + 1, base, F)
    OBVIOUS
  <2>1. PICK g \in [0..m -> V] : FoldOf(g, m, base, F)
    BY <1>2
  <2> DEFINE h == [i \in 0..(m + 1) |-> IF i = m + 1 THEN F[m + 1][g[m]] ELSE g[i]]
  <2>2. F[m + 1] \in [V -> V] /\ g[m] \in V
    OBVIOUS
  <2>3. h \in [0..(m + 1) -> V]
    BY <2>2
  <2>4. ASSUME NEW i \in 0..(m + 1)
        PROVE  h[i] = IF i = 0 THEN base ELSE F[i][h[i - 1]]
    <3>1. CASE i = m + 1
      <4>1. h[i] = F[m + 1][g[m]] /\ h[i - 1] = g[m] /\ i # 0
        BY <3>1
      <4> QED BY <4>1, <3>1
    <3>2. CASE i \in 0..m
      <4>1. h[i] = g[i] /\ (i # 0 => h[i - 1] = g[i - 1])
        BY <3>2
      <4>2. g[i] = IF i = 0 THEN base ELSE F[i][g[i - 1]]
        BY <2>1, <3>2 DEF FoldOf
      <4> QED BY <4>1, <4>2
    <3> QED BY <3>1, <3>2
  <2>5. h = [i \in 0..(m + 1) |-> IF i = 0 THEN base ELSE F[i][h[i - 1]]]
    <3>1. h = [i \in 0..(m + 1) |-> h[i]]
      OBVIOUS
    <3> HIDE DEF h
    <3> QED BY <3>1, <2>4
  <2> HIDE DEF h
  <2> QED BY <2>3, <2>5 DEF FoldOf
<1>3. Nat \subseteq T
  <2> HIDE DEF T
  <2> QED BY <1>1, <1>2, SetInduction
<1> QED BY <1>3

-----------------------------------------------------------------------------
(* RuleLookup: the index against its reference.                            *)

Source(C) == [category : C, entries : SUBSET Entry]

Partial(C) == UNION {[S -> C] : S \in SUBSET Domain}
Index(C) == [exact : Partial(C), wildcard : Partial(C)]

\* Of the first i files, whose domains are named[k], m has the category of the
\* first that names the domain.
FirstWins(m, named, category, i) ==
    /\ DOMAIN m = UNION {named[k] : k \in 1..i}
    /\ \A d \in DOMAIN m : \E k \in 1..i :
          /\ d \in named[k]
          /\ \A j \in 1..(k - 1) : d \notin named[j]
          /\ m[d] = category[k]

\* Adding a file keeps what is there.
LEMMA FirstWinsKept ==
    ASSUME NEW m, NEW named, NEW category, NEW i \in Nat, FirstWins(m, named, category, i)
    PROVE  FirstWins(Indexed(m, named[i + 1], category[i + 1]), named, category, i + 1)
<1> DEFINE both == Indexed(m, named[i + 1], category[i + 1])
<1>1. both = [d \in (DOMAIN m) \cup named[i + 1] |->
                  IF d \in DOMAIN m THEN m[d] ELSE category[i + 1]]
  BY DEF Indexed
<1>2. DOMAIN both = UNION {named[k] : k \in 1..(i + 1)}
  <2>1. DOMAIN both = (DOMAIN m) \cup named[i + 1]
    BY <1>1
  <2>2. 1..(i + 1) = (1..i) \cup {i + 1}
    OBVIOUS
  <2> HIDE DEF both
  <2> QED BY <2>1, <2>2 DEF FirstWins
<1>3. ASSUME NEW d \in DOMAIN both
      PROVE  \E k \in 1..(i + 1) : /\ d \in named[k]
                                   /\ \A j \in 1..(k - 1) : d \notin named[j]
                                   /\ both[d] = category[k]
  <2>1. CASE d \in DOMAIN m
    <3>1. both[d] = m[d]
      BY <2>1, <1>1
    <3>2. PICK k \in 1..i : /\ d \in named[k]
                            /\ \A j \in 1..(k - 1) : d \notin named[j]
                            /\ m[d] = category[k]
      BY <2>1 DEF FirstWins
    <3> HIDE DEF both
    <3> QED BY <3>1, <3>2
  <2>2. CASE d \notin DOMAIN m
    <3>1. d \in named[i + 1] /\ both[d] = category[i + 1]
      BY <2>2, <1>1
    <3>2. \A j \in 1..(i + 1 - 1) : d \notin named[j]
      BY <2>2 DEF FirstWins
    <3> HIDE DEF both
    <3> QED BY <3>1, <3>2
  <2> QED BY <2>1, <2>2
<1>4. FirstWins(both, named, category, i + 1)
  <2> HIDE DEF both
  <2> QED BY <1>2, <1>3 DEF FirstWins
<1> QED BY <1>4

\* AddSource maps indexes to indexes.
LEMMA AddSourceType ==
    ASSUME NEW C, NEW l \in Index(C), NEW src \in Source(C)
    PROVE  AddSource(l, src) \in Index(C)
<1>1. ASSUME NEW m \in Partial(C), NEW D, D \subseteq Domain, NEW c \in C
      PROVE  Indexed(m, D, c) \in Partial(C)
  <2>1. PICK S \in SUBSET Domain : m \in [S -> C]
    BY DEF Partial
  <2>2. Indexed(m, D, c) = [d \in S \cup D |-> IF d \in S THEN m[d] ELSE c]
    BY <2>1 DEF Indexed
  <2>3. Indexed(m, D, c) \in [S \cup D -> C]
    BY <2>1, <2>2
  <2>4. S \cup D \in SUBSET Domain
    BY <1>1
  <2> QED BY <2>3, <2>4 DEF Partial
<1>2. NamedBy(src) \subseteq Domain /\ OpenedBy(src) \subseteq Domain /\ src.category \in C
  BY DEF Source, Entry, NamedBy, OpenedBy
<1>3. l.exact \in Partial(C) /\ l.wildcard \in Partial(C)
  BY DEF Index
<1>5. Indexed(l.exact, NamedBy(src), src.category) \in Partial(C)
  BY <1>1, <1>2, <1>3
<1>6. Indexed(l.wildcard, OpenedBy(src), src.category) \in Partial(C)
  BY <1>1, <1>2, <1>3
<1> QED BY <1>5, <1>6 DEF Index, AddSource

\* Built satisfies its definition.
LEMMA BuiltSteps ==
    ASSUME NEW C, NEW sources \in Seq(Source(C))
    PROVE  \A i \in 0..Len(sources) :
              Built(sources)[i] = IF i = 0 THEN EmptyLookup
                                  ELSE AddSource(Built(sources)[i - 1], sources[i])
<1> DEFINE n == Len(sources)
           F == [i \in 1..n |-> [l \in Index(C) |-> AddSource(l, sources[i])]]
           Steps(g) == g = [i \in 0..n |-> IF i = 0 THEN EmptyLookup
                                           ELSE AddSource(g[i - 1], sources[i])]
<1>1. EmptyLookup \in Index(C)
  <2>1. <<>> \in [{} -> C]
    OBVIOUS
  <2>2. <<>> \in Partial(C)
    BY <2>1 DEF Partial
  <2> QED BY <2>2 DEF EmptyLookup, Index
<1>2. n \in Nat /\ \A i \in 1..n : F[i] \in [Index(C) -> Index(C)]
  BY AddSourceType
<1>3. PICK g \in [0..n -> Index(C)] : FoldOf(g, n, EmptyLookup, F)
  <2> HIDE DEF n, F
  <2> QED BY <1>1, <1>2, FoldExists
<1>4. Steps(g)
  <2>1. ASSUME NEW i \in 0..n
        PROVE  g[i] = IF i = 0 THEN EmptyLookup ELSE AddSource(g[i - 1], sources[i])
    <3>1. CASE i = 0
      BY <3>1, <1>3 DEF FoldOf
    <3>2. CASE i # 0
      <4>1. i \in 1..n /\ g[i - 1] \in Index(C)
        BY <3>2
      <4>2. g[i] = F[i][g[i - 1]]
        <5> HIDE DEF F
        <5> QED BY <3>2, <1>3 DEF FoldOf
      <4>3. F[i] = [l \in Index(C) |-> AddSource(l, sources[i])]
        BY <4>1
      <4>4. F[i][g[i - 1]] = AddSource(g[i - 1], sources[i])
        BY <4>1, <4>3
      <4> QED BY <3>2, <4>2, <4>4
    <3> QED BY <3>1, <3>2
  <2>2. g = [i \in 0..n |-> g[i]]
    BY <1>3
  <2> QED BY <2>1, <2>2
<1>5. Built(sources) = CHOOSE h : Steps(h)
  BY DEF Built
<1>6. Steps(Built(sources))
  BY <1>4, <1>5, Zenon
<1> QED BY <1>6

\* Of the first i files, each index has the first that names, or opens.
LEMMA BuiltFirstWins ==
    ASSUME NEW C, NEW sources \in Seq(Source(C))
    PROVE  LET category == [k \in 1..Len(sources) |-> sources[k].category]
               named == [k \in 1..Len(sources) |-> NamedBy(sources[k])]
               opened == [k \in 1..Len(sources) |-> OpenedBy(sources[k])]
           IN  /\ FirstWins(Build(sources).exact, named, category, Len(sources))
               /\ FirstWins(Build(sources).wildcard, opened, category, Len(sources))
<1> DEFINE n == Len(sources)
           category == [k \in 1..n |-> sources[k].category]
           named == [k \in 1..n |-> NamedBy(sources[k])]
           opened == [k \in 1..n |-> OpenedBy(sources[k])]
           Good(i) == /\ FirstWins(Built(sources)[i].exact, named, category, i)
                      /\ FirstWins(Built(sources)[i].wildcard, opened, category, i)
           T == {i \in Nat : i <= n => Good(i)}
<1>1. 0 \in T
  <2>1. Built(sources)[0] = EmptyLookup
    BY BuiltSteps
  <2>2. Built(sources)[0].exact = <<>> /\ Built(sources)[0].wildcard = <<>>
    BY <2>1 DEF EmptyLookup
  <2>3. DOMAIN <<>> = {}
    OBVIOUS
  <2> HIDE DEF named, opened, category
  <2> QED BY <2>2, <2>3 DEF FirstWins
<1>2. ASSUME NEW i \in Nat, i \in T PROVE i + 1 \in T
  <2> SUFFICES ASSUME i + 1 <= n PROVE Good(i + 1)
    OBVIOUS
  <2>1. Good(i)
    BY <1>2
  <2>2. i + 1 \in 0..n /\ i + 1 # 0 /\ (i + 1) - 1 = i
    OBVIOUS
  <2>3. Built(sources)[i + 1] = AddSource(Built(sources)[i], sources[i + 1])
    BY <2>2, BuiltSteps
  <2>4. /\ named[i + 1] = NamedBy(sources[i + 1])
        /\ opened[i + 1] = OpenedBy(sources[i + 1])
        /\ category[i + 1] = sources[i + 1].category
    BY <2>2
  <2>5. /\ Built(sources)[i + 1].exact =
              Indexed(Built(sources)[i].exact, named[i + 1], category[i + 1])
        /\ Built(sources)[i + 1].wildcard =
              Indexed(Built(sources)[i].wildcard, opened[i + 1], category[i + 1])
    <3> HIDE DEF named, opened, category
    <3> QED BY <2>3, <2>4 DEF AddSource
  <2> HIDE DEF named, opened, category
  <2> QED BY <2>1, <2>5, FirstWinsKept
<1>3. Nat \subseteq T
  <2> HIDE DEF T
  <2> QED BY <1>1, <1>2, SetInduction
<1>4. Good(n)
  <2>1. n \in Nat /\ n <= n
    OBVIOUS
  <2> HIDE DEF Good, n
  <2> QED BY <1>3, <2>1
<1> QED BY <1>4 DEF Build

\* The least of a set of natural numbers.
LEMMA LeastIs ==
    ASSUME NEW S, S \subseteq Nat, NEW i \in S, \A j \in S : i <= j
    PROVE  Least(S) = i
<1>1. \A k \in S : (\A j \in S : k <= j) => k = i
  OBVIOUS
<1> QED BY <1>1 DEF Least

\* Every nonempty set of natural numbers has its least member.
LEMMA LeastOf ==
    ASSUME NEW S, S \subseteq Nat, S # {}
    PROVE  Least(S) \in S /\ \A j \in S : Least(S) <= j
BY LeastNatural DEF Least

\* What an index says that has the first file of each name.
LEMMA FirstWinsSays ==
    ASSUME NEW m, NEW named, NEW category, NEW n \in Nat, FirstWins(m, named, category, n),
           NEW d
    PROVE  /\ d \in DOMAIN m <=> {k \in 1..n : d \in named[k]} # {}
           /\ d \in DOMAIN m => m[d] = category[Least({k \in 1..n : d \in named[k]})]
<1> DEFINE S == {k \in 1..n : d \in named[k]}
<1>1. d \in DOMAIN m <=> S # {}
  BY DEF FirstWins
<1>2. ASSUME d \in DOMAIN m PROVE m[d] = category[Least(S)]
  <2>1. PICK k \in 1..n : /\ d \in named[k]
                          /\ \A j \in 1..(k - 1) : d \notin named[j]
                          /\ m[d] = category[k]
    BY <1>2 DEF FirstWins
  <2>2. k \in S /\ \A j \in S : k <= j
    BY <2>1
  <2>3. S \subseteq Nat
    OBVIOUS
  <2> HIDE DEF S
  <2>4. Least(S) = k
    BY <2>2, <2>3, LeastIs
  <2> QED BY <2>1, <2>4
<1> QED BY <1>1, <1>2

\* The index built from any files gives a domain the category that the reference
\* gives it.
THEOREM IndexIsReference ==
    ASSUME NEW C, NEW sources \in Seq(Source(C)), NEW d \in Domain
    PROVE  LookupDomain(Build(sources), d) = CategoryOf(sources, d)
<1> DEFINE n == Len(sources)
           category == [k \in 1..n |-> sources[k].category]
           named == [k \in 1..n |-> NamedBy(sources[k])]
           opened == [k \in 1..n |-> OpenedBy(sources[k])]
           l == Build(sources)
           above == Parents[d]
           opening(p) == FirstWith(sources, {[base |-> p, sub |-> TRUE]})
<1>1. n \in Nat /\ DOMAIN sources = 1..n
  OBVIOUS
<1>2. /\ FirstWins(l.exact, named, category, n)
      /\ FirstWins(l.wildcard, opened, category, n)
  BY BuiltFirstWins
<1>3. ASSUME NEW k \in 1..n PROVE sources[k].entries \subseteq Entry
  <2>1. sources[k] \in Source(C)
    BY <1>1
  <2> QED BY <2>1 DEF Source
<1>4. {k \in 1..n : d \in named[k]} = FirstWith(sources, [base : {d}, sub : BOOLEAN])
  <2>1. ASSUME NEW k \in 1..n
        PROVE  d \in named[k] <=> sources[k].entries \cap [base : {d}, sub : BOOLEAN] # {}
    <3>1. d \in named[k] <=> \E e \in sources[k].entries : e.base = d
      BY DEF NamedBy
    <3>2. ASSUME NEW e \in sources[k].entries
          PROVE  e.base = d <=> e \in [base : {d}, sub : BOOLEAN]
      BY <1>3 DEF Entry
    <3> HIDE DEF named
    <3> QED BY <3>1, <3>2
  <2> QED BY <1>1, <2>1 DEF FirstWith
<1>5. ASSUME NEW p \in Domain
      PROVE  {k \in 1..n : p \in opened[k]} = opening(p)
  <2>1. ASSUME NEW k \in 1..n
        PROVE  p \in opened[k] <=> sources[k].entries \cap {[base |-> p, sub |-> TRUE]} # {}
    <3>1. p \in opened[k] <=> \E e \in sources[k].entries : e.sub /\ e.base = p
      BY DEF OpenedBy
    <3>2. ASSUME NEW e \in sources[k].entries
          PROVE  (e.sub /\ e.base = p) <=> e = [base |-> p, sub |-> TRUE]
      <4>1. e \in [base : Domain, sub : BOOLEAN]
        BY <1>3 DEF Entry
      <4>2. e = [base |-> e.base, sub |-> e.sub] /\ e.sub \in BOOLEAN
        BY <4>1
      <4> QED BY <4>2
    <3> HIDE DEF opened
    <3> QED BY <3>1, <3>2
  <2> QED BY <1>1, <2>1 DEF FirstWith
<1> HIDE DEF l, named, opened, category
<1>6. ASSUME NEW S, S \subseteq 1..n, S # {}
      PROVE  category[Least(S)] = sources[Least(S)].category
  <2>1. S \subseteq Nat
    BY <1>6
  <2>2. Least(S) \in S
    BY <1>6, <2>1, LeastOf
  <2>3. Least(S) \in 1..n
    BY <1>6, <2>2
  <2> QED BY <2>3 DEF category
<1>7. CASE d \in DOMAIN l.exact
  <2> DEFINE naming == FirstWith(sources, [base : {d}, sub : BOOLEAN])
  <2>1. naming # {} /\ l.exact[d] = category[Least(naming)]
    <3> DEFINE S == {j \in 1..n : d \in named[j]}
    <3>1. S # {} /\ l.exact[d] = category[Least(S)]
      <4> HIDE DEF n
      <4> QED BY <1>7, <1>1, <1>2, FirstWinsSays
    <3>2. S = naming
      BY <1>4
    <3> HIDE DEF S, naming
    <3> QED BY <3>1, <3>2
  <2>2. naming \subseteq 1..n
    BY <1>4
  <2>3. l.exact[d] = sources[Least(naming)].category
    <3> HIDE DEF naming
    <3> QED BY <2>1, <2>2, <1>6
  <2> QED BY <1>7, <2>1, <2>3 DEF LookupDomain, CategoryOf, l
<1>8. CASE d \notin DOMAIN l.exact
  <2> DEFINE open == {k \in DOMAIN above : above[k] \in DOMAIN l.wildcard}
             higher == {k \in DOMAIN above : opening(above[k]) # {}}
  <2>1. FirstWith(sources, [base : {d}, sub : BOOLEAN]) = {}
    BY <1>8, <1>1, <1>2, <1>4, FirstWinsSays
  <2>2. above \in Seq(Domain)
    BY ParentsAssumption
  <2>3. ASSUME NEW p \in Domain
        PROVE  /\ p \in DOMAIN l.wildcard <=> opening(p) # {}
               /\ p \in DOMAIN l.wildcard => l.wildcard[p] = category[Least(opening(p))]
    <3> DEFINE S == {j \in 1..n : p \in opened[j]}
    <3>1. /\ p \in DOMAIN l.wildcard <=> S # {}
          /\ p \in DOMAIN l.wildcard => l.wildcard[p] = category[Least(S)]
      <4> HIDE DEF n
      <4> QED BY <1>1, <1>2, FirstWinsSays
    <3>2. S = opening(p)
      BY <1>5
    <3> HIDE DEF S, opening
    <3> QED BY <3>1, <3>2
  <2>9. \A k \in DOMAIN above : above[k] \in Domain
    BY <2>2
  <2>4. open = higher
    BY <2>3, <2>9
  <2>5. ASSUME open # {}
        PROVE  l.wildcard[above[Least(open)]] = sources[Least(opening(above[Least(open)]))].category
    <3>1. open \subseteq Nat
      BY <2>2
    <3>2. Least(open) \in open
      <4> HIDE DEF open
      <4> QED BY <2>5, <3>1, LeastOf
    <3>3. /\ opening(above[Least(open)]) # {}
          /\ l.wildcard[above[Least(open)]] = category[Least(opening(above[Least(open)]))]
      BY <3>2, <2>3, <2>9
    <3>4. opening(above[Least(open)]) \subseteq 1..n
      BY <1>1 DEF FirstWith
    <3> QED BY <3>3, <3>4, <1>6
  <2>6. LookupDomain(l, d) = IF open = {} THEN NoMatch ELSE l.wildcard[above[Least(open)]]
    BY <1>8 DEF LookupDomain
  <2>7. CategoryOf(sources, d) =
           IF higher # {} THEN sources[Least(opening(above[Least(higher)]))].category ELSE NoMatch
    BY <2>1, Zenon DEF CategoryOf
  <2> HIDE DEF open, higher
  <2> QED BY <2>4, <2>5, <2>6, <2>7 DEF l
<1> QED BY <1>7, <1>8

-----------------------------------------------------------------------------
(* OverrideStore: the inductive invariant.                                 *)

\* What is left of an operation: the file it adds to is the last one written.
OpShape ==
    op # NoOp =>
        \/ op.todo = <<>>
        \/ \E l \in List :
              /\ op.wants # Other(l)
              /\ op.todo = <<l>> \/ op.todo = <<Other(l), l>>

\* An operation in progress has already changed the sets in memory, and the
\* files it has written hold them.
OpEffect ==
    op # NoOp =>
        /\ ~settled
        /\ intent[op.entry] = Open
        /\ \A l \in List : op.entry \in mem[l] <=> op.wants = l
        /\ op.todo = <<>> => disk = mem
        /\ \A l \in List : op.todo = <<l>> => disk[Other(l)] = mem[Other(l)]

\* Without a failure the files are the sets in memory, but for the entry of
\* the operation in progress.
InStep ==
    ~failed =>
        /\ op = NoOp => disk = mem
        /\ op # NoOp => \A l \in List : disk[l] \subseteq mem[l] \cup {op.entry}

OverrideInv == /\ OverrideTypeOK /\ OpShape /\ OpEffect /\ InStep
        /\ ListsMatchFiles /\ MutuallyExclusive /\ AcknowledgedIntentKept

-----------------------------------------------------------------------------
\* The two lists and their files' order.
LEMMA TwoLists ==
    /\ List = {"allow", "block"}
    /\ \A l \in List : Other(l) \in List /\ Other(l) # l /\ Other(Other(l)) = l
    /\ \A l \in List : \A m \in List : m = l \/ m = Other(l)
    /\ Absent \notin List /\ Open \notin List /\ Open # Absent
BY DEF List, Other, Absent, Open

\* What is left of the short sequences of writes.
LEMMA ShortTails ==
    ASSUME NEW a \in List, NEW b \in List
    PROVE  /\ Head(<<a>>) = a /\ Tail(<<a>>) = <<>>
           /\ Head(<<b, a>>) = b /\ Tail(<<b, a>>) = <<a>>
           /\ <<>> \in Seq(List) /\ <<a>> \in Seq(List)
<1>1. Head(<<a>>) = a /\ Head(<<b, a>>) = b
  OBVIOUS
<1>2. Tail(<<a>>) = <<>>
  <2>1. /\ Tail(<<a>>) \in Seq(List) /\ Len(Tail(<<a>>)) = 0
    OBVIOUS
  <2> QED BY <2>1
<1>3. Tail(<<b, a>>) = <<a>>
  <2>1. /\ Tail(<<b, a>>) \in Seq(List) /\ Len(Tail(<<b, a>>)) = 1
        /\ Tail(<<b, a>>)[1] = a
    OBVIOUS
  <2> QED BY <2>1
<1> QED BY <1>1, <1>2, <1>3

\* An operation in progress is a change with its fields.
LEMMA OpFields ==
    ASSUME OverrideTypeOK, op # NoOp
    PROVE  /\ op \in Op
           /\ op.entry \in OverrideEntry /\ op.wants \in List \cup {Absent}
           /\ op.todo \in Seq(List)
BY DEF OverrideTypeOK, Op

\* The invariant holds at a first start.
LEMMA OverrideInitInv == OverrideInit => OverrideInv
<1> SUFFICES ASSUME OverrideInit PROVE OverrideInv
  OBVIOUS
<1>1. OverrideTypeOK
  BY DEF OverrideInit, OverrideTypeOK, Intent
<1>2. OpShape /\ OpEffect /\ InStep /\ ListsMatchFiles
  BY DEF OverrideInit, OpShape, OpEffect, InStep, ListsMatchFiles
<1>3. MutuallyExclusive /\ AcknowledgedIntentKept
  BY DEF OverrideInit, MutuallyExclusive, AcknowledgedIntentKept, List, Absent
<1> QED BY <1>1, <1>2, <1>3 DEF OverrideInv

\* Taking the mutex and changing the sets in memory keeps the invariant.
LEMMA BeginKeeps ==
    ASSUME NEW e \in OverrideEntry, NEW l \in List, NEW w \in {l, Absent},
           OverrideInv, Begin(e, w, <<Other(l), l>>),
           mem' \in [List -> SUBSET OverrideEntry],
           \A m \in List : e \in mem'[m] <=> w = m,
           \A m \in List, x \in OverrideEntry : x # e => (x \in mem'[m] <=> x \in mem[m])
    PROVE  OverrideInv'
<1> USE TwoLists
<1>1. /\ op = NoOp
      /\ op' = [kind |-> "change", entry |-> e, wants |-> w, todo |-> <<Other(l), l>>]
      /\ intent' = [intent EXCEPT ![e] = Open]
      /\ settled' = FALSE
      /\ UNCHANGED <<disk, shipped, failed>>
  BY DEF Begin
<1>2. /\ op' # NoOp /\ op'.entry = e /\ op'.wants = w /\ op'.todo = <<Other(l), l>>
      /\ op' \in Op
  BY <1>1 DEF Op, NoOp
<1>3. OverrideTypeOK'
  BY <1>1, <1>2 DEF OverrideInv, OverrideTypeOK, Intent
<1>4. OpShape'
  BY <1>2 DEF OpShape
<1>5. OpEffect'
  <2>1. op'.todo # <<>> /\ \A m \in List : op'.todo # <<m>>
    BY <1>2
  <2>2. intent'[e] = Open
    BY <1>1 DEF OverrideInv, OverrideTypeOK
  <2> QED BY <1>1, <1>2, <2>1, <2>2 DEF OpEffect
<1>6. ASSUME ~failed'
      PROVE  \A m \in List : disk'[m] \subseteq mem'[m] \cup {op'.entry}
  <2>1. disk' = mem
    BY <1>1, <1>6 DEF OverrideInv, InStep
  <2>2. mem \in [List -> SUBSET OverrideEntry]
    BY DEF OverrideInv, OverrideTypeOK
  <2> QED BY <1>2, <2>1, <2>2
<1>7. InStep'
  BY <1>2, <1>6 DEF InStep
<1>8. ListsMatchFiles'
  BY <1>1 DEF ListsMatchFiles
<1>9. MutuallyExclusive'
  <2> SUFFICES ASSUME ~failed'
               PROVE  mem'["allow"] \cap mem'["block"] = {}
    BY <1>1 DEF OverrideInv, MutuallyExclusive
  <2>1. mem["allow"] \cap mem["block"] = {}
    BY <1>1 DEF OverrideInv, MutuallyExclusive
  <2>2. ASSUME NEW x \in mem'["allow"], x \in mem'["block"]
        PROVE  FALSE
    <3>1. x \in OverrideEntry /\ "allow" \in List /\ "block" \in List
      BY DEF List
    <3>2. x # e
      BY <2>2, <3>1
    <3> QED BY <2>1, <2>2, <3>1, <3>2
  <2> QED BY <2>2
<1>10. AcknowledgedIntentKept'
  <2> SUFFICES ASSUME NEW x \in OverrideEntry, intent'[x] # Open, NEW m \in List
               PROVE  /\ x \in mem'[m] <=> intent'[x] = m
                      /\ x \in disk'[m] <=> intent'[x] = m
    BY DEF AcknowledgedIntentKept
  <2>1. x # e /\ intent'[x] = intent[x]
    BY <1>1 DEF OverrideInv, OverrideTypeOK
  <2> QED BY <1>1, <2>1 DEF OverrideInv, AcknowledgedIntentKept
<1> QED BY <1>3, <1>4, <1>5, <1>7, <1>8, <1>9, <1>10 DEF OverrideInv

\* AddOverride and RemoveOverride begin that way.
LEMMA RequestKeeps ==
    ASSUME NEW e \in OverrideEntry, OverrideInv, RemoveOverride(e) \/ \E l \in List : AddOverride(e, l)
    PROVE  OverrideInv'
<1> USE TwoLists
<1>1. mem \in [List -> SUBSET OverrideEntry]
  BY DEF OverrideInv, OverrideTypeOK
<1>2. ASSUME NEW l \in List, AddOverride(e, l) PROVE OverrideInv'
  <2>1. /\ mem' = [mem EXCEPT ![l] = @ \cup {e}, ![Other(l)] = @ \ {e}]
        /\ Begin(e, l, <<Other(l), l>>)
    BY <1>2 DEF AddOverride
  <2>2. /\ mem'[l] = mem[l] \cup {e} /\ mem'[Other(l)] = mem[Other(l)] \ {e}
        /\ mem' \in [List -> SUBSET OverrideEntry]
    BY <1>1, <2>1
  <2>3. \A m \in List : e \in mem'[m] <=> l = m
    BY <2>2
  <2>4. \A m \in List, x \in OverrideEntry : x # e => (x \in mem'[m] <=> x \in mem[m])
    BY <2>2
  <2> QED BY <2>1, <2>2, <2>3, <2>4, BeginKeeps
<1>3. CASE RemoveOverride(e)
  <2>1. /\ mem' = [m \in List |-> mem[m] \ {e}]
        /\ Begin(e, Absent, <<Other("block"), "block">>)
    BY <1>3 DEF RemoveOverride, Other
  <2>2. mem' \in [List -> SUBSET OverrideEntry]
    BY <1>1, <2>1
  <2>3. \A m \in List : e \in mem'[m] <=> Absent = m
    BY <2>1
  <2>4. \A m \in List, x \in OverrideEntry : x # e => (x \in mem'[m] <=> x \in mem[m])
    BY <2>1
  <2>5. "block" \in List
    BY DEF List
  <2> QED BY <2>1, <2>2, <2>3, <2>4, <2>5, BeginKeeps
<1> QED BY <1>2, <1>3

\* A file written brings disk closer to memory and breaks no promise.
LEMMA WriteFileKeeps ==
    ASSUME OverrideInv, WriteFile
    PROVE  OverrideInv'
<1> USE TwoLists
<1>1. /\ op # NoOp /\ op \in Op /\ op.entry \in OverrideEntry
      /\ op.wants \in List \cup {Absent} /\ op.todo \in Seq(List)
  BY OpFields DEF OverrideInv, WriteFile
<1>2. PICK l \in List :
        /\ op.wants # Other(l)
        /\ op.todo = <<l>> \/ op.todo = <<Other(l), l>>
  BY <1>1 DEF OverrideInv, OpShape, WriteFile
<1> DEFINE f == Head(op.todo)
<1>3. /\ op' = [op EXCEPT !.todo = Tail(@)]
      /\ disk' = [disk EXCEPT ![f] = mem[f]]
      /\ UNCHANGED <<mem, shipped, intent, failed, settled>>
  BY DEF WriteFile
<1>4. \/ f = l /\ op.todo = <<l>> /\ Tail(op.todo) = <<>>
      \/ f = Other(l) /\ op.todo = <<Other(l), l>> /\ Tail(op.todo) = <<l>>
  <2>1. /\ Head(<<l>>) = l /\ Tail(<<l>>) = <<>>
        /\ Head(<<Other(l), l>>) = Other(l) /\ Tail(<<Other(l), l>>) = <<l>>
    BY ShortTails
  <2>2. CASE op.todo = <<l>>
    BY <2>1, <2>2
  <2>3. CASE op.todo = <<Other(l), l>>
    BY <2>1, <2>3
  <2> QED BY <1>2, <2>2, <2>3
<1>5. f \in List /\ Tail(op.todo) \in Seq(List)
  <2>1. Other(l) \in List /\ <<>> \in Seq(List) /\ <<l>> \in Seq(List)
    BY ShortTails
  <2> HIDE DEF f
  <2> QED BY <1>4, <2>1
<1> HIDE DEF f
<1>6. /\ op' # NoOp /\ op' \in Op /\ op'.entry = op.entry /\ op'.wants = op.wants
      /\ op'.todo = Tail(op.todo)
  BY <1>1, <1>3, <1>5 DEF Op, NoOp
<1>7. /\ disk \in [List -> SUBSET OverrideEntry] /\ mem \in [List -> SUBSET OverrideEntry]
      /\ disk' \in [List -> SUBSET OverrideEntry]
      /\ disk'[f] = mem[f] /\ \A m \in List : m # f => disk'[m] = disk[m]
  BY <1>3, <1>5 DEF OverrideInv, OverrideTypeOK
<1>8. OverrideTypeOK'
  BY <1>3, <1>6, <1>7 DEF OverrideInv, OverrideTypeOK
<1>9. OpShape'
  BY <1>2, <1>4, <1>6 DEF OpShape
<1>10. OpEffect'
  <2>1. CASE f = l /\ op.todo = <<l>> /\ Tail(op.todo) = <<>>
    <3>1. disk[Other(l)] = mem[Other(l)]
      BY <1>1, <2>1 DEF OverrideInv, OpEffect
    <3>2. \A m \in List : disk'[m] = mem[m]
      BY <1>7, <2>1, <3>1
    <3>3. disk' = mem
      BY <1>7, <3>2
    <3>4. \A m \in List : <<>> # <<m>>
      OBVIOUS
    <3> QED BY <1>1, <1>3, <1>6, <2>1, <3>3, <3>4 DEF OverrideInv, OpEffect
  <2>2. CASE f = Other(l) /\ op.todo = <<Other(l), l>> /\ Tail(op.todo) = <<l>>
    <3>1. <<l>> # <<>> /\ \A m \in List : <<l>> = <<m>> => m = l
      OBVIOUS
    <3>2. disk'[Other(l)] = mem[Other(l)]
      BY <1>7, <2>2
    <3>3. /\ ~settled /\ intent[op.entry] = Open
          /\ \A m \in List : op.entry \in mem[m] <=> op.wants = m
      BY <1>1 DEF OverrideInv, OpEffect
    <3> QED BY <1>3, <1>6, <2>2, <3>1, <3>2, <3>3 DEF OpEffect
  <2> QED BY <1>4, <2>1, <2>2
<1>11. InStep'
  BY <1>1, <1>3, <1>6, <1>7 DEF OverrideInv, InStep
<1>12. ListsMatchFiles'
  BY <1>1, <1>3 DEF OverrideInv, OpEffect, ListsMatchFiles
<1>13. MutuallyExclusive'
  <2> SUFFICES ASSUME ~failed
               PROVE  disk'["allow"] \cap disk'["block"] = {}
    BY <1>3 DEF OverrideInv, MutuallyExclusive
  <2>1. mem[l] \cap mem[Other(l)] = {}
    BY DEF OverrideInv, MutuallyExclusive, List, Other
  <2>2. disk'[Other(l)] = mem[Other(l)]
    BY <1>1, <1>4, <1>7 DEF OverrideInv, OpEffect
  <2>3. disk'[l] \subseteq mem[l] \cup {op.entry}
    BY <1>1, <1>7 DEF OverrideInv, InStep
  <2>4. op.entry \notin mem[Other(l)]
    BY <1>1, <1>2 DEF OverrideInv, OpEffect
  <2>5. disk'[l] \cap disk'[Other(l)] = {}
    BY <2>1, <2>2, <2>3, <2>4
  <2> QED BY <2>5 DEF List, Other
<1>14. AcknowledgedIntentKept'
  <2> SUFFICES ASSUME NEW x \in OverrideEntry, intent[x] # Open, NEW m \in List
               PROVE  /\ x \in mem[m] <=> intent[x] = m
                      /\ x \in disk'[m] <=> intent[x] = m
    BY <1>3 DEF AcknowledgedIntentKept
  <2> QED BY <1>7 DEF OverrideInv, AcknowledgedIntentKept
<1> QED BY <1>8, <1>9, <1>10, <1>11, <1>12, <1>13, <1>14 DEF OverrideInv

\* A failed write, the return and a restart keep it.
LEMMA EndKeeps ==
    ASSUME OverrideInv, WriteFails \/ Return \/ Restart
    PROVE  OverrideInv'
<1> USE TwoLists
<1>1. op' = NoOp /\ UNCHANGED <<disk, shipped>>
  BY DEF WriteFails, Return, Restart
<1>2. OpShape' /\ OpEffect'
  BY <1>1 DEF OpShape, OpEffect
<1>3. CASE WriteFails
  <2>1. /\ UNCHANGED <<mem, disk, shipped, intent, settled>> /\ failed' = TRUE /\ op # NoOp
    BY <1>3 DEF WriteFails
  <2>2. OverrideTypeOK' /\ InStep' /\ MutuallyExclusive' /\ AcknowledgedIntentKept'
    BY <1>1, <2>1 DEF OverrideInv, OverrideTypeOK, InStep, MutuallyExclusive, AcknowledgedIntentKept
  <2>3. ListsMatchFiles'
    BY <2>1 DEF OverrideInv, ListsMatchFiles
  <2> QED BY <1>2, <2>2, <2>3 DEF OverrideInv
<1>4. CASE Return
  <2>1. /\ UNCHANGED <<mem, disk, shipped, failed>> /\ settled' = TRUE
        /\ op # NoOp /\ op.todo = <<>>
        /\ intent' = [intent EXCEPT ![op.entry] = op.wants]
    BY <1>4 DEF Return
  <2>2. disk = mem /\ \A l \in List : op.entry \in mem[l] <=> op.wants = l
    BY <2>1 DEF OverrideInv, OpEffect
  <2>3. op.entry \in OverrideEntry /\ op.wants \in Intent
    BY <2>1, OpFields DEF OverrideInv, Intent
  <2>4. OverrideTypeOK'
    BY <1>1, <2>1, <2>3 DEF OverrideInv, OverrideTypeOK
  <2>5. InStep' /\ ListsMatchFiles' /\ MutuallyExclusive'
    BY <1>1, <2>1, <2>2 DEF OverrideInv, InStep, ListsMatchFiles, MutuallyExclusive
  <2>6. AcknowledgedIntentKept'
    <3> SUFFICES ASSUME NEW x \in OverrideEntry, intent'[x] # Open, NEW m \in List
                 PROVE  x \in mem[m] <=> intent'[x] = m
      BY <2>1, <2>2 DEF AcknowledgedIntentKept
    <3>1. CASE x = op.entry
      BY <2>1, <2>2, <3>1 DEF OverrideInv, OverrideTypeOK
    <3>2. CASE x # op.entry
      BY <2>1, <3>2 DEF OverrideInv, OverrideTypeOK, AcknowledgedIntentKept
    <3> QED BY <3>1, <3>2
  <2> QED BY <1>2, <2>4, <2>5, <2>6 DEF OverrideInv
<1>5. CASE Restart
  <2>1. /\ UNCHANGED <<disk, shipped, intent, failed>> /\ mem' = disk /\ settled' = TRUE
    BY <1>5 DEF Restart
  <2>2. OverrideTypeOK' /\ InStep' /\ ListsMatchFiles'
    BY <1>1, <2>1 DEF OverrideInv, OverrideTypeOK, InStep, ListsMatchFiles
  <2>3. MutuallyExclusive' /\ AcknowledgedIntentKept'
    BY <2>1 DEF OverrideInv, MutuallyExclusive, AcknowledgedIntentKept
  <2> QED BY <1>2, <2>2, <2>3 DEF OverrideInv
<1> QED BY <1>3, <1>4, <1>5

-----------------------------------------------------------------------------
(* The results.                                                            *)

\* Every step keeps the invariant.
LEMMA OverrideStepInv == OverrideInv /\ [OverrideNext]_overrideVars => OverrideInv'
<1> SUFFICES ASSUME OverrideInv, [OverrideNext]_overrideVars PROVE OverrideInv'
  OBVIOUS
<1>1. CASE UNCHANGED overrideVars
  BY <1>1 DEF overrideVars, OverrideInv, OverrideTypeOK, OpShape, OpEffect, InStep, ListsMatchFiles,
     MutuallyExclusive, AcknowledgedIntentKept
<1>2. CASE OverrideNext
  BY <1>2, RequestKeeps, WriteFileKeeps, EndKeeps DEF OverrideNext
<1> QED BY <1>1, <1>2

\* The invariant holds of every behaviour.
LEMMA OverrideInvariance == OverrideSpec => []OverrideInv
BY OverrideInitInv, OverrideStepInv, PTL DEF OverrideSpec

\* Type correctness, whatever the entries and the bundled files.
THEOREM OverrideTypeCorrect == OverrideSpec => []OverrideTypeOK
<1>1. OverrideInv => OverrideTypeOK
  BY DEF OverrideInv
<1> QED BY <1>1, OverrideInvariance, PTL

\* What an administrator is shown after a success or a restart is on disk.
THEOREM ListsPersisted == OverrideSpec => []ListsMatchFiles
<1>1. OverrideInv => ListsMatchFiles
  BY DEF OverrideInv
<1> QED BY <1>1, OverrideInvariance, PTL

\* Without a failed write no entry is ever on both lists, crashes included.
THEOREM Exclusivity == OverrideSpec => []MutuallyExclusive
<1>1. OverrideInv => MutuallyExclusive
  BY DEF OverrideInv
<1> QED BY <1>1, OverrideInvariance, PTL

\* An acknowledged change outlives failures and crashes in other requests.
THEOREM IntentKept == OverrideSpec => []AcknowledgedIntentKept
<1>1. OverrideInv => AcknowledgedIntentKept
  BY DEF OverrideInv
<1> QED BY <1>1, OverrideInvariance, PTL

-----------------------------------------------------------------------------
(* What the lists decide.                                                  *)

\* The files a Reload reads are the bundled ones and then the lists.
LEMMA SourcesAre ==
    ASSUME OverrideTypeOK
    PROVE  /\ shipped \in Seq(RuleFile)
           /\ Sources \in Seq(RuleFile)
           /\ Len(Sources) = Len(shipped) + 2
           /\ \A i \in 1..Len(shipped) : Sources[i] = shipped[i]
           /\ Sources[Len(shipped) + 1] = OverrideSource("allow")
           /\ Sources[Len(shipped) + 2] = OverrideSource("block")
<1>1. shipped \in Seq(RuleFile)
  BY ShipmentsAssumption DEF OverrideTypeOK
<1>2. ASSUME NEW l \in List PROVE OverrideSource(l) \in RuleFile
  <2>1. disk[l] \subseteq Entry
    BY OverrideAssumption DEF OverrideTypeOK
  <2>2. Category(l) \in {Category(m) : m \in List}
    OBVIOUS
  <2> QED BY <2>1, <2>2 DEF OverrideSource, RuleFile
<1>3. OverrideSource("allow") \in RuleFile /\ OverrideSource("block") \in RuleFile
  BY <1>2 DEF List
<1> HIDE DEF RuleFile, OverrideSource
<1> QED BY <1>1, <1>3 DEF Sources

\* In every state the index agrees with the reference.
LEMMA StateIndexed == OverrideTypeOK => IndexMatchesReference
<1> SUFFICES ASSUME OverrideTypeOK, NEW d \in Domain
             PROVE  LookupDomain(Build(Sources), d) = CategoryOf(Sources, d)
  BY DEF IndexMatchesReference
<1>1. Sources \in Seq(Source(FileCategory \cup {Category(l) : l \in List}))
  BY SourcesAre DEF RuleFile, Source
<1> QED BY <1>1, IndexIsReference

\* A file names d when it has one of its two entries.
LEMMA NamesDomain ==
    ASSUME NEW src \in RuleFile, NEW d \in Domain
    PROVE  src.entries \cap [base : {d}, sub : BOOLEAN] # {} <=>
              Exactly(d) \in src.entries \/ Below(d) \in src.entries
<1>1. \A e \in [base : {d}, sub : BOOLEAN] : e = Exactly(d) \/ e = Below(d)
  <2> TAKE e \in [base : {d}, sub : BOOLEAN]
  <2>1. e = [base |-> d, sub |-> e.sub] /\ e.sub \in BOOLEAN
    OBVIOUS
  <2> QED BY <2>1 DEF Exactly, Below
<1>2. Exactly(d) \in [base : {d}, sub : BOOLEAN] /\ Below(d) \in [base : {d}, sub : BOOLEAN]
  BY DEF Exactly, Below
<1> QED BY <1>1, <1>2

\* The first file that names d decides it.
LEMMA FirstNamerDecides ==
    ASSUME OverrideTypeOK, NEW d \in Domain, NEW l \in List, NEW k \in 1..Len(Sources),
           Sources[k] = OverrideSource(l),
           Exactly(d) \in disk[l],
           \A i \in 1..(k - 1) : /\ Exactly(d) \notin Sources[i].entries
                                 /\ Below(d) \notin Sources[i].entries
    PROVE  Decision(d) = Policy[Category(l)]
<1> DEFINE naming == FirstWith(Sources, [base : {d}, sub : BOOLEAN])
<1>1. Sources \in Seq(RuleFile) /\ DOMAIN Sources = 1..Len(Sources) /\ Len(Sources) \in Nat
  BY SourcesAre
<1>2. \A i \in 1..Len(Sources) : Sources[i] \in RuleFile
  BY <1>1
<1>3. Sources[k].entries = disk[l] /\ Sources[k].category = Category(l)
  BY DEF OverrideSource
<1>4. ASSUME NEW i \in 1..Len(Sources)
      PROVE  i \in naming <=> Exactly(d) \in Sources[i].entries \/ Below(d) \in Sources[i].entries
  BY <1>1, <1>2, NamesDomain DEF FirstWith
<1>5. naming \subseteq 1..Len(Sources)
  BY <1>1 DEF FirstWith
<1>6. k \in naming
  BY <1>3, <1>4
<1>7. \A j \in naming : k <= j
  <2> HIDE DEF naming
  <2> TAKE j \in naming
  <2>1. j \in Nat /\ k \in Nat /\ j \in 1..Len(Sources)
    BY <1>1, <1>5
  <2>2. j < k => j \in 1..(k - 1)
    BY <2>1
  <2>3. ~ (j \in 1..(k - 1))
    BY <1>4, <2>1
  <2> QED BY <2>1, <2>2, <2>3
<1>8. Least(naming) = k
  <2> HIDE DEF naming
  <2>1. naming \subseteq Nat
    BY <1>1, <1>5
  <2> QED BY <1>6, <1>7, <2>1, LeastIs
<1>9. CategoryOf(Sources, d) = Category(l)
  <2>1. naming # {}
    BY <1>6
  <2> QED BY <2>1, <1>3, <1>8, Zenon DEF CategoryOf
<1>10. LookupDomain(Build(Sources), d) = Category(l)
  BY <1>9, StateIndexed DEF IndexMatchesReference
<1> QED BY <1>10, PolicyAssumption DEF Decision, CheckDomain

\* What an acknowledged request put on a list decides.
LEMMA StateDecides == OverrideTypeOK /\ AcknowledgedIntentKept => OverrideDecides
<1> SUFFICES ASSUME OverrideTypeOK, AcknowledgedIntentKept, NEW d \in Domain,
                    Exactly(d) \in OverrideEntry,
                    \A i \in DOMAIN shipped :
                       {Exactly(d), Below(d)} \cap shipped[i].entries = {}
             PROVE  /\ intent[Exactly(d)] = "allow" => Decision(d) = Policy["allow_admin"]
                    /\ intent[Exactly(d)] = "block" /\ Below(d) \notin disk["allow"]
                          => Decision(d) = Policy["block_admin"]
  BY DEF OverrideDecides
<1> DEFINE n == Len(shipped)
<1>0. "allow" \in List /\ "block" \in List
  BY DEF List
<1>1. n \in Nat /\ Len(Sources) = n + 2
  BY SourcesAre
<1>2. ASSUME NEW i \in 1..n
      PROVE  Exactly(d) \notin Sources[i].entries /\ Below(d) \notin Sources[i].entries
  <2>1. i \in DOMAIN shipped /\ Sources[i] = shipped[i]
    BY SourcesAre
  <2> QED BY <2>1
<1>3. ASSUME intent[Exactly(d)] = "allow" PROVE Decision(d) = Policy["allow_admin"]
  <2>1. Exactly(d) \in disk["allow"]
    BY <1>3 DEF AcknowledgedIntentKept, List, Open
  <2> DEFINE k == n + 1
  <2>2. k \in 1..Len(Sources) /\ Sources[k] = OverrideSource("allow")
    BY <1>1, SourcesAre
  <2>3. \A i \in 1..(k - 1) : /\ Exactly(d) \notin Sources[i].entries
                                /\ Below(d) \notin Sources[i].entries
    BY <1>1, <1>2
  <2> HIDE DEF n, k
  <2>4. Decision(d) = Policy[Category("allow")]
    BY <1>0, <2>1, <2>2, <2>3, FirstNamerDecides
  <2> QED BY <2>4 DEF Category
<1>4. ASSUME intent[Exactly(d)] = "block", Below(d) \notin disk["allow"]
      PROVE  Decision(d) = Policy["block_admin"]
  <2>1. Exactly(d) \in disk["block"] /\ Exactly(d) \notin disk["allow"]
    BY <1>4 DEF AcknowledgedIntentKept, List, Open
  <2> DEFINE k == n + 2
  <2>2. k \in 1..Len(Sources) /\ Sources[k] = OverrideSource("block")
    BY <1>1, SourcesAre
  <2>3. Sources[n + 1].entries = disk["allow"]
    BY SourcesAre DEF OverrideSource
  <2>4. \A i \in 1..(k - 1) : /\ Exactly(d) \notin Sources[i].entries
                                /\ Below(d) \notin Sources[i].entries
    <3> TAKE i \in 1..(k - 1)
    <3>1. i \in 1..n \/ i = n + 1
      BY <1>1
    <3> HIDE DEF n
    <3> QED BY <3>1, <1>2, <1>4, <2>1, <2>3
  <2> HIDE DEF n, k
  <2>5. Decision(d) = Policy[Category("block")]
    BY <1>0, <2>1, <2>2, <2>4, FirstNamerDecides
  <2> QED BY <2>5 DEF Category
<1> QED BY <1>3, <1>4

\* The index is right in every reachable state.
THEOREM IndexCorrect == OverrideSpec => []IndexMatchesReference
BY OverrideTypeCorrect, StateIndexed, PTL

\* An acknowledged override decides its domain, with the stated exceptions.
THEOREM OverridesDecide == OverrideSpec => []OverrideDecides
BY OverrideTypeCorrect, IntentKept, StateDecides, PTL

-----------------------------------------------------------------------------
(* RequestPath: merging spans.                                             *)

\* q lists the n spans of S by their starts.
Sorts(q, S, n) ==
    /\ q \in [1..n -> S]
    /\ \A i, j \in 1..n : i < j => q[i] # q[j] /\ q[i][1] <= q[j][1]

\* A finite set of spans can be listed that way, without leaving one out.
LEMMA SortExists ==
    ASSUME NEW S, S \subseteq Span, IsFiniteSet(S)
    PROVE  \E q : Sorts(q, S, Cardinality(S))
<1> DEFINE Sortable(n) == \A R \in SUBSET Span :
                IsFiniteSet(R) /\ Cardinality(R) = n => \E q : Sorts(q, R, n)
           T == {n \in Nat : Sortable(n)}
<1>1. 0 \in T
  <2>1. ASSUME NEW R \in SUBSET Span, IsFiniteSet(R), Cardinality(R) = 0
        PROVE  \E q : Sorts(q, R, 0)
    <3>1. R = {}
      BY <2>1, FS_EmptySet
    <3>2. 1..0 = {} /\ [i \in {} |-> i] \in [{} -> R]
      BY <3>1
    <3>3. Sorts([i \in {} |-> i], R, 0)
      BY <3>2 DEF Sorts
    <3> QED BY <3>3
  <2> QED BY <2>1
<1>2. ASSUME NEW n \in Nat, n \in T PROVE n + 1 \in T
  <2> SUFFICES ASSUME NEW R \in SUBSET Span, IsFiniteSet(R), Cardinality(R) = n + 1
               PROVE  \E q : Sorts(q, R, n + 1)
    OBVIOUS
  <2>1. R # {}
    BY FS_EmptySet
  <2> DEFINE starts == {x[1] : x \in R}
  <2>2. starts \subseteq Nat /\ starts # {}
    BY <2>1 DEF Span
  <2>3. PICK m \in starts : \A k \in starts : m <= k
    <3> HIDE DEF starts
    <3> QED BY <2>2, LeastNatural
  <2>4. PICK x \in R : x[1] = m
    BY <2>3
  <2>5. \A y \in R : x[1] <= y[1]
    BY <2>3, <2>4
  <2> DEFINE rest == R \ {x}
  <2>6. IsFiniteSet(rest) /\ Cardinality(rest) = n /\ rest \in SUBSET Span
    <3>1. IsFiniteSet(rest) /\ Cardinality(rest) = Cardinality(R) - 1
      BY <2>4, FS_RemoveElement
    <3> QED BY <3>1
  <2>7. PICK q : Sorts(q, rest, n)
    <3> HIDE DEF rest
    <3> QED BY <1>2, <2>6
  <2> DEFINE p == [i \in 1..(n + 1) |-> IF i = 1 THEN x ELSE q[i - 1]]
  <2>8. q \in [1..n -> rest]
    BY <2>7 DEF Sorts
  <2>9. \A i \in 1..(n + 1) : i # 1 => i - 1 \in 1..n /\ p[i] = q[i - 1] /\ p[i] \in rest
    BY <2>8
  <2>10. p[1] = x
    OBVIOUS
  <2>11. p \in [1..(n + 1) -> R]
    BY <2>8
  <2>12. ASSUME NEW i \in 1..(n + 1), NEW j \in 1..(n + 1), i < j
         PROVE  p[i] # p[j] /\ p[i][1] <= p[j][1]
    <3>1. j # 1 /\ p[j] \in rest /\ p[j] = q[j - 1] /\ j - 1 \in 1..n
      BY <2>9, <2>12
    <3>2. CASE i = 1
      <4> HIDE DEF p
      <4> QED BY <3>1, <3>2, <2>10, <2>5
    <3>3. CASE i # 1
      <4>1. p[i] = q[i - 1] /\ i - 1 \in 1..n /\ i - 1 < j - 1
        BY <2>9, <2>12, <3>3
      <4> HIDE DEF p
      <4> QED BY <3>1, <4>1, <2>7 DEF Sorts
    <3> QED BY <3>2, <3>3
  <2>13. Sorts(p, R, n + 1)
    <3> HIDE DEF p
    <3> QED BY <2>11, <2>12 DEF Sorts
  <2> QED BY <2>13
<1>3. Nat \subseteq T
  <2> HIDE DEF T
  <2> QED BY <1>1, <1>2, SetInduction
<1>4. Cardinality(S) \in T
  BY <1>3, FS_CardinalityType
<1> QED BY <1>4

\* ByStart lists every span, by the starts.
LEMMA ByStartSorts ==
    ASSUME NEW S, S \subseteq Span, IsFiniteSet(S)
    PROVE  /\ Sorts(ByStart(S), S, Cardinality(S))
           /\ \A x \in S : \E i \in 1..Cardinality(S) : ByStart(S)[i] = x
<1> DEFINE n == Cardinality(S)
           q == ByStart(S)
<1>1. n \in Nat
  BY FS_CardinalityType
<1>2. \E g \in [1..n -> S] : \A i, j \in 1..n : i < j => g[i] # g[j] /\ g[i][1] <= g[j][1]
  BY SortExists, Zenon DEF Sorts
<1>3. Sorts(q, S, n)
  BY <1>2, Zenon DEF Sorts, ByStart
<1>4. \A x \in S : \E i \in 1..n : q[i] = x
  <2>1. q \in [1..n -> S] /\ \A i, j \in 1..n : i < j => q[i] # q[j]
    BY <1>3 DEF Sorts
  <2>2. q \in Injection(1..n, S)
    <3> SUFFICES ASSUME NEW i \in 1..n, NEW j \in 1..n, q[i] = q[j] PROVE i = j
      BY <2>1 DEF Injection, IsInjective
    <3>1. ~ (i < j) /\ ~ (j < i)
      BY <2>1
    <3> QED BY <3>1, <1>1
  <2>3. Cardinality(1..n) = n
    BY <1>1, FS_Interval
  <2>4. q \in Surjection(1..n, S)
    <3> HIDE DEF q
    <3> QED BY <2>2, <2>3, FS_Injection
  <2> QED BY <2>4 DEF Surjection
<1> QED BY <1>3, <1>4

\* The spans of a row follow each other with a gap between them.
Apart(m) == \A i, j \in 1..Len(m) : i < j => m[i][2] < m[j][1]

\* A span that begins no earlier than the last of the row joins it: it lies in the
\* last one then, and the others are as they were.
LEMMA MergeSpanJoins ==
    ASSUME NEW m \in Seq(Span), NEW s \in Span, m # << >> => m[Len(m)][1] <= s[1],
           NEW r, r = MergeSpan(m, s)
    PROVE  /\ r \in Seq(Span) /\ Len(r) \in Nat /\ Len(r) >= 1 /\ Len(m) <= Len(r)
           /\ r[Len(r)][1] <= s[1] /\ s[2] <= r[Len(r)][2]
           /\ \A k \in 1..Len(m) : r[k][1] = m[k][1] /\ m[k][2] <= r[k][2]
           /\ Apart(m) => Apart(r)
<1> DEFINE n == Len(m)
<1>0. /\ n \in Nat /\ DOMAIN m = 1..n /\ \A k \in 1..n : m[k] \in Span
      /\ \A x \in Span : x[1] \in Nat /\ x[2] \in Nat /\ x[1] < x[2]
  BY DEF Span
<1>1. CASE m # << >> /\ s[1] <= m[n][2]
  <2> DEFINE last == m[n]
             joined == <<last[1], IF s[2] > last[2] THEN s[2] ELSE last[2]>>
  <2>1. n \in 1..n
    BY <1>0, <1>1
  <2>2. joined \in Span /\ joined[1] = last[1] /\ s[2] <= joined[2] /\ last[2] <= joined[2]
    BY <2>1, <1>0 DEF Span
  <2>3. r = [m EXCEPT ![n] = joined]
    BY <1>1 DEF MergeSpan
  <2> HIDE DEF joined
  <2>4. /\ r \in Seq(Span) /\ Len(r) = n /\ r[n] = joined
        /\ \A k \in 1..n : k # n => r[k] = m[k]
    <3> HIDE DEF n
    <3>1. r \in [1..n -> Span]
      BY <1>0, <2>2, <2>3
    <3>2. r \in Seq(Span) /\ Len(r) = n
      BY <3>1, <1>0
    <3> QED BY <3>2, <2>1, <2>3, <1>0
  <2>5. \A k \in 1..n : r[k][1] = m[k][1] /\ m[k][2] <= r[k][2] /\ (k # n => r[k][2] = m[k][2])
    <3> TAKE k \in 1..n
    <3>1. CASE k = n
      BY <3>1, <2>2, <2>4
    <3>2. CASE k # n
      <4>1. r[k] = m[k] /\ m[k][2] \in Nat
        BY <3>2, <2>4, <1>0
      <4> QED BY <3>2, <4>1
    <3> QED BY <3>1, <3>2
  <2>6. Apart(m) => Apart(r)
    <3> SUFFICES ASSUME Apart(m), NEW i \in 1..n, NEW j \in 1..n, i < j PROVE r[i][2] < r[j][1]
      BY <2>4 DEF Apart
    <3>1. i # n
      <4> HIDE DEF n
      <4> QED BY <1>0
    <3>2. m[i][2] < m[j][1]
      BY DEF Apart
    <3> QED BY <3>1, <3>2, <2>5
  <2>7. r[n][1] <= s[1] /\ s[2] <= r[n][2] /\ n >= 1
    BY <1>1, <2>1, <2>2, <2>4
  <2>8. n \in Nat /\ n <= n
    BY <1>0
  <2> HIDE DEF last
  <2> QED BY <2>4, <2>5, <2>6, <2>7, <2>8
<1>2. CASE ~ (m # << >> /\ s[1] <= m[n][2])
  <2>1. r = Append(m, s)
    BY <1>2 DEF MergeSpan
  <2>2. /\ r \in Seq(Span) /\ Len(r) = n + 1 /\ r[n + 1] = s
        /\ \A k \in 1..n : r[k] = m[k]
    BY <2>1
  <2>3. \A k \in 1..n : m[k][1] \in Nat /\ m[k][2] \in Nat
    BY <1>0
  <2>4. s[1] \in Nat /\ s[2] \in Nat
    BY <1>0
  <2>5. Apart(m) => Apart(r)
    <3> SUFFICES ASSUME Apart(m), NEW i \in 1..(n + 1), NEW j \in 1..(n + 1), i < j
                 PROVE  r[i][2] < r[j][1]
      BY <2>2 DEF Apart
    <3>1. i \in 1..n /\ r[i] = m[i]
      BY <1>0, <2>2
    <3>2. CASE j \in 1..n
      <4>1. r[j] = m[j] /\ m[i][2] < m[j][1]
        BY <3>1, <3>2, <2>2 DEF Apart
      <4> QED BY <3>1, <4>1
    <3>3. CASE j = n + 1
      <4>1. r[j] = s /\ n \in 1..n
        BY <3>1, <3>3, <2>2, <1>0
      <4>2. m[n][2] < s[1]
        BY <4>1, <1>2, <2>3, <2>4
      <4>3. m[i][2] <= m[n][2]
        <5>1. CASE i = n
          BY <5>1, <2>3, <3>1
        <5>2. CASE i # n
          <6>1. m[i][2] < m[n][1]
            <7>1. i < n
              <8> HIDE DEF n
              <8> QED BY <5>2, <3>1, <1>0
            <7> QED BY <7>1, <3>1, <4>1 DEF Apart
          <6>2. m[n][1] < m[n][2]
            BY <4>1, <1>0
          <6> QED BY <6>1, <6>2, <3>1, <4>1, <2>3
        <5> QED BY <5>1, <5>2
      <4>4. m[i][2] \in Nat /\ m[n][2] \in Nat
        BY <3>1, <4>1, <2>3
      <4> HIDE DEF n
      <4>5. m[i][2] < s[1]
        BY <4>2, <4>3, <4>4, <2>4
      <4> QED BY <3>1, <4>1, <4>5
    <3>4. j \in 1..n \/ j = n + 1
      <4> HIDE DEF n
      <4> QED BY <1>0
    <3> QED BY <3>2, <3>3, <3>4
  <2>6. \A k \in 1..n : r[k][1] = m[k][1] /\ m[k][2] <= r[k][2]
    BY <2>2, <2>3
  <2>7. n + 1 \in Nat /\ n + 1 >= 1 /\ n <= n + 1
    BY <1>0
  <2>8. s[1] <= s[1] /\ s[2] <= s[2]
    BY <2>4
  <2> QED BY <2>2, <2>5, <2>6, <2>7, <2>8
<1> QED BY <1>1, <1>2

\* A step of mergeSpans makes a row of spans from one.
LEMMA MergeSpanType ==
    ASSUME NEW m \in Seq(Span), NEW s \in Span
    PROVE  MergeSpan(m, s) \in Seq(Span)
<1> DEFINE n == Len(m)
           joined == <<m[n][1], IF s[2] > m[n][2] THEN s[2] ELSE m[n][2]>>
<1>1. CASE m # << >> /\ s[1] <= m[n][2]
  <2>1. n \in 1..n /\ m[n] \in Span
    BY <1>1
  <2>2. joined \in Span
    BY <2>1 DEF Span
  <2>3. MergeSpan(m, s) = [m EXCEPT ![n] = joined]
    BY <1>1 DEF MergeSpan
  <2>4. m \in [1..n -> Span] /\ n \in Nat
    OBVIOUS
  <2> HIDE DEF joined, n
  <2>5. [m EXCEPT ![n] = joined] \in [1..n -> Span]
    BY <2>1, <2>2, <2>4
  <2> QED BY <2>3, <2>4, <2>5
<1>2. CASE ~ (m # << >> /\ s[1] <= m[n][2])
  BY <1>2 DEF MergeSpan
<1> QED BY <1>1, <1>2

\* Merged satisfies its definition.
LEMMA MergedSteps ==
    ASSUME NEW S, S \subseteq Span, IsFiniteSet(S)
    PROVE  /\ \A i \in 0..Cardinality(S) : Merged(S)[i] \in Seq(Span)
           /\ \A i \in 0..Cardinality(S) :
                 Merged(S)[i] = IF i = 0 THEN << >> ELSE MergeSpan(Merged(S)[i - 1], ByStart(S)[i])
<1> DEFINE n == Cardinality(S)
           q == ByStart(S)
           V == Seq(Span)
           F == [i \in 1..n |-> [m \in V |-> MergeSpan(m, q[i])]]
           Steps(g) == g = [i \in 0..n |-> IF i = 0 THEN << >> ELSE MergeSpan(g[i - 1], q[i])]
<1>1. n \in Nat /\ << >> \in V
  BY FS_CardinalityType
<1>2. \A i \in 1..n : q[i] \in Span
  BY ByStartSorts DEF Sorts
<1>3. \A i \in 1..n : F[i] \in [V -> V]
  <2> HIDE DEF q, n
  <2> QED BY <1>2, MergeSpanType
<1>4. PICK g \in [0..n -> V] : FoldOf(g, n, << >>, F)
  <2> HIDE DEF n, F, V
  <2> QED BY <1>1, <1>3, FoldExists
<1>5. Steps(g)
  <2>1. ASSUME NEW i \in 0..n
        PROVE  g[i] = IF i = 0 THEN << >> ELSE MergeSpan(g[i - 1], q[i])
    <3>1. CASE i = 0
      BY <3>1, <1>4 DEF FoldOf
    <3>2. CASE i # 0
      <4>1. i \in 1..n /\ g[i - 1] \in V
        BY <1>1, <3>2
      <4>2. g[i] = F[i][g[i - 1]]
        <5> HIDE DEF F
        <5> QED BY <3>2, <1>4 DEF FoldOf
      <4>3. F[i] = [m \in V |-> MergeSpan(m, q[i])]
        BY <4>1
      <4> HIDE DEF F, V
      <4>4. F[i][g[i - 1]] = MergeSpan(g[i - 1], q[i])
        BY <4>1, <4>3
      <4> QED BY <3>2, <4>2, <4>4
    <3> QED BY <3>1, <3>2
  <2>2. g = [i \in 0..n |-> g[i]]
    BY <1>4
  <2> QED BY <2>1, <2>2
<1>6. Merged(S) = CHOOSE h : Steps(h)
  BY DEF Merged
<1>7. Steps(Merged(S))
  BY <1>5, <1>6, Zenon
<1>8. \A i \in 0..n :
         Merged(S)[i] = IF i = 0 THEN << >> ELSE MergeSpan(Merged(S)[i - 1], q[i])
  <2> HIDE DEF q, n
  <2> QED BY <1>7
<1> DEFINE T == {i \in Nat : i <= n => Merged(S)[i] \in V}
<1>9. Nat \subseteq T
  <2>1. 0 \in T
    <3>1. 0 \in 0..n
      BY <1>1
    <3>2. Merged(S)[0] = << >>
      <4> HIDE DEF q, n
      <4> QED BY <3>1, <1>8
    <3> HIDE DEF V
    <3> QED BY <3>2, <1>1
  <2>2. ASSUME NEW i \in Nat, i \in T PROVE i + 1 \in T
    <3> SUFFICES ASSUME i + 1 <= n PROVE Merged(S)[i + 1] \in V
      OBVIOUS
    <3>1. Merged(S)[i] \in V
      BY <2>2, <1>1
    <3>2. i + 1 \in 0..n /\ i + 1 # 0 /\ (i + 1) - 1 = i /\ i + 1 \in 1..n
      BY <1>1
    <3> DEFINE k == i + 1
    <3>3. Merged(S)[k] = MergeSpan(Merged(S)[i], q[k]) /\ q[k] \in Span
      <4> HIDE DEF q, n
      <4> QED BY <1>2, <1>8, <3>2
    <3> HIDE DEF q, n, k
    <3> QED BY <3>1, <3>3, MergeSpanType DEF k
  <2> HIDE DEF T
  <2> QED BY <2>1, <2>2, SetInduction
<1> QED BY <1>1, <1>8, <1>9

\* mergeSpans gives a row of spans with gaps, in which every span lies.
THEOREM MergeSpansCover ==
    ASSUME NEW S, S \subseteq Span, IsFiniteSet(S)
    PROVE  /\ mergeSpans(S) \in Seq(Span)
           /\ Apart(mergeSpans(S))
           /\ \A x \in S : \E k \in 1..Len(mergeSpans(S)) :
                 mergeSpans(S)[k][1] <= x[1] /\ x[2] <= mergeSpans(S)[k][2]
<1> DEFINE n == Cardinality(S)
           q == ByStart(S)
           M(i) == Merged(S)[i]
           Lies(x, m) == \E k \in 1..Len(m) : m[k][1] <= x[1] /\ x[2] <= m[k][2]
           Good(i) == /\ Apart(M(i))
                      /\ \A j \in 1..i : Lies(q[j], M(i))
                      /\ M(i) # << >> => i >= 1 /\ M(i)[Len(M(i))][1] <= q[i][1]
           T == {i \in Nat : i <= n => Good(i)}
<1>1. n \in Nat
  BY FS_CardinalityType
<1>2. \A i \in 1..n : q[i] \in Span
  BY ByStartSorts DEF Sorts
<1>3. \A i \in 0..n : M(i) \in Seq(Span)
  BY MergedSteps
<1>4. \A i \in 1..n : i - 1 \in 0..n /\ M(i) = MergeSpan(M(i - 1), q[i])
  <2> TAKE i \in 1..n
  <2>1. i \in 0..n /\ i # 0 /\ i - 1 \in 0..n
    BY <1>1
  <2> QED BY <2>1, MergedSteps
<1>5. M(0) = << >>
  <2>1. 0 \in 0..n
    BY <1>1
  <2> QED BY <2>1, MergedSteps
<1>6. \A i, j \in 1..n : i < j => q[i][1] <= q[j][1]
  BY ByStartSorts DEF Sorts
<1>7. 0 \in T
  BY <1>5 DEF Apart
<1> HIDE DEF n, q, M
<1>8. ASSUME NEW i \in Nat, i \in T PROVE i + 1 \in T
  <2> SUFFICES ASSUME i + 1 <= n PROVE Good(i + 1)
    OBVIOUS
  <2> DEFINE k == i + 1
             m == M(i)
             r == M(k)
             s == q[k]
  <2>1. k \in 1..n /\ i \in 0..n /\ k - 1 = i /\ k >= 1
    BY <1>1
  <2>2. Good(i)
    BY <1>1, <1>8
  <2>3. m \in Seq(Span) /\ s \in Span /\ r = MergeSpan(m, s)
    BY <2>1, <1>2, <1>3, <1>4
  <2>4. m # << >> => m[Len(m)][1] <= s[1]
    <3> SUFFICES ASSUME m # << >> PROVE m[Len(m)][1] <= s[1]
      OBVIOUS
    <3>1. i >= 1 /\ m[Len(m)][1] <= q[i][1]
      BY <2>2
    <3>2. i \in 1..n /\ i < k
      BY <2>1, <3>1
    <3>3. q[i][1] <= s[1] /\ q[i][1] \in Nat /\ s[1] \in Nat
      BY <3>2, <2>1, <1>2, <1>6 DEF Span
    <3>4. m[Len(m)][1] \in Nat
      <4>1. m[Len(m)] \in Span
        BY <2>3
      <4> QED BY <4>1 DEF Span
    <3> HIDE DEF m, s
    <3> QED BY <3>1, <3>3, <3>4
  <2> HIDE DEF m, r, s, k
  <2>5. /\ r \in Seq(Span) /\ Len(r) \in Nat /\ Len(r) >= 1 /\ Len(m) <= Len(r)
        /\ r[Len(r)][1] <= s[1] /\ s[2] <= r[Len(r)][2]
        /\ \A l \in 1..Len(m) : r[l][1] = m[l][1] /\ m[l][2] <= r[l][2]
        /\ Apart(m) => Apart(r)
    BY <2>3, <2>4, MergeSpanJoins
  <2>6. Lies(s, r)
    <3>1. Len(r) \in 1..Len(r)
      BY <2>5
    <3> QED BY <3>1, <2>5
  <2>7. ASSUME NEW x \in Span, Lies(x, m) PROVE Lies(x, r)
    <3>1. PICK l \in 1..Len(m) : m[l][1] <= x[1] /\ x[2] <= m[l][2]
      BY <2>7
    <3>2. l \in 1..Len(r) /\ Len(m) \in Nat
      BY <2>3, <2>5
    <3>3. m[l] \in Span /\ r[l] \in Span
      BY <2>3, <2>5, <3>2
    <3>4. m[l][2] \in Nat /\ r[l][2] \in Nat /\ x[2] \in Nat /\ x[1] \in Nat
      BY <3>3 DEF Span
    <3>5. r[l][1] <= x[1] /\ x[2] <= r[l][2]
      BY <3>1, <3>4, <2>5
    <3> QED BY <3>2, <3>5
  <2>8. \A j \in 1..k : Lies(q[j], r)
    <3> HIDE DEF Lies
    <3> TAKE j \in 1..k
    <3>1. CASE j = k
      BY <3>1, <2>6 DEF s
    <3>2. CASE j # k
      <4>1. j \in 1..i /\ j \in 1..n
        <5>1. j \in Nat /\ 1 <= j /\ j <= k /\ k \in Nat /\ k <= n
          BY <2>1, <1>1
        <5>2. j <= i
          BY <5>1, <3>2, <2>1
        <5> QED BY <5>1, <5>2, <1>1
      <4>2. Lies(q[j], m) /\ q[j] \in Span
        BY <4>1, <2>2, <1>2 DEF m
      <4> QED BY <4>2, <2>7
    <3> QED BY <3>1, <3>2
  <2>9. Apart(r)
    BY <2>2, <2>5 DEF m
  <2>10. Good(k)
    <3> HIDE DEF Lies
    <3> QED BY <2>1, <2>5, <2>8, <2>9 DEF r, s
  <2> QED BY <2>10 DEF k
<1>9. Nat \subseteq T
  <2> HIDE DEF T
  <2> QED BY <1>7, <1>8, SetInduction
<1>10. Good(n)
  <2>1. n \in T /\ n <= n
    BY <1>1, <1>9
  <2> HIDE DEF Good
  <2> QED BY <2>1
<1>11. ASSUME NEW x \in S PROVE Lies(x, M(n))
  <2>1. PICK i \in 1..n : q[i] = x
    BY ByStartSorts DEF n, q
  <2> HIDE DEF Lies
  <2> QED BY <1>10, <2>1
<1>12. mergeSpans(S) = M(n)
  BY DEF mergeSpans, M, n
<1>13. M(n) \in Seq(Span)
  BY <1>1, <1>3
<1> QED BY <1>10, <1>11, <1>12, <1>13

-----------------------------------------------------------------------------
(* RequestPath: what is held back.                                         *)

\* What is missed whatever happens: the part of Unheld that a request on its way
\* to be masked brings along.
Overlooked(s) ==
    \/ ~InReach
    \/ s \in Text.packed
    \/ IsForm /\ s \in Text.veiled
    \/ IsForm /\ s \in Text.aside

\* Secret s does not leave a body in which the cells M are replaced.
Kept(s, M) == CellsOf({s}) \subseteq M \/ Overlooked(s)

Under == {"policy", "mode", "read", "scan", "base", "locate", "verify", "done"}
Masking == {"base", "locate", "verify"}

\* Every setting since the request began wants held, the present one included.
HeldNow == held \subseteq HeldBack(policy, mode, enabled)

\* How far masking has come.
MaskProgress ==
    /\ pc \in Under => req # NoReq
    /\ pc = "scan" => dlpAction = "block"
    /\ pc = "read" => dlpAction \in {"block", "mask"}
    /\ pc \in {"policy", "mode", "read"} => masked = {}
    /\ pc \in Masking =>
          /\ dlpAction = "mask"
          /\ IsForm => \A s \in held \ todo : Kept(s, masked)
          /\ ~IsForm => todo = {} /\ masked = {}
    /\ pc \in {"locate", "verify"} =>
          /\ IsForm => \E s \in todo : part = {s}
          /\ ~IsForm => part = Secret
    /\ pc = "verify" => \A s \in held \cap part : Kept(s, hit)

RequestInv == TypeOK /\ HeldNow /\ MaskProgress /\ HeldBackStays

-----------------------------------------------------------------------------
\* The body of a request.
LEMMA TextFacts ==
    ASSUME TypeOK, req # NoReq
    PROVE  /\ Text \in Body
           /\ Text.at \in [Secret -> SUBSET Span]
           /\ \A s \in Secret : IsFiniteSet(Text.at[s])
           /\ Text.packed \subseteq Secret
<1>1. Text \in Body
  BY DEF TypeOK, Text
<1> QED BY <1>1, BodyAssumption

\* A secret's cells are those of its spans, and natural numbers.
LEMMA CellsFacts ==
    ASSUME TypeOK, req # NoReq, NEW s \in Secret
    PROVE  /\ CellsOf({s}) = UNION {Cells(x) : x \in Text.at[s]}
           /\ \A x \in Text.at[s] : x \in Span /\ Cells(x) # {} /\ Cells(x) \subseteq Nat
<1>1. UNION {Text.at[t] : t \in {s}} = Text.at[s]
  OBVIOUS
<1>2. CellsOf({s}) = UNION {Cells(x) : x \in Text.at[s]}
  BY <1>1 DEF CellsOf
<1>3. ASSUME NEW x \in Text.at[s] PROVE x \in Span /\ Cells(x) # {} /\ Cells(x) \subseteq Nat
  <2>1. x \in Span
    BY TextFacts
  <2>2. x[1] \in Nat /\ x[2] \in Nat /\ x[1] < x[2]
    BY <2>1 DEF Span
  <2>3. x[1] \in Cells(x)
    BY <2>2 DEF Cells
  <2>4. Cells(x) \subseteq Nat
    BY <2>2 DEF Cells
  <2> QED BY <2>1, <2>3, <2>4
<1> QED BY <1>2, <1>3

\* The tokens cover every span.
LEMMA SplicedCovers ==
    ASSUME NEW S, S \subseteq Span, IsFiniteSet(S)
    PROVE  /\ Spliced(S) \subseteq Nat
           /\ \A x \in S : Cells(x) \subseteq Spliced(S)
<1> DEFINE m == mergeSpans(S)
<1>1. m \in Seq(Span) /\ DOMAIN m = 1..Len(m)
  BY MergeSpansCover
<1>2. Spliced(S) = UNION {Cells(m[i]) : i \in DOMAIN m}
  BY DEF Spliced
<1>3. ASSUME NEW i \in DOMAIN m PROVE Cells(m[i]) \subseteq Nat
  <2>1. m[i] \in Span
    BY <1>1, <1>3
  <2> HIDE DEF m
  <2> QED BY <2>1 DEF Cells, Span
<1>4. ASSUME NEW x \in S PROVE Cells(x) \subseteq Spliced(S)
  <2>1. PICK k \in 1..Len(m) : m[k][1] <= x[1] /\ x[2] <= m[k][2]
    BY MergeSpansCover
  <2>2. m[k] \in Span /\ x \in Span
    BY <1>1, <2>1
  <2> HIDE DEF m
  <2>3. Cells(x) \subseteq Cells(m[k])
    BY <2>1, <2>2 DEF Cells, Span
  <2> QED BY <1>1, <1>2, <2>3
<1> QED BY <1>2, <1>3, <1>4

\* locateSecrets covers the cells of what it locates.
LEMMA LocatedCovered ==
    ASSUME TypeOK, req # NoReq, NEW W \in SUBSET Secret
    PROVE  LET cells == Spliced(UNION {Text.at[s] : s \in W})
           IN  cells \subseteq Nat /\ \A s \in W : CellsOf({s}) \subseteq cells
<1> DEFINE S == UNION {Text.at[s] : s \in W}
<1>1. S \subseteq Span
  BY TextFacts
<1>2. IsFiniteSet(S)
  <2> DEFINE f == [s \in W |-> Text.at[s]]
             R == {Text.at[s] : s \in W}
  <2>1. IsFiniteSet(W)
    BY SecretAssumption, FS_Subset
  <2>2. f \in Surjection(W, R)
    BY DEF Surjection
  <2>3. IsFiniteSet(R)
    <3> HIDE DEF f, R
    <3> QED BY <2>1, <2>2, FS_Surjection
  <2>4. \A T \in R : IsFiniteSet(T)
    BY TextFacts
  <2> HIDE DEF R
  <2>5. IsFiniteSet(UNION R)
    BY <2>3, <2>4, FS_UNION
  <2> QED BY <2>5 DEF R
<1>3. Spliced(S) \subseteq Nat /\ \A x \in S : Cells(x) \subseteq Spliced(S)
  <2> HIDE DEF S
  <2> QED BY <1>1, <1>2, SplicedCovers
<1>4. ASSUME NEW s \in W PROVE CellsOf({s}) \subseteq Spliced(S)
  <2>1. \A x \in Text.at[s] : x \in S
    OBVIOUS
  <2>2. CellsOf({s}) = UNION {Cells(x) : x \in Text.at[s]}
    BY CellsFacts
  <2> HIDE DEF S
  <2> QED BY <2>1, <2>2, <1>3
<1> QED BY <1>3, <1>4

\* A secret of the text at hand that is not overlooked is present, if it is there.
LEMMA PresentOrKept ==
    ASSUME TypeOK, req # NoReq, NEW P, NEW s \in Secret \cap P, NEW M
    PROVE  s \in Present(P) \/ Kept(s, M)
<1> SUFFICES ASSUME ~Overlooked(s), ~(CellsOf({s}) \subseteq M) PROVE s \in Present(P)
  BY DEF Kept
<1>1. Text.at[s] # {}
  BY CellsFacts
<1>2. s \notin Text.packed /\ InReach /\ (IsForm => s \notin Text.aside)
  BY Zenon DEF Overlooked
<1>3. \E x \in Text.at[s] : Cells(x) \cap {} = {}
  BY <1>1
<1>4. s \in Found({})
  BY <1>2, <1>3, Zenon DEF Found
<1> QED BY <1>2, <1>4, Zenon DEF Present

\* A located secret is not found again.
LEMMA CoveredNotFound ==
    ASSUME TypeOK, req # NoReq, NEW M, NEW s \in Found(M)
    PROVE  ~(CellsOf({s}) \subseteq M)
<1>1. s \in Secret
  BY DEF Found
<1>2. PICK x \in Text.at[s] : Cells(x) \cap M = {}
  BY DEF Found
<1>3. Cells(x) # {} /\ Cells(x) \subseteq CellsOf({s})
  BY <1>1, CellsFacts
<1> QED BY <1>2, <1>3

\* A step that leaves the request and its mode alone leaves its text alone.
LEMMA SameText ==
    ASSUME UNCHANGED <<req, dlpAction>>
    PROVE  /\ IsForm' <=> IsForm
           /\ \A s : CellsOf({s})' = CellsOf({s})
           /\ \A s : Overlooked(s)' <=> Overlooked(s)
<1>1. Text' = Text
  BY DEF Text
<1>2. IsForm' <=> IsForm
  BY <1>1 DEF IsForm
<1>3. InReach' <=> InReach
  BY <1>1 DEF InReach
<1>4. ASSUME NEW s PROVE CellsOf({s})' = CellsOf({s})
  BY <1>1 DEF CellsOf
<1>5. ASSUME NEW s PROVE Overlooked(s)' <=> Overlooked(s)
  BY <1>1, <1>2, <1>3 DEF Overlooked
<1> QED BY <1>2, <1>4, <1>5

\* A step that leaves the request where it is keeps what is promised of it, while
\* less is held.
LEMMA RequestRests ==
    ASSUME MaskProgress, HeldBackStays, held' \subseteq held,
           UNCHANGED <<pc, req, dlpAction, part, todo, masked, hit, out>>
    PROVE  MaskProgress' /\ HeldBackStays'
<1>1. /\ IsForm' <=> IsForm
      /\ \A s : CellsOf({s})' = CellsOf({s})
      /\ \A s : Overlooked(s)' <=> Overlooked(s)
  BY SameText
<1>2. MaskProgress'
  <2>1. (pc \in Under => req # NoReq)' /\ (pc = "scan" => dlpAction = "block")'
        /\ (pc = "read" => dlpAction \in {"block", "mask"})'
        /\ (pc \in {"policy", "mode", "read"} => masked = {})'
    BY DEF MaskProgress, NoReq
  <2>2. ASSUME pc \in Masking
        PROVE  /\ dlpAction' = "mask"
               /\ IsForm => \A s \in held' \ todo : Kept(s, masked)'
               /\ ~IsForm => todo = {} /\ masked = {}
    BY <1>1, <2>2 DEF MaskProgress, Kept
  <2>3. ASSUME pc = "verify" PROVE \A s \in held' \cap part : Kept(s, hit)'
    BY <1>1, <2>3 DEF MaskProgress, Kept
  <2>4. (pc \in {"locate", "verify"} => /\ IsForm => \E s \in todo : part = {s}
                                        /\ ~IsForm => part = Secret)'
    BY <1>1 DEF MaskProgress
  <2> QED BY <1>1, <2>1, <2>2, <2>3, <2>4 DEF MaskProgress
<1>3. HeldBackStays'
  <2>1. Gone' = Gone
    BY DEF Gone, Leaked, CellsOf, Text
  <2>2. \A s : Unheld(s)' <=> Unheld(s)
    BY DEF Unheld, InReach, IsForm, Text
  <2> QED BY <2>1, <2>2 DEF HeldBackStays
<1> QED BY <1>2, <1>3

\* The settings change: what is held back shrinks to what they still want.
LEMMA ChangeRequestInv ==
    ASSUME RequestInv, Change
    PROVE  RequestInv'
<1>1. UNCHANGED <<conn, pc, req, dlpAction, part, todo, masked, hit, out, tally, requests, trouble>>
  BY DEF Change, redaction
<1>2. held' \subseteq held /\ held' \subseteq HeldBack(policy', mode', enabled')
  BY DEF Change
<1>3. TypeOK'
  <2>1. changes' \in 0..MaxChange
    BY BoundAssumption DEF Change, RequestInv, TypeOK
  <2>2. /\ policy' \in {"allow", "monitor", "allow_with_dlp", "deny"}
        /\ mode' \in {"block", "mask", "bypass"} /\ enabled' \subseteq Secret
    BY DEF Change, RequestInv, TypeOK
  <2> QED BY <1>1, <1>2, <2>1, <2>2 DEF RequestInv, TypeOK
<1>4. HeldNow'
  BY <1>2 DEF HeldNow, HeldBack
<1> QED BY <1>1, <1>2, <1>3, <1>4, RequestRests DEF RequestInv

\* Connections come and go, and a request begins.
LEMMA ConnectionRequestInv ==
    ASSUME RequestInv, Connect \/ Close \/ Send
    PROVE  RequestInv'
<1>1. CASE Connect
  <2>1. /\ UNCHANGED <<policy, mode, enabled, pc, req, dlpAction, part, todo, masked, hit, out, held>>
        /\ conn' \in {"none", "tunnel", "mitm"}
        /\ UNCHANGED <<tally, requests, changes, trouble>>
    BY <1>1 DEF Connect, redaction, settings, bounds
  <2>2. TypeOK' /\ HeldNow'
    BY <2>1 DEF RequestInv, TypeOK, HeldNow
  <2> QED BY <2>1, <2>2, RequestRests DEF RequestInv
<1>2. CASE Close
  <2>1. /\ UNCHANGED <<policy, mode, enabled, req, dlpAction, part, todo, masked, hit, out, held>>
        /\ UNCHANGED <<tally, requests, changes, trouble>>
        /\ conn' = "none" /\ pc' = "idle"
    BY <1>2 DEF Close, redaction, settings, bounds
  <2>2. TypeOK' /\ HeldNow'
    BY <2>1 DEF RequestInv, TypeOK, HeldNow
  <2>3. MaskProgress' /\ HeldBackStays'
    BY <2>1 DEF MaskProgress, HeldBackStays, Under, Masking
  <2> QED BY <2>2, <2>3 DEF RequestInv
<1>3. CASE Send
  <2>1. /\ UNCHANGED <<policy, mode, enabled, conn, tally, changes, trouble>>
        /\ requests < MaxRequest /\ requests' = requests + 1
        /\ held' = HeldBack(policy, mode, enabled)
        /\ dlpAction' = "none" /\ part' = {} /\ todo' = {} /\ masked' = {} /\ hit' = {}
        /\ \/ pc' = "done" /\ out' = "tunnelled"
           \/ pc' = "policy" /\ out' = "none"
    BY <1>3 DEF Send, settings
  <2>2. req' \in [body : Body, quiet : BOOLEAN] /\ req' # NoReq
    <3>1. PICK b \in Body, quiet \in BOOLEAN : req' = [body |-> b, quiet |-> quiet]
      BY <1>3 DEF Send
    <3>2. req' # NoReq
      <4>1. DOMAIN req' = {"body", "quiet"} /\ DOMAIN NoReq = {"none"}
        BY <3>1 DEF NoReq
      <4> QED BY <4>1
    <3> QED BY <3>1, <3>2
  <2>3. held' \subseteq Secret /\ HeldNow'
    BY <2>1 DEF HeldNow, HeldBack, RequestInv, TypeOK
  <2>4. requests' \in 0..MaxRequest
    BY <2>1, BoundAssumption DEF RequestInv, TypeOK
  <2>5. TypeOK'
    BY <2>1, <2>2, <2>3, <2>4 DEF RequestInv, TypeOK, Outcome
  <2>6. MaskProgress'
    BY <2>1, <2>2 DEF MaskProgress, Under, Masking
  <2>7. HeldBackStays'
    BY <2>1 DEF HeldBackStays, Unheld
  <2> QED BY <2>3, <2>5, <2>6, <2>7 DEF RequestInv
<1> QED BY <1>1, <1>2, <1>3

\* What every step of a request leaves alone, and its type.
LEMMA AroundType ==
    ASSUME TypeOK, HeldNow, UNCHANGED around,
           pc' \in Under, out' \in Outcome, dlpAction' \in {"none", "block", "mask", "bypass"},
           part' \subseteq Secret, todo' \subseteq Secret, masked' \subseteq Nat, hit' \subseteq Nat,
           tally' \in Tally, trouble' \in 0..MaxTrouble
    PROVE  TypeOK' /\ HeldNow'
BY DEF TypeOK, HeldNow, around, settings, Under

\* A counter may have any natural number.
LEMMA TallyFields ==
    ASSUME NEW t \in Tally, NEW v \in Nat
    PROVE  /\ t.scans + 1 \in Nat /\ t.blocks + 1 \in Nat /\ t.dbScans + 1 \in Nat
           /\ t.dbBlocks \in Nat /\ t.dbBlocks + 1 \in Nat
           /\ [t EXCEPT !.scans = v] \in Tally /\ [t EXCEPT !.blocks = v] \in Tally
           /\ [t EXCEPT !.dbScans = v] \in Tally /\ [t EXCEPT !.dbBlocks = v] \in Tally
<1>1. /\ t.scans \in Nat /\ t.blocks \in Nat /\ t.dbScans \in Nat /\ t.dbBlocks \in Nat
  BY DEF Tally
<1>2. [t EXCEPT !.scans = v] \in Tally
  BY DEF Tally
<1>3. [t EXCEPT !.blocks = v] \in Tally
  BY DEF Tally
<1>4. [t EXCEPT !.dbScans = v] \in Tally
  BY DEF Tally
<1>5. [t EXCEPT !.dbBlocks = v] \in Tally
  BY DEF Tally
<1> QED BY <1>1, <1>2, <1>3, <1>4, <1>5

\* Counting keeps the counters and the bound.
LEMMA Counts ==
    ASSUME TypeOK
    PROVE  /\ trouble \in 0..MaxTrouble
           /\ tally \in Tally
           /\ Trouble => trouble' \in 0..MaxTrouble
           /\ \A t \in Tally : /\ [t EXCEPT !.scans = @ + 1] \in Tally
                               /\ [t EXCEPT !.blocks = @ + 1] \in Tally
                               /\ [t EXCEPT !.dbScans = @ + 1] \in Tally
           /\ \A t \in Tally, b \in BOOLEAN :
                  Bumped(t, b) => tally' \in Tally /\ trouble' \in 0..MaxTrouble
<1>1. trouble \in 0..MaxTrouble /\ tally \in Tally /\ (Trouble => trouble' \in 0..MaxTrouble)
  BY BoundAssumption DEF TypeOK, Trouble
<1>2. ASSUME NEW t \in Tally
      PROVE  /\ [t EXCEPT !.scans = @ + 1] \in Tally
             /\ [t EXCEPT !.blocks = @ + 1] \in Tally
             /\ [t EXCEPT !.dbScans = @ + 1] \in Tally
  BY TallyFields
<1>3. ASSUME NEW t \in Tally, NEW b \in BOOLEAN, Bumped(t, b)
      PROVE  tally' \in Tally /\ trouble' \in 0..MaxTrouble
  <2> DEFINE c == IF b THEN 1 ELSE 0
             u == [t EXCEPT !.dbScans = t.dbScans + 1]
  <2>1. CASE tally' = [t EXCEPT !.dbScans = @ + 1, !.dbBlocks = @ + c] /\ UNCHANGED trouble
    <3>1. u \in Tally /\ u.dbBlocks = t.dbBlocks
      BY <1>2 DEF Tally
    <3>2. u.dbBlocks + c \in Nat
      <4>1. t.dbBlocks \in Nat
        BY TallyFields
      <4> QED BY <3>1, <4>1
    <3>3. tally' = [u EXCEPT !.dbBlocks = u.dbBlocks + c]
      BY <2>1, <3>1, Zenon
    <3> HIDE DEF c, u
    <3> QED BY <2>1, <3>1, <3>2, <3>3, <1>1, TallyFields
  <2>2. CASE tally' = t /\ Trouble
    BY <2>2, <1>1
  <2> QED BY <1>3, <2>1, <2>2, Zenon DEF Bumped
<1> QED BY <1>1, <1>2, <1>3

\* The judgement of a connection and of the mode.
LEMMA JudgeRequestInv ==
    ASSUME RequestInv, ChecksPolicy \/ ReadsMode
    PROVE  RequestInv'
<1> USE DEF RequestInv
<1>0. Tally = Tally /\ tally \in Tally /\ trouble \in 0..MaxTrouble
  BY Counts
<1>1. CASE ChecksPolicy
  <2>1. /\ pc = "policy" /\ UNCHANGED <<around, dlpAction, part, todo, masked, hit, tally, trouble>>
        /\ \/ policy = "deny" /\ pc' = "done" /\ out' = "denied"
           \/ policy = "allow_with_dlp" /\ pc' = "mode" /\ out' = out
           \/ policy # "allow_with_dlp" /\ pc' = "done" /\ out' = "forwarded"
    <3>1. pc = "policy" /\ UNCHANGED <<around, dlpAction, part, todo, masked, hit, tally, trouble>>
      BY <1>1 DEF ChecksPolicy, redaction
    <3>2. CASE policy = "deny"
      <4>1. Ends("denied")
        BY <1>1, <3>2 DEF ChecksPolicy
      <4> QED BY <3>1, <3>2, <4>1 DEF Ends
    <3>3. CASE policy = "allow_with_dlp"
      <4>1. Goes("mode")
        BY <1>1, <3>3 DEF ChecksPolicy
      <4> QED BY <3>1, <3>3, <4>1 DEF Goes
    <3>4. CASE policy # "deny" /\ policy # "allow_with_dlp"
      <4>1. Ends("forwarded")
        BY <1>1, <3>4 DEF ChecksPolicy
      <4> QED BY <3>1, <3>4, <4>1 DEF Ends
    <3> QED BY <3>2, <3>3, <3>4
  <2>2. TypeOK' /\ HeldNow'
    BY <2>1, <1>0, AroundType DEF TypeOK, Under, Outcome
  <2>3. MaskProgress'
    BY <2>1 DEF MaskProgress, Under, Masking, around, NoReq
  <2>4. HeldBackStays'
    <3>1. CASE policy # "allow_with_dlp"
      <4>1. held' = {}
        BY <2>1, <3>1 DEF HeldNow, HeldBack, around
      <4> QED BY <4>1 DEF HeldBackStays
    <3>2. CASE policy = "allow_with_dlp"
      BY <2>1, <3>2 DEF HeldBackStays
    <3> QED BY <3>1, <3>2
  <2> QED BY <2>2, <2>3, <2>4
<1>2. CASE ReadsMode
  <2>1. /\ pc = "mode" /\ UNCHANGED <<around, part, todo, masked, hit, tally, trouble>>
        /\ dlpAction' = mode
        /\ \/ mode = "bypass" /\ pc' = "done" /\ out' = "forwarded"
           \/ req.quiet /\ pc' = "done" /\ out' = "forwarded"
           \/ mode # "bypass" /\ pc' = "read" /\ out' = out
    <3>1. pc = "mode" /\ UNCHANGED <<around, part, todo, masked, hit, tally, trouble>>
          /\ dlpAction' = mode
      BY <1>2 DEF ReadsMode, redaction
    <3>2. IF mode = "bypass" \/ req.quiet THEN Ends("forwarded") ELSE Goes("read")
      BY <1>2 DEF ReadsMode
    <3>3. CASE mode = "bypass" \/ req.quiet
      BY <3>1, <3>2, <3>3 DEF Ends
    <3>4. CASE ~ (mode = "bypass" \/ req.quiet)
      BY <3>1, <3>2, <3>4 DEF Goes
    <3> QED BY <3>3, <3>4
  <2>2. TypeOK' /\ HeldNow'
    BY <2>1, <1>0, AroundType DEF TypeOK, Under, Outcome
  <2>3. MaskProgress'
    BY <2>1 DEF MaskProgress, Under, Masking, around, NoReq, TypeOK
  <2>4. HeldBackStays'
    <3>1. CASE mode = "bypass"
      <4>1. held' = {}
        BY <2>1, <3>1 DEF HeldNow, HeldBack, around
      <4> QED BY <4>1 DEF HeldBackStays
    <3>2. CASE pc' = "read"
      BY <3>2 DEF HeldBackStays
    <3>3. CASE req.quiet
      <4>1. req'.quiet
        BY <2>1, <3>3 DEF around
      <4> QED BY <4>1 DEF HeldBackStays, Unheld
    <3> QED BY <2>1, <3>1, <3>2, <3>3
  <2> QED BY <2>2, <2>3, <2>4
<1> QED BY <1>1, <1>2

\* What is overlooked is let out with open eyes.
LEMMA OverlookedUnheld ==
    ASSUME UNCHANGED <<req, dlpAction>>, dlpAction = "mask", NEW s, Overlooked(s)
    PROVE  Unheld(s)'
<1>1. Overlooked(s)' /\ dlpAction' = "mask"
  BY SameText
<1> QED BY <1>1 DEF Overlooked, Unheld

\* A body goes out in which the cells M are masked.
LEMMA LetOut ==
    ASSUME UNCHANGED <<req, dlpAction, held>>, dlpAction = "mask",
           NEW M, \A s \in held : Kept(s, M),
           \/ out' = "forwarded" /\ M = {}
           \/ out' = "masked" /\ masked' = M
    PROVE  HeldBackStays'
<1> SUFFICES ASSUME NEW s \in Gone', s \in held PROVE Unheld(s)'
  BY DEF HeldBackStays
<1>1. s \in Leaked(M)'
  BY DEF Gone
<1>2. ~ (CellsOf({s})' \subseteq M)
  BY <1>1 DEF Leaked
<1>3. CellsOf({s})' = CellsOf({s})
  BY SameText
<1>4. Overlooked(s)
  BY <1>2, <1>3 DEF Kept
<1> QED BY <1>4, OverlookedUnheld

\* What is refused does not go out.
LEMMA NothingOut ==
    ASSUME out' \in {"none", "denied", "blocked", "error"} \/ pc' # "done"
    PROVE  HeldBackStays'
BY DEF HeldBackStays, Gone

\* Refusing a request.
LEMMA RefusedSays ==
    ASSUME TypeOK, NEW t \in Tally, Refused(t)
    PROVE  pc' = "done" /\ out' = "blocked" /\ tally' \in Tally
BY Counts DEF Refused, Ends

\* The body is read.
LEMMA ReadsRequestInv ==
    ASSUME RequestInv, Reads
    PROVE  RequestInv'
<1> USE DEF RequestInv
<1> DEFINE holding == {s \in Secret : Holds(s)}
<1>1. /\ pc = "read" /\ UNCHANGED around /\ UNCHANGED <<dlpAction, part, masked, hit>>
      /\ req # NoReq /\ masked = {} /\ req' # NoReq
  BY DEF Reads, MaskProgress, Under, around, NoReq
<1>2. /\ trouble \in 0..MaxTrouble /\ tally \in Tally
      /\ Trouble => trouble' \in 0..MaxTrouble
      /\ [tally EXCEPT !.scans = @ + 1] \in Tally
  BY Counts
<1>3. /\ dlpAction' \in {"none", "block", "mask", "bypass"} /\ part' \subseteq Secret
      /\ masked' \subseteq Nat /\ hit' \subseteq Nat
  BY <1>1 DEF TypeOK
<1>4. ASSUME todo' \subseteq Secret, tally' \in Tally, trouble' \in 0..MaxTrouble,
             \/ pc' = "done" /\ out' \in {"error", "blocked"}
             \/ pc' = "scan" /\ out' = out /\ dlpAction = "block"
      PROVE  RequestInv'
  <2>1. TypeOK' /\ HeldNow'
    BY <1>1, <1>3, <1>4, AroundType DEF TypeOK, Under, Outcome
  <2>2. MaskProgress'
    BY <1>1, <1>4 DEF MaskProgress, Under, Masking
  <2>3. HeldBackStays'
    BY <1>4, NothingOut
  <2> QED BY <2>1, <2>2, <2>3
<1>5. ASSUME dlpAction = "mask", todo' = (IF IsForm THEN holding ELSE {}),
             IF IsForm /\ todo' = {} THEN Ends("forwarded") ELSE Goes("base"),
             UNCHANGED <<tally, trouble>>
      PROVE  RequestInv'
  <2>1. \/ pc' = "base" /\ out' = out
        \/ IsForm /\ holding = {} /\ pc' = "done" /\ out' = "forwarded"
    BY <1>5 DEF Ends, Goes
  <2>2. TypeOK' /\ HeldNow'
    <3>1. holding \subseteq Secret
      OBVIOUS
    <3>2. todo' \subseteq Secret
      BY <1>5, <3>1
    <3> QED BY <1>1, <1>2, <1>3, <1>5, <2>1, <3>2, AroundType DEF TypeOK, Under, Outcome
  <2>3. ASSUME NEW s \in held, IsForm, s \notin holding PROVE Kept(s, {})
    <3>1. s \in Secret /\ Text.at[s] = {}
      BY <2>3 DEF TypeOK, Holds
    <3>2. CellsOf({s}) = {}
      BY <1>1, <3>1, CellsFacts
    <3> QED BY <3>2 DEF Kept
  <2> HIDE DEF holding
  <2>4. /\ IsForm' <=> IsForm
        /\ \A s : CellsOf({s})' = CellsOf({s})
        /\ \A s : Overlooked(s)' <=> Overlooked(s)
    BY <1>1, SameText DEF around
  <2>5. held' = held
    BY <1>1 DEF around
  <2>6. CASE pc' = "base" /\ out' = out
    <3>1. IsForm => \A s \in held' \ todo' : Kept(s, masked)'
      BY <1>1, <1>5, <2>3, <2>4, <2>5 DEF Kept
    <3>2. ~IsForm => todo' = {} /\ masked' = {}
      BY <1>1, <1>5
    <3>3. MaskProgress'
      BY <1>1, <1>5, <2>4, <2>6, <3>1, <3>2 DEF MaskProgress, Under, Masking
    <3>4. HeldBackStays'
      BY <2>6, NothingOut
    <3> QED BY <2>2, <3>3, <3>4
  <2>7. CASE IsForm /\ holding = {} /\ pc' = "done" /\ out' = "forwarded"
    <3>1. MaskProgress'
      BY <1>1, <2>7 DEF MaskProgress, Under, Masking
    <3>2. \A s \in held : Kept(s, {})
      BY <2>3, <2>7
    <3>3. HeldBackStays'
      BY <1>1, <1>5, <2>5, <2>7, <3>2, LetOut DEF around
    <3> QED BY <2>2, <3>1, <3>3
  <2> QED BY <2>1, <2>6, <2>7
<1>6. CASE Trouble /\ Ends("error") /\ UNCHANGED <<todo, tally>>
  BY <1>2, <1>4, <1>6 DEF Ends, TypeOK
<1>7. CASE dlpAction = "block" /\ Goes("scan") /\ UNCHANGED <<todo, tally, trouble>>
  BY <1>2, <1>4, <1>7 DEF Goes, TypeOK
<1>8. CASE Refused([tally EXCEPT !.scans = @ + 1]) /\ UNCHANGED <<todo, trouble>>
  <2>1. pc' = "done" /\ out' = "blocked" /\ tally' \in Tally
    BY <1>2, <1>8, RefusedSays
  <2> QED BY <1>2, <1>4, <1>8, <2>1 DEF TypeOK
<1> QED BY <1>5, <1>6, <1>7, <1>8 DEF Reads

\* In block mode a body in which the scan sees nothing has nothing that is held.
LEMMA UnseenUnheld ==
    ASSUME TypeOK, req # NoReq, dlpAction = "block", UNCHANGED <<req, dlpAction>>,
           NEW s \in enabled, Seen = {}, CellsOf({s}) # {}
    PROVE  Unheld(s)'
<1>1. s \in Secret
  BY DEF TypeOK
<1>2. PICK x \in Text.at[s] : Cells(x) # {}
  BY <1>1, CellsFacts
<1>3. Text' = Text
  BY DEF Text
<1>4. (InReach' <=> InReach) /\ (IsForm' <=> IsForm)
  BY <1>3 DEF InReach, IsForm
<1> SUFFICES ASSUME InReach, Text.encoding # "other", s \notin Text.aside,
                    ~ (s \in Text.packed /\ IsForm)
             PROVE  FALSE
  BY <1>3, <1>4 DEF Unheld
<1>5. s \in Extracted
  BY <1>1 DEF Extracted
<1>6. s \in Found({}) \/ s \in Unpacked
  <2>1. CASE s \in Text.packed
    <3>1. ~IsForm /\ Holds(s)
      BY <2>1, <1>2 DEF Holds
    <3> QED BY <2>1, <3>1 DEF Unpacked
  <2>2. CASE s \notin Text.packed
    <3>1. \E y \in Text.at[s] : Cells(y) \cap {} = {}
      BY <1>2
    <3> QED BY <1>1, <2>2, <3>1, Zenon DEF Found
  <2> QED BY <2>1, <2>2
<1>7. s \in Seen
  BY <1>5, <1>6 DEF Seen
<1> QED BY <1>7

\* The scan of block mode.
LEMMA ScansRequestInv ==
    ASSUME RequestInv, Scans
    PROVE  RequestInv'
<1> USE DEF RequestInv
<1> DEFINE counted == [tally EXCEPT !.scans = @ + 1]
<1>1. /\ pc = "scan" /\ UNCHANGED around /\ UNCHANGED <<dlpAction, part, todo, masked, hit>>
      /\ req # NoReq /\ req' # NoReq /\ dlpAction = "block" /\ UNCHANGED <<req, held>>
  BY DEF Scans, MaskProgress, Under, around, NoReq, redaction
<1>2. \/ Seen # {} /\ Bumped([counted EXCEPT !.blocks = @ + 1], TRUE) /\ Ends("blocked")
      \/ Seen = {} /\ Bumped(counted, FALSE) /\ Ends("forwarded")
      \/ tally' = [counted EXCEPT !.dbScans = @ + 1] /\ Trouble /\ Ends("unscanned")
  BY Zenon DEF Scans
<1>3. counted \in Tally
  BY Counts
<1> HIDE DEF counted
<1>4. tally' \in Tally /\ trouble' \in 0..MaxTrouble
  <2>1. [counted EXCEPT !.blocks = @ + 1] \in Tally /\ [counted EXCEPT !.dbScans = @ + 1] \in Tally
    BY <1>3, Counts
  <2> QED BY <1>2, <1>3, <2>1, Counts
<1>5. /\ pc' = "done" /\ out' \in {"blocked", "forwarded", "unscanned"}
      /\ out' = "forwarded" => Seen = {}
  BY <1>2 DEF Ends
<1>6. TypeOK' /\ HeldNow'
  BY <1>1, <1>4, <1>5, AroundType DEF TypeOK, Under, Outcome
<1>7. MaskProgress'
  BY <1>1, <1>5 DEF MaskProgress, Under, Masking
<1>8. HeldBackStays'
  <2>1. CASE out' = "blocked"
    BY <2>1, NothingOut
  <2>2. CASE out' = "unscanned"
    BY <2>2 DEF HeldBackStays, Unheld
  <2>3. CASE out' = "forwarded"
    <3> SUFFICES ASSUME NEW s \in Gone', s \in held PROVE Unheld(s)'
      BY <1>1 DEF HeldBackStays
    <3>1. CellsOf({s})' # {}
      BY <2>3 DEF Gone, Leaked
    <3>2. CellsOf({s}) # {}
      BY <1>1, <3>1, SameText
    <3>3. s \in enabled
      BY DEF HeldNow, HeldBack
    <3> QED BY <1>1, <1>5, <2>3, <3>2, <3>3, UnseenUnheld
  <2> QED BY <1>5, <2>1, <2>2, <2>3
<1> QED BY <1>6, <1>7, <1>8

\* A text is done with the cells M masked, the part at hand included.
LEMMA FinishesRequestInv ==
    ASSUME RequestInv, pc \in {"locate", "verify"}, UNCHANGED <<around, dlpAction, part>>,
           hit' \subseteq Nat,
           NEW M, M \subseteq Nat, masked \subseteq M, Finishes(M), \A s \in held \cap part : Kept(s, M)
    PROVE  RequestInv'
<1> USE DEF RequestInv
<1>1. /\ req # NoReq /\ req' # NoReq /\ dlpAction = "mask" /\ UNCHANGED <<req, held>>
      /\ masked' = M /\ todo' = todo \ part
  BY DEF MaskProgress, Under, Masking, around, NoReq, Finishes
<1>2. /\ IsForm' <=> IsForm
      /\ \A s : CellsOf({s})' = CellsOf({s})
      /\ \A s : Overlooked(s)' <=> Overlooked(s)
  BY <1>1, SameText
<1>3. \A s \in held \ todo' : Kept(s, M)
  <2> TAKE s \in held \ todo'
  <2>1. CASE s \in part
    BY <2>1
  <2>2. CASE s \notin part
    <3>1. s \in Secret /\ IsForm /\ s \notin todo
      BY <1>1, <2>2 DEF TypeOK, MaskProgress
    <3>2. Kept(s, masked)
      BY <3>1 DEF MaskProgress, Masking
    <3> QED BY <3>2 DEF Kept
  <2> QED BY <2>1, <2>2
<1>4. CASE todo' # {}
  <2>1. pc' = "base" /\ UNCHANGED <<out, tally, trouble>>
    BY <1>4, Zenon DEF Finishes, Goes
  <2>2. TypeOK' /\ HeldNow'
    BY <1>1, <2>1, AroundType DEF TypeOK, Under, Outcome
  <2>3. IsForm
    BY <1>1, <1>4 DEF MaskProgress, Masking
  <2>4. MaskProgress'
    <3>1. IsForm' => \A s \in held' \ todo' : Kept(s, masked)'
      BY <1>1, <1>2, <1>3 DEF Kept
    <3> QED BY <1>1, <1>2, <2>1, <2>3, <3>1 DEF MaskProgress, Under, Masking
  <2>5. HeldBackStays'
    BY <2>1, NothingOut
  <2> QED BY <2>2, <2>4, <2>5
<1>5. CASE todo' = {}
  <2>1. Delivers(M)
    BY <1>5, Zenon DEF Finishes
  <2>2. /\ pc' = "done" /\ tally' \in Tally /\ trouble' \in 0..MaxTrouble
        /\ \/ out' = "forwarded" /\ M = {}
           \/ out' = "masked"
           \/ out' = "blocked"
    <3>1. CASE M = {}
      <4>1. Ends("forwarded") /\ UNCHANGED <<tally, trouble>>
        BY <2>1, <3>1 DEF Delivers
      <4> QED BY <3>1, <4>1, Counts DEF Ends
    <3>2. CASE CompressFails /\ Refused(tally)
      <4>1. Trouble /\ tally \in Tally
        BY <3>2, Counts DEF CompressFails
      <4> QED BY <3>2, <4>1, RefusedSays, Counts
    <3>3. CASE Bumped([tally EXCEPT !.scans = @ + 1], TRUE) /\ Ends("masked")
      <4>1. [tally EXCEPT !.scans = @ + 1] \in Tally
        BY Counts
      <4> QED BY <3>3, <4>1, Counts DEF Ends
    <3> QED BY <2>1, <3>1, <3>2, <3>3, Zenon DEF Delivers
  <2>3. TypeOK' /\ HeldNow'
    <3>1. part' \subseteq Secret /\ todo' \subseteq Secret /\ masked' \subseteq Nat
      BY <1>1 DEF TypeOK
    <3> QED BY <1>1, <2>2, <3>1, AroundType DEF TypeOK, Under, Outcome
  <2>4. MaskProgress'
    BY <1>1, <2>2 DEF MaskProgress, Under, Masking
  <2>5. HeldBackStays'
    <3>1. CASE out' = "blocked"
      BY <3>1, NothingOut
    <3>2. CASE out' # "blocked"
      BY <1>1, <1>3, <1>5, <2>2, <3>2, LetOut
    <3> QED BY <3>1, <3>2
  <2> QED BY <2>3, <2>4, <2>5
<1> QED BY <1>4, <1>5

\* A text that stays blocked ends the request, unless it is a field of a form whose
\* secret is not held, or overlooked.
LEMMA StaysBlockedRequestInv ==
    ASSUME RequestInv, pc \in {"locate", "verify"}, UNCHANGED <<around, dlpAction, part>>,
           hit' \subseteq Nat, StaysBlocked,
           IsForm => \A s \in held \cap part : Kept(s, masked)
    PROVE  RequestInv'
<1> USE DEF RequestInv
<1>1. CASE IsForm
  <2>1. Finishes(masked)
    BY <1>1, Zenon DEF StaysBlocked
  <2>2. masked \subseteq Nat /\ masked \subseteq masked
    BY DEF TypeOK
  <2> QED BY <1>1, <2>1, <2>2, FinishesRequestInv
<1>2. CASE ~IsForm
  <2>1. Refused([tally EXCEPT !.scans = @ + 1]) /\ UNCHANGED <<todo, masked, trouble>>
    BY <1>2, Zenon DEF StaysBlocked
  <2>2. pc' = "done" /\ out' = "blocked" /\ tally' \in Tally
    BY <2>1, Counts, RefusedSays
  <2>3. TypeOK' /\ HeldNow'
    <3>1. trouble' \in 0..MaxTrouble
      BY <2>1, Counts
    <3> QED BY <2>1, <2>2, <3>1, AroundType DEF TypeOK, Under, Outcome
  <2>4. MaskProgress'
    <3>1. req' # NoReq
      BY DEF MaskProgress, Under, around, NoReq
    <3> QED BY <2>2, <3>1 DEF MaskProgress, Under, Masking
  <2>5. HeldBackStays'
    BY <2>2, NothingOut
  <2> QED BY <2>3, <2>4, <2>5
<1> QED BY <1>1, <1>2

\* The first scan of a text.
LEMMA BeginsRequestInv ==
    ASSUME RequestInv, RedactBegins
    PROVE  RequestInv'
<1> USE DEF RequestInv
<1>1. /\ pc = "base" /\ UNCHANGED around /\ UNCHANGED <<dlpAction, todo, masked, tally, trouble>>
      /\ req # NoReq /\ req' # NoReq /\ dlpAction = "mask" /\ UNCHANGED <<req, held>>
  BY DEF RedactBegins, MaskProgress, Under, Masking, around, NoReq
<1>2. /\ IsForm => \E s \in todo : part' = {s}
      /\ ~IsForm => part' = Secret
  BY DEF RedactBegins
<1>3. part' \subseteq Secret
  BY <1>2 DEF TypeOK
<1>4. /\ out' = out /\ pc' \in {"locate", "verify"} /\ hit' \subseteq Nat
      /\ pc' = "verify" => hit' = {} /\ Present(part') \cap enabled = {}
  <2>1. CASE Present(part') \cap enabled = {}
    <3>1. Goes("verify") /\ hit' = {}
      BY <2>1 DEF RedactBegins
    <3> QED BY <2>1, <3>1 DEF Goes
  <2>2. CASE Present(part') \cap enabled # {}
    <3>1. Goes("locate") /\ UNCHANGED hit
      BY <2>2 DEF RedactBegins
    <3> QED BY <3>1 DEF Goes, TypeOK
  <2> QED BY <2>1, <2>2
<1>5. TypeOK' /\ HeldNow'
  <2>1. tally' \in Tally /\ trouble' \in 0..MaxTrouble
    BY <1>1, Counts
  <2> QED BY <1>1, <1>3, <1>4, <2>1, AroundType DEF TypeOK, Under, Outcome
<1>6. /\ IsForm' <=> IsForm
      /\ \A s : CellsOf({s})' = CellsOf({s})
      /\ \A s : Overlooked(s)' <=> Overlooked(s)
  BY <1>1, SameText
<1>7. ASSUME pc' = "verify", NEW s \in held \cap part' PROVE Kept(s, hit)'
  <2>1. s \in Secret \cap part' /\ s \in enabled
    BY <1>3, <1>7 DEF HeldNow, HeldBack
  <2>2. s \notin Present(part')
    BY <1>4, <1>7, <2>1
  <2>3. Kept(s, {})
    BY <1>1, <2>1, <2>2, PresentOrKept
  <2> QED BY <1>4, <1>6, <1>7, <2>3 DEF Kept
<1>8. IsForm' => \A s \in held' \ todo' : Kept(s, masked)'
  BY <1>1, <1>6 DEF Kept, MaskProgress, Masking
<1>9. MaskProgress'
  <2>1. ~IsForm' => todo' = {} /\ masked' = {}
    BY <1>1, <1>6 DEF MaskProgress, Masking
  <2>2. /\ IsForm' => \E s \in todo' : part' = {s}
        /\ ~IsForm' => part' = Secret
    BY <1>1, <1>2, <1>6
  <2>3. pc' = "verify" => \A s \in held' \cap part' : Kept(s, hit)'
    BY <1>1, <1>7
  <2> QED BY <1>1, <1>4, <1>8, <2>1, <2>2, <2>3 DEF MaskProgress, Under, Masking
<1>10. HeldBackStays'
  BY <1>4, NothingOut
<1> QED BY <1>5, <1>9, <1>10

\* Locating, and splicing the tokens in.
LEMMA LocatesRequestInv ==
    ASSUME RequestInv, Locates
    PROVE  RequestInv'
<1> USE DEF RequestInv
<1> DEFINE wanted == Present(part) \cap enabled
           cells == Spliced(UNION {Text.at[s] : s \in wanted})
<1>1. /\ pc = "locate" /\ UNCHANGED around /\ UNCHANGED <<dlpAction, part>>
      /\ req # NoReq /\ req' # NoReq /\ dlpAction = "mask" /\ UNCHANGED <<req, held>>
  BY DEF Locates, MaskProgress, Under, Masking, around, NoReq
<1>2. wanted \in SUBSET Secret
  BY DEF TypeOK
<1>3. ASSUME NEW s \in held \cap part, NEW M PROVE s \in wanted \/ Kept(s, M)
  <2>1. s \in Secret \cap part /\ s \in enabled
    BY <1>3 DEF HeldNow, HeldBack, TypeOK
  <2> QED BY <1>1, <2>1, PresentOrKept
<1>4. CASE StaysBlocked /\ UNCHANGED hit /\ (wanted = {} \/ wanted \cap Text.veiled # {})
  <2>1. ASSUME IsForm, NEW s \in held \cap part PROVE Kept(s, masked)
    <3>1. part = {s}
      BY <1>1, <2>1 DEF MaskProgress
    <3>2. CASE s \in wanted
      <4>1. wanted \subseteq {s}
        BY <3>1 DEF Present
      <4>2. s \in Text.veiled
        BY <1>4, <3>2, <4>1
      <4> QED BY <2>1, <4>2 DEF Kept, Overlooked
    <3>3. CASE s \notin wanted
      BY <1>3, <3>3, <2>1
    <3> QED BY <3>2, <3>3
  <2>2. hit' \subseteq Nat
    BY <1>4 DEF TypeOK
  <2> HIDE DEF wanted
  <2> QED BY <1>1, <1>4, <2>1, <2>2, StaysBlockedRequestInv
<1>5. CASE hit' = cells /\ Goes("verify") /\ UNCHANGED <<todo, masked, tally, trouble>>
  <2>1. cells \subseteq Nat /\ \A s \in wanted : CellsOf({s}) \subseteq cells
    <3> HIDE DEF wanted
    <3> QED BY <1>1, <1>2, LocatedCovered
  <2> HIDE DEF cells, wanted
  <2>2. /\ IsForm' <=> IsForm
        /\ \A s : CellsOf({s})' = CellsOf({s})
        /\ \A s : Overlooked(s)' <=> Overlooked(s)
    BY <1>1, SameText
  <2>3. ASSUME NEW s \in held \cap part PROVE Kept(s, cells)
    BY <1>3, <2>1, <2>3 DEF Kept
  <2>4. pc' = "verify" /\ out' = out
    BY <1>5 DEF Goes
  <2>5. TypeOK' /\ HeldNow'
    <3>1. hit' \subseteq Nat /\ tally' \in Tally /\ trouble' \in 0..MaxTrouble
      BY <1>5, <2>1, Counts
    <3> QED BY <1>1, <1>5, <2>4, <3>1, AroundType DEF TypeOK, Under, Outcome
  <2>6. MaskProgress'
    <3>1. IsForm' => \A s \in held' \ todo' : Kept(s, masked)'
      BY <1>1, <1>5, <2>2 DEF Kept, MaskProgress, Masking
    <3>2. ~IsForm' => todo' = {} /\ masked' = {}
      BY <1>1, <1>5, <2>2 DEF MaskProgress, Masking
    <3>3. /\ IsForm' => \E s \in todo' : part' = {s}
          /\ ~IsForm' => part' = Secret
      BY <1>1, <1>5, <2>2 DEF MaskProgress
    <3>4. \A s \in held' \cap part' : Kept(s, hit)'
      BY <1>1, <1>5, <2>2, <2>3 DEF Kept
    <3> QED BY <1>1, <2>4, <3>1, <3>2, <3>3, <3>4 DEF MaskProgress, Under, Masking
  <2>7. HeldBackStays'
    BY <2>4, NothingOut
  <2> QED BY <2>5, <2>6, <2>7
<1>6. \/ StaysBlocked /\ UNCHANGED hit /\ (wanted = {} \/ wanted \cap Text.veiled # {})
      \/ hit' = cells /\ Goes("verify") /\ UNCHANGED <<todo, masked, tally, trouble>>
  BY Zenon DEF Locates
<1> QED BY <1>4, <1>5, <1>6

\* The scan of the copy.
LEMMA VerifiesRequestInv ==
    ASSUME RequestInv, Verifies
    PROVE  RequestInv'
<1> USE DEF RequestInv
<1>1. /\ pc = "verify" /\ UNCHANGED <<around, dlpAction, part, hit>>
      /\ req # NoReq /\ dlpAction = "mask"
      /\ masked \subseteq Nat /\ hit \subseteq Nat
  BY DEF Verifies, MaskProgress, Under, Masking, TypeOK
<1>2. \A s \in held \cap part : Kept(s, hit)
  BY <1>1 DEF MaskProgress
<1>3. CASE Finishes(masked \cup hit)
  <2>1. \A s \in held \cap part : Kept(s, masked \cup hit)
    BY <1>2 DEF Kept
  <2>2. masked \cup hit \subseteq Nat /\ masked \subseteq masked \cup hit /\ hit' \subseteq Nat
    BY <1>1
  <2> QED BY <1>1, <1>3, <2>1, <2>2, FinishesRequestInv
<1>4. CASE StaysBlocked /\ Found(hit) \cap Present(part) \cap enabled # {}
  <2>1. ASSUME IsForm, NEW s \in held \cap part PROVE Kept(s, masked)
    <3>1. part = {s}
      BY <1>1, <2>1 DEF MaskProgress
    <3>2. s \in Found(hit)
      BY <1>4, <3>1 DEF Present
    <3>3. ~ (CellsOf({s}) \subseteq hit)
      BY <1>1, <3>2, CoveredNotFound
    <3> QED BY <1>2, <2>1, <3>3 DEF Kept
  <2>2. hit' \subseteq Nat
    BY <1>1
  <2> QED BY <1>1, <1>4, <2>1, <2>2, StaysBlockedRequestInv
<1> QED BY <1>3, <1>4, Zenon DEF Verifies

-----------------------------------------------------------------------------
\* The invariant holds of every behaviour.
LEMMA RequestInvariance == Spec => []RequestInv
<1>1. Init => RequestInv
  <2> SUFFICES ASSUME Init PROVE RequestInv
    OBVIOUS
  <2>1. TypeOK
    <3>1. tally \in Tally
      BY DEF Init, Zero, Tally
    <3>2. requests \in 0..MaxRequest /\ changes \in 0..MaxChange /\ trouble \in 0..MaxTrouble
      BY BoundAssumption DEF Init
    <3> QED BY <3>1, <3>2 DEF Init, TypeOK, Outcome
  <2>2. HeldNow /\ HeldBackStays
    BY DEF Init, HeldNow, HeldBackStays
  <2>3. MaskProgress
    BY DEF Init, MaskProgress, Under, Masking
  <2> QED BY <2>1, <2>2, <2>3 DEF RequestInv
<1>2. RequestInv /\ [Next]_vars => RequestInv'
  <2> SUFFICES ASSUME RequestInv, [Next]_vars PROVE RequestInv'
    OBVIOUS
  <2>1. CASE UNCHANGED vars
    <3>1. /\ UNCHANGED <<policy, mode, enabled, conn, tally, requests, changes, trouble, held>>
          /\ UNCHANGED <<pc, req, dlpAction, part, todo, masked, hit, out>>
      BY <2>1 DEF vars, settings, redaction, bounds
    <3>2. TypeOK' /\ HeldNow'
      BY <3>1 DEF RequestInv, TypeOK, HeldNow
    <3> QED BY <3>1, <3>2, RequestRests DEF RequestInv
  <2>2. CASE Next
    BY <2>2, ChangeRequestInv, ConnectionRequestInv, JudgeRequestInv, ReadsRequestInv,
       ScansRequestInv, BeginsRequestInv, LocatesRequestInv, VerifiesRequestInv DEF Next
  <2> QED BY <2>1, <2>2
<1> QED BY <1>1, <1>2, PTL DEF Spec

\* Type correctness of the request path.
THEOREM RequestTypeCorrect == Spec => []TypeOK
<1>1. RequestInv => TypeOK
  BY DEF RequestInv
<1> QED BY <1>1, RequestInvariance, PTL

\* What all the settings wanted back since a request began does not go out with it,
\* whatever the secrets, the bodies and the changes, but for what is let out with
\* open eyes.
THEOREM HeldBackKept == Spec => []HeldBackStays
<1>1. RequestInv => HeldBackStays
  BY DEF RequestInv
<1> QED BY <1>1, RequestInvariance, PTL

-----------------------------------------------------------------------------
(* Correlator.                                                             *)

\* What the map has of a session is its last text.
KeptIsLast == \A s \in Session : sessions[s] # NoSession => sessions[s] = pasted[s]

\* A session that has pasted is missing only because it was too old for a scan, or
\* because enough others have pasted since.
MissingForCause ==
    \A s \in Session :
        pasted[s] # NoSession /\ sessions[s] = NoSession =>
            pasted[s].seen < latest - SessTTL \/ ~ (Cardinality(Rivals(s)) < MaxSess)

CorrInv == CorrTypeOK /\ KeptIsLast /\ MissingForCause /\ SplitSecretSeen

\* The rivals of a session are some of finitely many sessions.
LEMMA RivalsFinite ==
    ASSUME NEW s \in Session
    PROVE  /\ IsFiniteSet(Rivals(s)) /\ Cardinality(Rivals(s)) \in Nat
           /\ IsFiniteSet(Rivals(s)') /\ Cardinality(Rivals(s)') \in Nat
<1>1. Rivals(s) \subseteq Session /\ Rivals(s)' \subseteq Session
  BY DEF Rivals
<1> QED BY <1>1, CorrelatorAssumption, FS_Subset, FS_CardinalityType

\* A fresh correlator.
LEMMA CorrInitInv == CorrInit => CorrInv
<1> SUFFICES ASSUME CorrInit PROVE CorrInv
  OBVIOUS
<1>1. NoSession \in [tail : Nat, seen : 0..MaxClock] /\ clock \in 1..MaxClock /\ latest \in 0..MaxClock
  BY CorrelatorAssumption DEF NoSession, CorrInit
<1>2. CorrTypeOK
  BY <1>1 DEF CorrInit, CorrTypeOK
<1>3. KeptIsLast /\ MissingForCause
  BY DEF CorrInit, KeptIsLast, MissingForCause
<1>4. SplitSecretSeen
  BY DEF CorrInit, SplitSecretSeen, NoPaste
<1> QED BY <1>2, <1>3, <1>4 DEF CorrInv

\* The steps that do not take the lock.
LEMMA OutsideLock ==
    ASSUME CorrInv,
           \/ \E p \in Paster : PasteBegins(p) \/ VerifyBegins(p) \/ PasteScanned(p)
           \/ CorrTick
    PROVE  CorrInv'
<1> USE DEF CorrInv
<1>1. UNCHANGED <<sessions, pasted, since, latest>>
  BY DEF PasteBegins, VerifyBegins, PasteScanned, CorrTick, PasteAsks
<1>2. KeptIsLast'
  BY <1>1 DEF KeptIsLast
<1>3. MissingForCause'
  BY <1>1 DEF MissingForCause, Rivals
<1>4. ASSUME NEW p \in Paster, NEW x \in {NoPaste} \cup Waiting, clock' = clock,
             paste' = [paste EXCEPT ![p] = x]
      PROVE  CorrInv'
  <2>1. CorrTypeOK'
    BY <1>1, <1>4 DEF CorrTypeOK
  <2>2. x.at # "scan"
    BY DEF NoPaste, Waiting
  <2>3. SplitSecretSeen'
    BY <1>4, <2>2 DEF SplitSecretSeen, CorrTypeOK
  <2> QED BY <1>2, <1>3, <2>1, <2>3
<1>5. ASSUME NEW p \in Paster, NEW s \in Session, NEW n \in Nat, PasteAsks(p, s, n)
      PROVE  CorrInv'
  <2>1. [at |-> "lock", session |-> s, copyOf |-> n, now |-> clock] \in Waiting
    BY DEF Waiting, CorrTypeOK
  <2> QED BY <1>4, <1>5, <2>1 DEF PasteAsks
<1>6. ASSUME NEW p \in Paster, PasteBegins(p) PROVE CorrInv'
  <2>1. PICK s \in Session : PasteAsks(p, s, 0)
    BY <1>6 DEF PasteBegins
  <2> QED BY <1>5, <2>1
<1>7. ASSUME NEW p \in Paster, VerifyBegins(p) PROVE CorrInv'
  <2>1. paste[p].at = "scan" /\ PasteAsks(p, paste[p].session, paste[p].number)
    BY <1>7 DEF VerifyBegins
  <2>2. paste[p] \in Combined
    BY <2>1 DEF CorrTypeOK, NoPaste, Waiting
  <2>3. paste[p].session \in Session /\ paste[p].number \in Nat
    BY <2>2 DEF Combined
  <2> QED BY <1>5, <2>1, <2>3
<1>8. ASSUME NEW p \in Paster, PasteScanned(p) PROVE CorrInv'
  BY <1>4, <1>8 DEF PasteScanned
<1>9. CASE CorrTick
  <2>1. UNCHANGED paste /\ clock' \in 1..MaxClock
    BY <1>9, CorrelatorAssumption DEF CorrTick, CorrTypeOK
  <2>2. CorrTypeOK'
    BY <1>1, <2>1 DEF CorrTypeOK
  <2>3. SplitSecretSeen'
    BY <2>1 DEF SplitSecretSeen
  <2> QED BY <1>2, <1>3, <2>2, <2>3
<1> QED BY <1>6, <1>7, <1>8, <1>9

\* Combine, under the lock.
LEMMA CombineKeeps ==
    ASSUME CorrInv, NEW p \in Paster, Combine(p)
    PROVE  CorrInv'
<1> USE DEF CorrInv
<1> DEFINE s == paste[p].session
           now == paste[p].now
           mine == [tail |-> pasted[s].tail + 1, seen |-> now]
           known == s \in Alive(now)
           view == [at |-> "scan", session |-> s, copyOf |-> paste[p].copyOf, number |-> mine.tail,
                    prior |-> IF known THEN sessions[s].tail ELSE 0, due |-> Due(s, now)]
<1>1. paste[p] \in Waiting
  BY DEF Combine, CorrTypeOK, NoPaste, Combined
<1>2. s \in Session /\ now \in 1..MaxClock /\ paste[p].copyOf \in Nat
  BY <1>1 DEF Waiting
<1>3. PICK rest \in (IF known THEN {Alive(now)} ELSE Room(Alive(now))) :
        sessions' = [u \in Session |-> CASE u = s -> mine
                                         [] u # s /\ u \in rest -> sessions[u]
                                         [] OTHER -> NoSession]
  BY DEF Combine
<1>4. /\ paste' = [paste EXCEPT ![p] = view]
      /\ pasted' = [pasted EXCEPT ![s] = mine]
      /\ since' = [u \in Session |-> IF u = s THEN {} ELSE since[u] \cup {s}]
      /\ latest' = Newest(latest, now)
      /\ UNCHANGED clock
  BY DEF Combine
<1>5. /\ pasted[s].tail \in Nat
      /\ \A u \in Session : pasted[u].seen \in Nat /\ sessions[u].seen \in Nat /\ sessions[u].tail \in Nat
  BY <1>2 DEF CorrTypeOK
<1>6. /\ mine \in [tail : Nat, seen : 0..MaxClock] /\ mine # NoSession /\ mine.tail = pasted[s].tail + 1
      /\ latest' \in 0..MaxClock /\ latest' \in Nat /\ latest \in Nat
      /\ latest <= latest' /\ now <= latest' /\ latest' = Newest(latest, now)
  BY <1>2, <1>4, <1>5, CorrelatorAssumption DEF Newest, CorrTypeOK, NoSession
<1>7. IsFiniteSet(Alive(now)) /\ Alive(now) \subseteq Session /\ Cardinality(Alive(now)) \in Nat
  <2>1. Alive(now) \subseteq Session
    BY DEF Alive
  <2> QED BY <2>1, CorrelatorAssumption, FS_Subset, FS_CardinalityType
<1>8. \/ rest = Alive(now)
      \/ /\ ~ known /\ ~ (Cardinality(Alive(now)) < MaxSess)
         /\ \E w \in Oldest(Alive(now)) : rest = Alive(now) \ {w}
  BY <1>3, CorrelatorAssumption DEF Room
<1>9. /\ sessions'[s] = mine /\ pasted'[s] = mine
      /\ \A u \in Session \ {s} : /\ sessions'[u] = IF u \in rest THEN sessions[u] ELSE NoSession
                                  /\ pasted'[u] = pasted[u] /\ since'[u] = since[u] \cup {s}
  BY <1>2, <1>3, <1>4 DEF CorrTypeOK
<1> HIDE DEF mine, known, s, now
<1>10. CorrTypeOK'
  <2>1. NoSession \in [tail : Nat, seen : 0..MaxClock]
    BY CorrelatorAssumption DEF NoSession
  <2>2. sessions' \in [Session -> [tail : Nat, seen : 0..MaxClock]]
    BY <1>3, <1>6, <2>1 DEF CorrTypeOK
  <2>3. pasted' \in [Session -> [tail : Nat, seen : 0..MaxClock]]
    BY <1>4, <1>6 DEF CorrTypeOK
  <2>4. since' \in [Session -> SUBSET Session]
    BY <1>2, <1>4 DEF CorrTypeOK
  <2>5. Due(s, now) \in BOOLEAN
    BY DEF Due
  <2>6. view \in Combined
    BY <1>2, <1>5, <1>6, <2>5 DEF Combined
  <2>7. paste' \in [Paster -> {NoPaste} \cup Waiting \cup Combined]
    BY <1>4, <2>6 DEF CorrTypeOK
  <2> QED BY <1>4, <1>6, <2>2, <2>3, <2>4, <2>7 DEF CorrTypeOK
<1>11. KeptIsLast'
  BY <1>9 DEF KeptIsLast
<1>12. MissingForCause'
  <2> SUFFICES ASSUME NEW u \in Session, pasted'[u] # NoSession, sessions'[u] = NoSession,
                      ~ (pasted'[u].seen < latest' - SessTTL)
               PROVE  ~ (Cardinality(Rivals(u)') < MaxSess)
    BY DEF MissingForCause
  <2>1. u # s /\ pasted'[u] = pasted[u] /\ since'[u] = since[u] \cup {s}
    BY <1>6, <1>9
  <2>2. IsFiniteSet(Rivals(u)) /\ Cardinality(Rivals(u)) \in Nat /\ IsFiniteSet(Rivals(u)')
    BY RivalsFinite
  <2>3. CASE sessions[u] = NoSession
    <3>1. ~ (pasted[u].seen < latest - SessTTL)
      BY <1>5, <1>6, <2>1, CorrelatorAssumption
    <3>2. ~ (Cardinality(Rivals(u)) < MaxSess)
      BY <2>1, <2>3, <3>1 DEF MissingForCause
    <3>3. Rivals(u) \subseteq Rivals(u)'
      BY <1>9, <2>1, <1>2 DEF Rivals
    <3>4. Cardinality(Rivals(u)) <= Cardinality(Rivals(u)')
      BY <2>2, <3>3, FS_Subset
    <3> QED BY <2>2, <3>2, <3>4, RivalsFinite, CorrelatorAssumption
  <2>4. CASE sessions[u] # NoSession /\ u \notin Alive(now)
    <3>1. sessions[u].seen < now - SessTTL
      BY <1>2, <1>5, <2>4, CorrelatorAssumption DEF Alive
    <3>2. sessions[u] = pasted[u]
      BY <2>4 DEF KeptIsLast
    <3> QED BY <1>2, <1>5, <1>6, <2>1, <3>1, <3>2, CorrelatorAssumption
  <2>5. CASE sessions[u] # NoSession /\ u \in Alive(now)
    <3>1. u \notin rest
      BY <1>9, <2>1, <2>5
    <3>2. /\ ~ known /\ ~ (Cardinality(Alive(now)) < MaxSess)
          /\ u \in Oldest(Alive(now))
      BY <1>8, <2>5, <3>1
    <3> DEFINE others == Alive(now) \ {u}
    <3>3. others \cup {s} \subseteq Rivals(u)'
      <4>1. s \in Rivals(u)'
        BY <1>2, <2>1 DEF Rivals
      <4>2. ASSUME NEW v \in others PROVE v \in Rivals(u)'
        <5>1. v \in Session /\ v # u /\ v # s
          BY <1>7, <3>2 DEF known
        <5>2. sessions[v] # NoSession /\ sessions[u].seen <= sessions[v].seen
          BY <3>2 DEF Oldest, Alive
        <5>3. sessions[v] = pasted[v] /\ sessions[u] = pasted[u]
          BY <2>5, <5>1, <5>2 DEF KeptIsLast
        <5>4. pasted'[v] = pasted[v]
          BY <1>9, <5>1
        <5>5. pasted'[v] # NoSession /\ pasted'[v].seen >= pasted'[u].seen
          BY <1>5, <2>1, <5>1, <5>2, <5>3, <5>4
        <5> QED BY <5>1, <5>5 DEF Rivals
      <4> QED BY <4>1, <4>2
    <3>4. IsFiniteSet(others) /\ Cardinality(others) = Cardinality(Alive(now)) - 1
      BY <1>7, <2>5, FS_RemoveElement
    <3>5. s \notin others
      BY <3>2 DEF known
    <3>6. Cardinality(others \cup {s}) = Cardinality(others) + 1
      BY <3>4, <3>5, FS_AddElement
    <3>7. Cardinality(others \cup {s}) <= Cardinality(Rivals(u)')
      BY <2>2, <3>3, FS_Subset
    <3>8. Cardinality(Alive(now)) <= Cardinality(Rivals(u)')
      BY <1>7, <3>4, <3>6, <3>7
    <3> QED BY <1>7, <2>2, <3>2, <3>8, RivalsFinite, CorrelatorAssumption
  <2> QED BY <2>3, <2>4, <2>5
<1>13. SplitSecretSeen'
  <2>1. view.prior \in {0, pasted[s].tail}
    <3>1. known => sessions[s] = pasted[s]
      BY <1>2 DEF known, Alive, KeptIsLast
    <3> QED BY <3>1
  <2>2. ASSUME Due(s, now) PROVE view.prior = pasted[s].tail
    <3>1. /\ pasted[s] # NoSession /\ pasted[s].seen >= latest' - SessTTL
          /\ Cardinality(Rivals(s)) < MaxSess
      BY <2>2, <1>6 DEF Due
    <3>2. sessions[s] # NoSession
      <4>1. ~ (pasted[s].seen < latest - SessTTL)
        BY <1>2, <1>5, <1>6, <3>1, CorrelatorAssumption
      <4> QED BY <1>2, <3>1, <4>1 DEF MissingForCause
    <3>3. sessions[s] = pasted[s]
      BY <1>2, <3>2 DEF KeptIsLast
    <3>4. sessions[s].seen >= now - SessTTL
      BY <1>2, <1>5, <1>6, <3>1, <3>3, CorrelatorAssumption
    <3>5. known
      BY <1>2, <3>2, <3>4 DEF known, Alive
    <3> QED BY <3>3, <3>5
  <2>3. view.number - 1 = pasted[s].tail /\ view.due = Due(s, now)
    BY <1>5, <1>6
  <2> HIDE DEF view
  <2>4. ASSUME NEW q \in Paster, paste'[q].at = "scan"
        PROVE  /\ paste'[q].prior \in {0, paste'[q].number - 1}
               /\ paste'[q].due => paste'[q].prior = paste'[q].number - 1
    <3>1. CASE q = p
      <4>1. paste'[q] = view
        BY <1>4, <3>1 DEF CorrTypeOK
      <4> QED BY <2>1, <2>2, <2>3, <4>1 DEF view
    <3>2. CASE q # p
      <4>1. paste'[q] = paste[q]
        BY <1>4, <3>2 DEF CorrTypeOK
      <4> QED BY <2>4, <4>1 DEF SplitSecretSeen
    <3> QED BY <3>1, <3>2
  <2> QED BY <2>4 DEF SplitSecretSeen
<1> QED BY <1>10, <1>11, <1>12, <1>13

\* Every step keeps the invariant.
LEMMA CorrInvariance == CorrSpec => []CorrInv
<1>1. ASSUME CorrInv, [CorrNext]_corrVars PROVE CorrInv'
  <2>1. CASE UNCHANGED corrVars
    BY <1>1, <2>1 DEF corrVars, CorrInv, CorrTypeOK, KeptIsLast, MissingForCause, Rivals,
                      SplitSecretSeen
  <2>2. CASE \E p \in Paster : Combine(p)
    BY <1>1, <2>2, CombineKeeps
  <2>3. CASE \/ \E p \in Paster : PasteBegins(p) \/ VerifyBegins(p) \/ PasteScanned(p)
             \/ CorrTick
    BY <1>1, <2>3, OutsideLock
  <2> QED BY <1>1, <2>1, <2>2, <2>3 DEF CorrNext
<1> QED BY CorrInitInv, <1>1, PTL DEF CorrSpec

THEOREM CorrTypeCorrect == CorrSpec => []CorrTypeOK
BY CorrInvariance, PTL DEF CorrInv

THEOREM SplitSeen == CorrSpec => []SplitSecretSeen
BY CorrInvariance, PTL DEF CorrInv

-----------------------------------------------------------------------------
(* BlockHistory.                                                           *)

\* While the history is wiped nobody new is let in.
LetIn == {r \in Recorder : recorder[r] = "insert"}
WipedMeansShut ==
    wiped => ~consent /\ LetIn \subseteq stragglers /\ (stragglers = {} => events = 0)

HistoryInv == HistoryTypeOK /\ HistoryBounded /\ WipedMeansShut

\* The set of goroutines between insert and trim has a size.
LEMMA TrimmingFinite ==
    ASSUME HistoryTypeOK
    PROVE  IsFiniteSet(Trimming) /\ Cardinality(Trimming) \in Nat
BY HistoryAssumption, FS_Subset, FS_CardinalityType DEF Trimming

\* The same of the state after a step.
LEMMA TrimmingFiniteNext == IsFiniteSet(Trimming') /\ Cardinality(Trimming') \in Nat
BY HistoryAssumption, FS_Subset, FS_CardinalityType DEF Trimming

\* A fresh table.
LEMMA HistoryInitInv == HistoryInit => HistoryInv
<1> SUFFICES ASSUME HistoryInit PROVE HistoryInv
  OBVIOUS
<1>1. HistoryTypeOK
  <2>1. consent \in BOOLEAN /\ wiped \in BOOLEAN
    BY DEF HistoryInit
  <2>2. recorder \in [Recorder -> {"idle", "insert", "trim"}] /\ stragglers \subseteq Recorder
    BY DEF HistoryInit
  <2>3. eventTrouble \in 0..MaxEventTrouble /\ events \in Nat /\ untrimmed \in Nat
    BY HistoryAssumption DEF HistoryInit
  <2> QED BY <2>1, <2>2, <2>3 DEF HistoryTypeOK
<1>2. HistoryBounded
  BY <1>1, TrimmingFinite, HistoryAssumption DEF HistoryInit, HistoryBounded
<1>3. WipedMeansShut
  BY DEF HistoryInit, WipedMeansShut, LetIn
<1> QED BY <1>1, <1>2, <1>3 DEF HistoryInv

\* Types survive every step.
LEMMA HistoryTypes ==
    ASSUME HistoryTypeOK, HistoryNext
    PROVE  HistoryTypeOK'
<1> USE DEF HistoryTypeOK
<1>1. ASSUME NEW r \in Recorder, AsksConsent(r) \/ Inserts(r) PROVE HistoryTypeOK'
  BY <1>1, HistoryAssumption DEF AsksConsent, Inserts, RecorderGoes, EventTrouble
<1>2. ASSUME NEW r \in Recorder, Trims(r) PROVE HistoryTypeOK'
  BY <1>2, HistoryAssumption DEF Trims, Trimmed, RecorderGoes, EventTrouble
<1>3. CASE Consents \/ Withdraws
  BY <1>3 DEF Consents, Withdraws
<1>5. CASE Clears
  <2>1. wiped' \in BOOLEAN
    <3>1. wiped' = ~consent
      BY <1>5, Zenon DEF Clears
    <3> QED BY <3>1
  <2>2. UNCHANGED <<consent, recorder, eventTrouble>> /\ events' = 0 /\ untrimmed' = 0
    BY <1>5 DEF Clears
  <2>3. stragglers' \subseteq Recorder
    BY <1>5 DEF Clears
  <2> QED BY <2>1, <2>2, <2>3
<1>4. CASE HistoryCrash
  <2>1. untrimmed' \in Nat
    BY <1>4, TrimmingFinite DEF HistoryCrash, Trimming
  <2> QED BY <1>4, <2>1, HistoryAssumption DEF HistoryCrash, EventTrouble
<1> QED BY <1>1, <1>2, <1>3, <1>4, <1>5 DEF HistoryNext

\* The limit survives every step: a goroutine adds a row as it joins those
\* that will trim, and leaves them with a trim or a trim that is recorded.
LEMMA HistoryLimit ==
    ASSUME HistoryTypeOK, HistoryBounded, HistoryNext
    PROVE  HistoryBounded'
<1> USE HistoryAssumption DEF HistoryTypeOK
<1>0. /\ IsFiniteSet(Trimming) /\ Cardinality(Trimming) \in Nat
      /\ Cardinality(Trimming') \in Nat
  BY TrimmingFinite, TrimmingFiniteNext
<1>1. ASSUME NEW r \in Recorder, AsksConsent(r) PROVE HistoryBounded'
  <2>1. Trimming' = Trimming
    BY <1>1 DEF AsksConsent, RecorderGoes, Trimming
  <2> QED BY <1>1, <2>1 DEF AsksConsent, HistoryBounded
<1>2. ASSUME NEW r \in Recorder, Inserts(r) PROVE HistoryBounded'
  <2>1. CASE events' = events + 1 /\ RecorderGoes(r, "trim")
    <3>1. Trimming' = Trimming \cup {r} /\ r \notin Trimming
      BY <1>2, <2>1 DEF Inserts, RecorderGoes, Trimming
    <3>2. Cardinality(Trimming') = Cardinality(Trimming) + 1
      BY <1>0, <3>1, FS_AddElement
    <3> QED BY <1>0, <1>2, <2>1, <3>2 DEF Inserts, HistoryBounded
  <2>2. CASE RecorderGoes(r, "idle") /\ UNCHANGED events
    <3>1. Trimming' = Trimming
      BY <1>2, <2>2 DEF Inserts, RecorderGoes, Trimming
    <3> QED BY <1>2, <2>2, <3>1 DEF Inserts, HistoryBounded
  <2> QED BY <1>2, <2>1, <2>2 DEF Inserts
<1>3. ASSUME NEW r \in Recorder, Trims(r) PROVE HistoryBounded'
  <2>1. CASE events' = Trimmed /\ untrimmed' = 0
    BY <1>0, <2>1 DEF Trimmed, HistoryBounded
  <2>2. CASE untrimmed' = untrimmed + 1 /\ UNCHANGED events
    <3>1. Trimming' = Trimming \ {r} /\ r \in Trimming
      BY <1>3 DEF Trims, RecorderGoes, Trimming
    <3>2. Cardinality(Trimming') = Cardinality(Trimming) - 1
      BY <1>0, <3>1, FS_RemoveElement
    <3> QED BY <1>0, <2>2, <3>2 DEF HistoryBounded
  <2> QED BY <1>3, <2>1, <2>2 DEF Trims
<1>4. CASE Consents \/ Withdraws
  <2>1. Trimming' = Trimming
    BY <1>4 DEF Consents, Withdraws, Trimming
  <2> QED BY <1>4, <2>1 DEF Consents, Withdraws, HistoryBounded
<1>5. CASE Clears
  BY <1>0, <1>5 DEF Clears, HistoryBounded
<1>6. CASE HistoryCrash
  <2>1. untrimmed' = untrimmed + Cardinality(Trimming) /\ events' = events
    BY <1>6 DEF HistoryCrash, Trimming
  <2> QED BY <1>0, <2>1 DEF HistoryBounded
<1> QED BY <1>1, <1>2, <1>3, <1>4, <1>5, <1>6 DEF HistoryNext

\* So does what a wiped history promises.
LEMMA HistoryShut ==
    ASSUME HistoryTypeOK, WipedMeansShut, HistoryNext
    PROVE  WipedMeansShut'
<1> USE DEF HistoryTypeOK, WipedMeansShut, LetIn, RecorderGoes
<1>1. ASSUME NEW r \in Recorder, AsksConsent(r) PROVE WipedMeansShut'
  BY <1>1 DEF AsksConsent
<1>2. ASSUME NEW r \in Recorder, Inserts(r) PROVE WipedMeansShut'
  <2>1. wiped => r \in stragglers
    BY <1>2 DEF Inserts
  <2> QED BY <1>2, <2>1 DEF Inserts
<1>3. ASSUME NEW r \in Recorder, Trims(r) PROVE WipedMeansShut'
  BY <1>3, HistoryAssumption DEF Trims, Trimmed
<1>4. CASE Consents \/ Withdraws \/ Clears \/ HistoryCrash
  BY <1>4 DEF Consents, Withdraws, Clears, HistoryCrash
<1> QED BY <1>1, <1>2, <1>3, <1>4 DEF HistoryNext

\* The invariant holds of every behaviour.
LEMMA HistoryInvariance == HistorySpec => []HistoryInv
<1>1. HistoryInv /\ [HistoryNext]_historyVars => HistoryInv'
  <2> SUFFICES ASSUME HistoryInv, [HistoryNext]_historyVars PROVE HistoryInv'
    OBVIOUS
  <2>1. CASE UNCHANGED historyVars
    <3>1. Trimming' = Trimming /\ LetIn' = LetIn
      BY <2>1 DEF historyVars, Trimming, LetIn
    <3> QED BY <2>1, <3>1 DEF historyVars, HistoryInv, HistoryTypeOK, HistoryBounded, WipedMeansShut
  <2>2. CASE HistoryNext
    BY <2>2, HistoryTypes, HistoryLimit, HistoryShut DEF HistoryInv
  <2> QED BY <2>1, <2>2
<1> QED BY <1>1, HistoryInitInv, PTL DEF HistorySpec

\* Type correctness of the history.
THEOREM HistoryTypeCorrect == HistorySpec => []HistoryTypeOK
<1>1. HistoryInv => HistoryTypeOK
  BY DEF HistoryInv
<1> QED BY <1>1, HistoryInvariance, PTL

\* The table exceeds its limit only by the trims under way and those that
\* failed, for any number of goroutines.
THEOREM HistoryStaysBounded == HistorySpec => []HistoryBounded
<1>1. HistoryInv => HistoryBounded
  BY DEF HistoryInv
<1> QED BY <1>1, HistoryInvariance, PTL

\* A history cleared after the consent was withdrawn stays empty.
THEOREM WithdrawalKept == HistorySpec => []WithdrawalHolds
<1>1. HistoryInv => WithdrawalHolds
  BY DEF HistoryInv, WipedMeansShut, WithdrawalHolds
<1> QED BY <1>1, HistoryInvariance, PTL

-----------------------------------------------------------------------------
(* Canaries.                                                               *)

\* Creates past the check that no later check has seen.
Unseen == {r \in CanaryRequest : canaryAt[r] = "insert"} \ canaryRaced
Counted == canaries \ canaryRaced

\* There is at most one, and there is room for its canary.
RoomForUnseen ==
    /\ \A p, q \in Unseen : p = q
    /\ Unseen # {} => Cardinality(Counted) < MaxCanaries

\* Without a refresh to come the patterns are up to date.
RefreshOwed == \E r \in CanaryRequest : canaryAt[r] \in {"list", "install"}
MirrorOrOwed == ~canaryOverdue /\ ~RefreshOwed => armed = canaries

CanaryInv == CanaryTypeOK /\ LimitHolds /\ RoomForUnseen /\ MirrorOrOwed

\* Any set of canaries has a size, and a smaller set a smaller one.
LEMMA CanariesFinite ==
    ASSUME NEW S \in SUBSET CanaryRequest, NEW T \in SUBSET S
    PROVE  /\ IsFiniteSet(S) /\ Cardinality(S) \in Nat /\ Cardinality(T) \in Nat
           /\ Cardinality(T) <= Cardinality(S)
BY CanaryAssumption, FS_Subset, FS_CardinalityType

\* A fresh table.
LEMMA CanaryInitInv == CanaryInit => CanaryInv
<1> SUFFICES ASSUME CanaryInit PROVE CanaryInv
  OBVIOUS
<1>1. CanaryTypeOK
  <2>1. canaryTrouble \in 0..MaxCanaryTrouble
    BY CanaryAssumption DEF CanaryInit
  <2>2. /\ canaryAt \in [CanaryRequest -> {"new", "insert", "list", "install", "done"}]
        /\ canaryKnown \in [CanaryRequest -> SUBSET CanaryRequest]
    BY DEF CanaryInit
  <2>3. /\ canaries \subseteq CanaryRequest /\ armed \subseteq CanaryRequest
        /\ canaryRaced \subseteq CanaryRequest /\ canaryOverdue \in BOOLEAN
    BY DEF CanaryInit
  <2> QED BY <2>1, <2>2, <2>3 DEF CanaryTypeOK
<1>2. LimitHolds
  <2>1. canaries \ canaryRaced = {}
    BY DEF CanaryInit
  <2> QED BY <2>1, FS_EmptySet, CanaryAssumption DEF LimitHolds
<1>3. RoomForUnseen /\ MirrorOrOwed
  BY DEF CanaryInit, RoomForUnseen, Unseen, MirrorOrOwed
<1> QED BY <1>1, <1>2, <1>3 DEF CanaryInv

\* Types survive every step.
LEMMA CanaryTypes ==
    ASSUME CanaryTypeOK, CanaryNext
    PROVE  CanaryTypeOK'
<1> USE DEF CanaryTypeOK, CanaryGoes
<1>1. ASSUME NEW r \in CanaryRequest, CanaryRefused(r) \/ CreateChecks(r) \/ CreateInserts(r) \/ DeleteRemoves(r)
      PROVE  CanaryTypeOK'
  <2>1. canaryRaced' \subseteq CanaryRequest
    BY <1>1 DEF CanaryRefused, CreateChecks, CreateInserts, DeleteRemoves
  <2>2. canaries' \subseteq CanaryRequest /\ UNCHANGED <<armed, canaryKnown, canaryTrouble, canaryOverdue>>
    BY <1>1 DEF CanaryRefused, CreateChecks, CreateInserts, DeleteRemoves
  <2>3. canaryAt' \in [CanaryRequest -> {"new", "insert", "list", "install", "done"}]
    BY <1>1 DEF CanaryRefused, CreateChecks, CreateInserts, DeleteRemoves
  <2> QED BY <2>1, <2>2, <2>3
<1>2. ASSUME NEW r \in CanaryRequest, RefreshLists(r) \/ RefreshInstalls(r) \/ CanaryFails(r)
      PROVE  CanaryTypeOK'
  <2>1. canaryOverdue' \in BOOLEAN
    <3>1. CASE RefreshLists(r)
      BY <3>1 DEF RefreshLists
    <3>2. CASE RefreshInstalls(r)
      <4>1. canaryOverdue' = (canaryKnown[r] # canaries)
        BY <3>2, Zenon DEF RefreshInstalls
      <4> QED BY <4>1
    <3>3. CASE CanaryFails(r)
      <4>1. canaryOverdue' = (canaryOverdue \/ canaryAt[r] = "list")
        BY <3>3, Zenon DEF CanaryFails
      <4> QED BY <4>1
    <3> QED BY <1>2, <3>1, <3>2, <3>3
  <2>2. canaryTrouble' \in 0..MaxCanaryTrouble
    BY <1>2, CanaryAssumption DEF RefreshLists, RefreshInstalls, CanaryFails, CanaryTrouble
  <2>3. /\ canaries' \subseteq CanaryRequest /\ armed' \subseteq CanaryRequest
        /\ canaryKnown' \in [CanaryRequest -> SUBSET CanaryRequest]
        /\ canaryRaced' \subseteq CanaryRequest
    BY <1>2 DEF RefreshLists, RefreshInstalls, CanaryFails
  <2>4. canaryAt' \in [CanaryRequest -> {"new", "insert", "list", "install", "done"}]
    BY <1>2 DEF RefreshLists, RefreshInstalls, CanaryFails
  <2> QED BY <2>1, <2>2, <2>3, <2>4
<1>3. CASE CanaryRestart
  <2>1. canaryTrouble' \in 0..MaxCanaryTrouble
    BY <1>3, CanaryAssumption DEF CanaryRestart, CanaryTrouble
  <2>2. canaryAt' \in [CanaryRequest -> {"new", "insert", "list", "install", "done"}]
    BY <1>3 DEF CanaryRestart
  <2>3. armed' \subseteq CanaryRequest /\ canaryOverdue' \in BOOLEAN /\ UNCHANGED <<canaries, canaryKnown, canaryRaced>>
    BY <1>3 DEF CanaryRestart
  <2> QED BY <2>1, <2>2, <2>3
<1> QED BY <1>1, <1>2, <1>3 DEF CanaryNext, CanaryStep

\* A step that lets no create past the check and adds no row.
LEMMA LimitUntouched ==
    ASSUME CanaryTypeOK, LimitHolds, RoomForUnseen, canaries' \subseteq canaries,
           UNCHANGED canaryRaced, Unseen' \subseteq Unseen
    PROVE  LimitHolds' /\ RoomForUnseen'
<1>1. Counted \subseteq CanaryRequest /\ Counted' \subseteq Counted
  BY DEF Counted, CanaryTypeOK
<1>2. Cardinality(Counted') <= Cardinality(Counted) /\ Cardinality(Counted) \in Nat /\ Cardinality(Counted') \in Nat
  BY <1>1, CanariesFinite
<1>3. LimitHolds'
  BY <1>2, CanaryAssumption DEF LimitHolds, Counted
<1>4. RoomForUnseen'
  BY <1>2, CanaryAssumption DEF RoomForUnseen
<1> QED BY <1>3, <1>4

\* The limit survives every step.
LEMMA CanaryLimit ==
    ASSUME CanaryTypeOK, LimitHolds, RoomForUnseen, CanaryNext
    PROVE  LimitHolds' /\ RoomForUnseen'
<1> USE DEF CanaryGoes
<1>1. ASSUME NEW r \in CanaryRequest, CreateChecks(r) PROVE LimitHolds' /\ RoomForUnseen'
  <2>1. CASE BelowLimit(canaries)
    <3>1. /\ canaries' = canaries /\ canaryAt' = [canaryAt EXCEPT ![r] = "insert"]
          /\ canaryRaced' = canaryRaced \cup {q \in CanaryRequest : canaryAt[q] = "insert"}
      BY <1>1, <2>1 DEF CreateChecks
    <3>2. Unseen' \subseteq {r}
      BY <3>1 DEF Unseen, CanaryTypeOK
    <3>3. Cardinality(Counted') < MaxCanaries /\ Cardinality(Counted') \in Nat
      <4>1. Counted' \subseteq canaries /\ canaries \subseteq CanaryRequest
        BY <3>1 DEF Counted, CanaryTypeOK
      <4> QED BY <2>1, <4>1, CanariesFinite, CanaryAssumption DEF BelowLimit
    <3>4. RoomForUnseen'
      BY <3>2, <3>3 DEF RoomForUnseen
    <3>5. LimitHolds'
      BY <3>3, CanaryAssumption DEF LimitHolds, Counted
    <3> QED BY <3>4, <3>5
  <2>2. CASE ~BelowLimit(canaries)
    <3>1. UNCHANGED <<canaries, canaryRaced>> /\ canaryAt' = [canaryAt EXCEPT ![r] = "done"]
      BY <1>1, <2>2 DEF CreateChecks
    <3>2. Unseen' \subseteq Unseen
      BY <3>1 DEF Unseen, CanaryTypeOK
    <3> QED BY <3>1, <3>2, LimitUntouched
  <2> QED BY <2>1, <2>2
<1>2. ASSUME NEW r \in CanaryRequest, CreateInserts(r) PROVE LimitHolds' /\ RoomForUnseen'
  <2>1. /\ canaries' = canaries \cup {r} /\ canaryRaced' = canaryRaced
        /\ canaryAt[r] = "insert" /\ canaryAt' = [canaryAt EXCEPT ![r] = "list"]
    BY <1>2 DEF CreateInserts
  <2>2. Counted \subseteq CanaryRequest /\ IsFiniteSet(Counted) /\ Cardinality(Counted) \in Nat
    BY CanariesFinite DEF Counted, CanaryTypeOK
  <2>3. Unseen' = Unseen \ {r}
    BY <2>1 DEF Unseen, CanaryTypeOK
  <2>4. CASE r \in canaryRaced
    <3>1. Counted' = Counted
      BY <2>1, <2>4 DEF Counted
    <3> QED BY <2>3, <3>1, CanaryAssumption DEF LimitHolds, RoomForUnseen, Counted
  <2>5. CASE r \notin canaryRaced
    <3>1. r \in Unseen
      BY <2>1, <2>5 DEF Unseen
    <3>2. Unseen' = {} /\ Cardinality(Counted) < MaxCanaries
      BY <2>3, <3>1 DEF RoomForUnseen
    <3>3. Counted' = Counted \cup {r}
      BY <2>1, <2>5 DEF Counted
    <3>4. Cardinality(Counted') <= MaxCanaries
      <4>1. CASE r \in Counted
        <5>1. Counted' = Counted
          BY <3>3, <4>1
        <5> QED BY <2>2, <3>2, <5>1, CanaryAssumption
      <4>2. CASE r \notin Counted
        <5>1. Cardinality(Counted') = Cardinality(Counted) + 1
          BY <2>2, <3>3, <4>2, FS_AddElement
        <5> QED BY <2>2, <3>2, <5>1, CanaryAssumption
      <4> QED BY <4>1, <4>2
    <3> QED BY <3>2, <3>4 DEF LimitHolds, RoomForUnseen, Counted
  <2> QED BY <2>4, <2>5
<1>3. ASSUME NEW r \in CanaryRequest,
             \/ CanaryRefused(r) \/ DeleteRemoves(r) \/ RefreshLists(r) \/ RefreshInstalls(r)
             \/ CanaryFails(r)
      PROVE  LimitHolds' /\ RoomForUnseen'
  <2>1. canaries' \subseteq canaries /\ canaryRaced' = canaryRaced
    BY <1>3 DEF CanaryRefused, DeleteRemoves, RefreshLists, RefreshInstalls, CanaryFails
  <2>2. Unseen' \subseteq Unseen
    BY <1>3 DEF CanaryRefused, DeleteRemoves, RefreshLists, RefreshInstalls, CanaryFails, Unseen, CanaryTypeOK
  <2> QED BY <2>1, <2>2, LimitUntouched
<1>4. CASE CanaryRestart
  <2>1. Unseen' \subseteq Unseen
    BY <1>4 DEF CanaryRestart, Unseen, CanaryTypeOK
  <2> QED BY <1>4, <2>1, LimitUntouched DEF CanaryRestart
<1> QED BY <1>1, <1>2, <1>3, <1>4 DEF CanaryNext, CanaryStep

\* A change owes a refresh, and a refresh pays or is overdue.
LEMMA CanaryMirror ==
    ASSUME CanaryTypeOK, MirrorOrOwed, CanaryNext
    PROVE  MirrorOrOwed'
<1> USE DEF CanaryTypeOK, CanaryGoes, MirrorOrOwed, RefreshOwed
<1>1. ASSUME NEW r \in CanaryRequest, CanaryRefused(r) \/ CreateChecks(r) PROVE MirrorOrOwed'
  <2>1. UNCHANGED <<canaries, armed, canaryOverdue>>
    BY <1>1 DEF CanaryRefused, CreateChecks
  <2>2. RefreshOwed => RefreshOwed'
    <3>1. canaryAt[r] = "new" /\ \A q \in CanaryRequest : q # r => canaryAt'[q] = canaryAt[q]
      BY <1>1 DEF CanaryRefused, CreateChecks
    <3> QED BY <3>1
  <2> QED BY <2>1, <2>2
<1>2. ASSUME NEW r \in CanaryRequest, CreateInserts(r) \/ DeleteRemoves(r) \/ RefreshLists(r)
      PROVE  MirrorOrOwed'
  <2>1. canaryAt'[r] \in {"list", "install"}
    BY <1>2 DEF CreateInserts, DeleteRemoves, RefreshLists
  <2> QED BY <2>1
<1>3. ASSUME NEW r \in CanaryRequest, RefreshInstalls(r) PROVE MirrorOrOwed'
  BY <1>3 DEF RefreshInstalls
<1>4. ASSUME NEW r \in CanaryRequest, CanaryFails(r) PROVE MirrorOrOwed'
  <2>1. CASE canaryAt[r] = "list"
    BY <1>4, <2>1 DEF CanaryFails
  <2>2. CASE canaryAt[r] = "insert"
    <3>1. UNCHANGED <<canaries, armed>> /\ (canaryOverdue => canaryOverdue')
      BY <1>4 DEF CanaryFails
    <3>2. \A q \in CanaryRequest : q # r => canaryAt'[q] = canaryAt[q]
      BY <1>4 DEF CanaryFails
    <3> QED BY <2>2, <3>1, <3>2
  <2> QED BY <1>4, <2>1, <2>2 DEF CanaryFails
<1>5. CASE CanaryRestart
  BY <1>5 DEF CanaryRestart
<1> QED BY <1>1, <1>2, <1>3, <1>4, <1>5 DEF CanaryNext, CanaryStep

\* The invariant holds of every behaviour.
LEMMA CanaryInvariance == CanarySpec => []CanaryInv
<1>1. CanaryInv /\ [CanaryNext]_canaryVars => CanaryInv'
  <2> SUFFICES ASSUME CanaryInv, [CanaryNext]_canaryVars PROVE CanaryInv'
    OBVIOUS
  <2>1. CASE UNCHANGED canaryVars
    BY <2>1 DEF canaryVars, CanaryInv, CanaryTypeOK, LimitHolds, RoomForUnseen, Unseen, Counted,
       MirrorOrOwed, RefreshOwed
  <2>2. CASE CanaryNext
    BY <2>2, CanaryTypes, CanaryLimit, CanaryMirror DEF CanaryInv
  <2> QED BY <2>1, <2>2
<1> QED BY <1>1, CanaryInitInv, PTL DEF CanarySpec

\* Type correctness of the canaries.
THEOREM CanaryTypeCorrect == CanarySpec => []CanaryTypeOK
<1>1. CanaryInv => CanaryTypeOK
  BY DEF CanaryInv
<1> QED BY <1>1, CanaryInvariance, PTL

\* Only creates that were past the check when another one checked exceed the
\* limit, for any number of requests.
THEOREM LimitKept == CanarySpec => []LimitHolds
<1>1. CanaryInv => LimitHolds
  BY DEF CanaryInv
<1> QED BY <1>1, CanaryInvariance, PTL

\* The pipeline looks for the canaries of the table whenever no request is
\* under way and the refresh that came last was neither late nor failed.
THEOREM TripwiresMirror == CanarySpec => []TripwiresMirrorRows
<1>1. CanaryInv => TripwiresMirrorRows
  <2> SUFFICES ASSUME CanaryInv, \A r \in CanaryRequest : canaryAt[r] \in {"new", "done"}, ~canaryOverdue
               PROVE  armed = canaries
    BY DEF TripwiresMirrorRows
  <2>1. ~RefreshOwed
    BY DEF RefreshOwed
  <2> QED BY <2>1 DEF CanaryInv, MirrorOrOwed
<1> QED BY <1>1, CanaryInvariance, PTL

-----------------------------------------------------------------------------
(* Allowlist.                                                              *)

\* A request that is not overtaken carries the row; without one under way the
\* entry is the row.
EntryFollowsRow ==
    /\ \A r \in AllowRequest : allowAt[r] = "entry" /\ r \notin overtaken => allowNew[r] = row
    /\ allowOn /\ ~allowMixed /\ (\A r \in AllowRequest : allowAt[r] # "entry") => allowed = row

AllowInv == AllowTypeOK /\ EntryFollowsRow

\* Types survive every step.
LEMMA AllowTypes ==
    ASSUME AllowTypeOK, AllowNext
    PROVE  AllowTypeOK'
<1> USE DEF AllowTypeOK
<1>1. ASSUME NEW r \in AllowRequest, NEW grant \in Grant \cup {NoGrant}, WritesRow(r, grant)
      PROVE  AllowTypeOK'
  BY <1>1 DEF WritesRow
<1>2. ASSUME NEW r \in AllowRequest, AddRow(r) \/ RemoveRow(r) PROVE AllowTypeOK'
  <2>1. CASE RemoveRow(r)
    BY <1>1, <2>1 DEF RemoveRow
  <2>2. CASE AddRow(r)
    <3>1. PICK scope \in Scope, ttl \in Lifetime : WritesRow(r, [scope |-> scope, until |-> Until(ttl)])
      BY <2>2 DEF AddRow
    <3>2. Until(ttl) \in Nat
      BY AllowAssumption DEF Until, Forever
    <3>3. [scope |-> scope, until |-> Until(ttl)] \in Grant
      BY <3>2 DEF Grant
    <3> QED BY <1>1, <3>1, <3>3
  <2> QED BY <1>2, <2>1, <2>2
<1>3. ASSUME NEW r \in AllowRequest, WritesEntry(r) PROVE AllowTypeOK'
  <2>1. allowMixed' \in BOOLEAN
    <3>1. allowMixed' = (r \in overtaken)
      BY <1>3, Zenon DEF WritesEntry
    <3> QED BY <3>1
  <2> QED BY <1>3, <2>1 DEF WritesEntry, EntryOf
<1>4. ASSUME NEW r \in AllowRequest, AllowRefused(r) PROVE AllowTypeOK'
  BY <1>4 DEF AllowRefused
<1>5. CASE AllowRestart
  <2>1. allowTrouble' \in 0..MaxAllowTrouble
    BY <1>5, AllowAssumption DEF AllowRestart, AllowTrouble
  <2>2. allowAt' \in [AllowRequest -> {"new", "entry", "done"}]
    BY <1>5 DEF AllowRestart
  <2>3. /\ allowOn' \in BOOLEAN /\ allowMixed' \in BOOLEAN /\ allowed' \in Grant \cup {NoGrant}
        /\ UNCHANGED <<row, allowNow, allowNew, overtaken>>
    BY <1>5 DEF AllowRestart
  <2> QED BY <2>1, <2>2, <2>3
<1>6. CASE AllowTick
  BY <1>6, AllowAssumption DEF AllowTick
<1> QED BY <1>2, <1>3, <1>4, <1>5, <1>6 DEF AllowNext, AllowStep

\* A request overtakes all others as it writes the row, and writes the entry
\* after it.
LEMMA AllowFollows ==
    ASSUME AllowTypeOK, EntryFollowsRow, AllowNext
    PROVE  EntryFollowsRow'
<1> USE DEF AllowTypeOK
<1>1. ASSUME NEW r \in AllowRequest, NEW grant, WritesRow(r, grant) PROVE EntryFollowsRow'
  <2>1. ASSUME NEW q \in AllowRequest, allowAt'[q] = "entry", q \notin overtaken'
        PROVE  allowNew'[q] = row'
    <3>1. q = r
      BY <1>1, <2>1 DEF WritesRow
    <3> QED BY <1>1, <3>1 DEF WritesRow
  <2>2. allowAt'[r] = "entry"
    BY <1>1 DEF WritesRow
  <2> QED BY <2>1, <2>2 DEF EntryFollowsRow
<1>2. ASSUME NEW r \in AllowRequest, AddRow(r) \/ RemoveRow(r) PROVE EntryFollowsRow'
  BY <1>1, <1>2 DEF AddRow, RemoveRow
<1>3. ASSUME NEW r \in AllowRequest, WritesEntry(r) PROVE EntryFollowsRow'
  <2>1. \A q \in AllowRequest : allowAt'[q] = "entry" => allowAt[q] = "entry"
    BY <1>3 DEF WritesEntry
  <2>2. r \notin overtaken => allowed' = row
    BY <1>3 DEF WritesEntry, EntryOf, EntryFollowsRow
  <2>3. allowMixed' <=> r \in overtaken
    BY <1>3 DEF WritesEntry
  <2>4. UNCHANGED <<row, allowNew, overtaken>>
    BY <1>3 DEF WritesEntry
  <2> QED BY <2>1, <2>2, <2>3, <2>4 DEF EntryFollowsRow
<1>4. ASSUME NEW r \in AllowRequest, AllowRefused(r) PROVE EntryFollowsRow'
  <2>1. \A q \in AllowRequest : allowAt'[q] = "entry" <=> allowAt[q] = "entry"
    BY <1>4 DEF AllowRefused
  <2> QED BY <1>4, <2>1 DEF AllowRefused, EntryFollowsRow
<1>5. CASE AllowRestart
  BY <1>5 DEF AllowRestart, EntryFollowsRow
<1>6. CASE AllowTick
  BY <1>6 DEF AllowTick, EntryFollowsRow
<1> QED BY <1>2, <1>3, <1>4, <1>5, <1>6 DEF AllowNext, AllowStep

\* The invariant holds of every behaviour.
LEMMA AllowInvariance == AllowSpec => []AllowInv
<1>1. AllowInit => AllowInv
  <2> SUFFICES ASSUME AllowInit PROVE AllowInv
    OBVIOUS
  <2>1. allowTrouble \in 0..MaxAllowTrouble /\ allowNow \in 1..MaxNow
    BY AllowAssumption DEF AllowInit
  <2>2. /\ allowAt \in [AllowRequest -> {"new", "entry", "done"}]
        /\ allowNew \in [AllowRequest -> Grant \cup {NoGrant}]
    BY DEF AllowInit
  <2>3. /\ row \in Grant \cup {NoGrant} /\ allowed \in Grant \cup {NoGrant}
        /\ overtaken \subseteq AllowRequest
    BY DEF AllowInit
  <2>4. allowOn \in BOOLEAN /\ allowMixed \in BOOLEAN
    BY DEF AllowInit
  <2>5. EntryFollowsRow
    BY DEF AllowInit, EntryFollowsRow
  <2> QED BY <2>1, <2>2, <2>3, <2>4, <2>5 DEF AllowInv, AllowTypeOK
<1>2. AllowInv /\ [AllowNext]_allowVars => AllowInv'
  <2> SUFFICES ASSUME AllowInv, [AllowNext]_allowVars PROVE AllowInv'
    OBVIOUS
  <2>1. CASE UNCHANGED allowVars
    BY <2>1 DEF allowVars, AllowInv, AllowTypeOK, EntryFollowsRow
  <2>2. CASE AllowNext
    BY <2>2, AllowTypes, AllowFollows DEF AllowInv
  <2> QED BY <2>1, <2>2
<1> QED BY <1>1, <1>2, PTL DEF AllowSpec

\* Type correctness of the allowlist.
THEOREM AllowTypeCorrect == AllowSpec => []AllowTypeOK
<1>1. AllowInv => AllowTypeOK
  BY DEF AllowInv
<1> QED BY <1>1, AllowInvariance, PTL

\* Scans follow the table whenever no request is under way and the entry was
\* written by the request that wrote the row last.
THEOREM AllowedAsStored == AllowSpec => []AllowsAsStored
<1>1. AllowInv => AllowsAsStored
  BY DEF AllowInv, EntryFollowsRow, AllowsAsStored
<1> QED BY <1>1, AllowInvariance, PTL

-----------------------------------------------------------------------------
(* Matching: the prefix scan                                               *)

\* The search takes an occurrence unless it starts inside of one it took.
Greedy(t, p, E, n) ==
    /\ E \subseteq t.occurs[p]
    /\ \A q \in E : q + Pattern[p].prefix <= n
    /\ \A o \in t.occurs[p] : o < n =>
        (o \in E <=> \A q \in E : q < o => q + Pattern[p].prefix <= o)

AllTaken(t, p, E) ==
    /\ E \subseteq t.occurs[p]
    /\ \A o \in t.occurs[p] : o \in E <=> \A q \in E : q < o => q + Pattern[p].prefix <= o

LEMMA RuleFacts ==
    ASSUME NEW p \in Rule
    PROVE  /\ Pattern[p].prefix \in Nat
           /\ Pattern[p].minMatches \in Nat
           /\ Pattern[p].hotwordWindow \in Nat
           /\ Pattern[p].weight \in Int
           /\ Pattern[p].hotwordBoost \in Int
           /\ \A k \in DOMAIN Pattern[p].bias : Pattern[p].bias[k] \in Int
<1>1. IsRule(Pattern[p])
  BY MatchAssumption
<1> QED BY <1>1 DEF IsRule

LEMMA ContentFacts ==
    ASSUME NEW t \in Content, NEW p \in Rule
    PROVE  /\ t.size \in Nat
           /\ t.occurs[p] \subseteq Nat
           /\ t.hits[p] \subseteq Hit
           /\ IsFiniteSet(t.hits[p])
<1>1. IsText(t)
  BY MatchAssumption
<1> QED BY <1>1 DEF IsText

\* There is one such selection of the occurrences.
LEMMA OneSelection ==
    ASSUME NEW t \in Content, NEW p \in Rule, NEW E, NEW F,
           AllTaken(t, p, E), AllTaken(t, p, F)
    PROVE  E = F
<1> DEFINE D == (E \ F) \cup (F \ E)
<1> SUFFICES ASSUME E # F PROVE FALSE
  OBVIOUS
<1>1. D # {} /\ D \subseteq Nat /\ E \subseteq Nat /\ F \subseteq Nat
  BY ContentFacts DEF AllTaken
<1>2. PICK o \in D : \A x \in D : o <= x
  BY <1>1, LeastNatural
<1>3. \A q \in Nat : q < o => (q \in E <=> q \in F)
  <2> SUFFICES ASSUME NEW q \in Nat, q < o PROVE q \in E <=> q \in F
    OBVIOUS
  <2>1. ~ (o <= q)
    BY <1>1
  <2> QED BY <2>1, <1>2
<1>4. o \in t.occurs[p]
  BY DEF AllTaken
<1>5. (\A q \in E : q < o => q + Pattern[p].prefix <= o)
        <=> (\A q \in F : q < o => q + Pattern[p].prefix <= o)
  BY <1>1, <1>3
<1>6. o \in E <=> o \in F
  BY <1>4, <1>5 DEF AllTaken
<1> QED BY <1>2, <1>6

\* Where the candidates of p are.
Starts(t, p) == IF Pattern[p].prefix = 0 THEN {0} ELSE CHOOSE E : AllTaken(t, p, E)

LEMMA StartsAre ==
    ASSUME NEW t \in Content, NEW p \in Rule, NEW E, AllTaken(t, p, E), Pattern[p].prefix # 0
    PROVE  Starts(t, p) = E
<1>1. AllTaken(t, p, CHOOSE F : AllTaken(t, p, F))
  OBVIOUS
<1> QED BY <1>1, OneSelection DEF Starts

\* Each occurrence starts at or inside of a selected one.
LEMMA SelectionCovers ==
    ASSUME NEW t \in Content, NEW p \in Rule, NEW E, AllTaken(t, p, E), NEW o \in t.occurs[p],
           Pattern[p].prefix # 0
    PROVE  \E q \in E : q <= o /\ o < q + Pattern[p].prefix
<1>1. o \in Nat /\ E \subseteq Nat /\ Pattern[p].prefix \in Nat
  BY ContentFacts, RuleFacts DEF AllTaken
<1>2. CASE o \in E
  BY <1>1, <1>2
<1>3. CASE o \notin E
  <2>1. PICK q \in E : q < o /\ ~ (q + Pattern[p].prefix <= o)
    BY <1>3 DEF AllTaken
  <2>2. q \in Nat
    BY <1>1
  <2> QED BY <2>1, <2>2, <1>1
<1> QED BY <1>2, <1>3

CandidateAt(o, p) == [at |-> o, rule |-> p]
Taken(C, p) == {o \in Nat : CandidateAt(o, p) \in C}

\* What p's regular expression finds at its candidates.
AllFound(t, p) == {h \in t.hits[p] : \E o \in Starts(t, p) : h \in Finds(t, CandidateAt(o, p))}

LEMMA FoundAtIs ==
    ASSUME NEW t \in Content, NEW p \in Rule, NEW C, C \subseteq [at : Nat, rule : Rule]
    PROVE  FoundAt(t, C, p) = {h \in t.hits[p] : \E o \in Taken(C, p) : h \in Finds(t, CandidateAt(o, p))}
<1>1. ASSUME NEW h, h \in FoundAt(t, C, p)
      PROVE  h \in t.hits[p] /\ \E o \in Taken(C, p) : h \in Finds(t, CandidateAt(o, p))
  <2>1. PICK c \in {d \in C : d.rule = p} : h \in Finds(t, c)
    BY <1>1 DEF FoundAt
  <2>2. c \in [at : Nat, rule : Rule] /\ c.rule = p
    BY <2>1
  <2>3. c = CandidateAt(c.at, p) /\ c.at \in Nat
    BY <2>2 DEF CandidateAt
  <2>4. c.at \in Taken(C, p)
    BY <2>1, <2>3 DEF Taken
  <2>5. h \in t.hits[p]
    BY <2>1, <2>2 DEF Finds
  <2> QED BY <2>1, <2>3, <2>4, <2>5
<1>2. ASSUME NEW h \in t.hits[p], NEW o \in Taken(C, p), h \in Finds(t, CandidateAt(o, p))
      PROVE  h \in FoundAt(t, C, p)
  <2>1. CandidateAt(o, p) \in {d \in C : d.rule = p}
    BY DEF Taken, CandidateAt
  <2> QED BY <2>1, <1>2 DEF FoundAt
<1> QED BY <1>1, <1>2

\* Nothing reachable is missed.
LEMMA ReachableFound ==
    ASSUME NEW t \in Content, NEW p \in Rule, NEW h \in t.hits[p], Reachable(t, p, h),
           Pattern[p].prefix # 0 => AllTaken(t, p, Starts(t, p))
    PROVE  h \in AllFound(t, p)
<1> DEFINE len == Pattern[p].prefix
<1>1. /\ len \in Nat /\ t.size \in Nat /\ Window \in Nat /\ t.occurs[p] \subseteq Nat
      /\ h.at[1] \in Nat /\ h.at[2] \in Nat
  <2>1. h \in Hit
    BY ContentFacts
  <2>2. h.at \in Nat \X Nat
    BY <2>1 DEF Hit, Extent
  <2> QED BY <2>2, ContentFacts, RuleFacts, MatchAssumption
<1>2. \A o : CandidateAt(o, p).rule = p /\ CandidateAt(o, p).at = o
  BY DEF CandidateAt
<1>3. CASE len = 0
  <2>1. 0 \in Starts(t, p)
    BY <1>3 DEF Starts
  <2>2. h \in Finds(t, CandidateAt(0, p))
    BY <1>2, <1>3 DEF Finds
  <2> QED BY <2>1, <2>2 DEF AllFound
<1>4. CASE len # 0 /\ t.size <= 2 * Window
  <2>1. PICK o \in t.occurs[p] : TRUE
    BY <1>4 DEF Reachable
  <2>2. PICK q \in Starts(t, p) : q <= o
    BY <1>4, <2>1, SelectionCovers
  <2>3. h \in Finds(t, CandidateAt(q, p))
    BY <1>2, <1>4 DEF Finds
  <2> QED BY <2>3 DEF AllFound
<1>5. CASE len # 0 /\ ~ (t.size <= 2 * Window)
  <2>1. PICK o \in t.occurs[p] : o - Window <= h.at[1] /\ h.at[2] <= o + Window - len + 1
    BY <1>5 DEF Reachable
  <2>2. PICK q \in Starts(t, p) : q <= o /\ o < q + len
    BY <1>5, <2>1, SelectionCovers
  <2>3. q \in Nat /\ o \in Nat
    BY <1>1, <1>5, <2>2 DEF AllTaken
  <2>4. q - Window <= h.at[1]
    BY <2>1, <2>2, <2>3, <1>1
  <2>5. h.at[2] <= q + Window
    BY <2>1, <2>2, <2>3, <1>1
  <2>6. h \in Finds(t, CandidateAt(q, p))
    BY <1>2, <2>4, <2>5 DEF Finds
  <2> QED BY <2>6 DEF AllFound
<1> QED BY <1>3, <1>4, <1>5

-----------------------------------------------------------------------------
(* Matching: leniency                                                      *)

\* A scan with the settings s blocks the text.
Verdict(s, t, src) ==
    \E p \in Rule : Admits(s, t, p) /\ Blocks(s, t, src, p, AllFound(t, p))

LEMMA SettingsFacts ==
    ASSUME NEW s \in Settings
    PROVE  /\ s.rules \subseteq Rule /\ s.exclusions \subseteq Exclusion
           /\ s.large \in Nat /\ s.weights \in Signals /\ IsWeights(s.weights)
           /\ s.bars \in [Severity -> Int]
<1>1. s.large \in LargeFrom /\ s.weights \in Signals /\ s.bars \in Bars
      /\ s.rules \subseteq Rule /\ s.exclusions \subseteq Exclusion
  BY DEF Settings
<1> QED BY <1>1, MatchAssumption

\* A match has a score, and all but its penalty are the same for settings
\* with the same weights.
Evidence(w, t, p, h, n) ==
    Base(p) + (IF HotwordNear(t, p, h) THEN HotwordScore(w, p) ELSE 0)
            + EntropyScore(w, p, h) + RepeatScore(w, n)

LEMMA EvidenceType ==
    ASSUME NEW w, IsWeights(w), NEW t, NEW p \in Rule, NEW h, NEW n \in Nat
    PROVE  Evidence(w, t, p, h, n) \in Int
<1>1. /\ w.hotwordBoost \in Int /\ w.entropyBoost \in Int /\ w.entropyPenalty \in Int
      /\ w.multiMatchBoost \in Int
  BY DEF IsWeights
<1>2. Base(p) \in Int /\ HotwordScore(w, p) \in Int
  BY <1>1, RuleFacts DEF Base, HotwordScore
<1>3. EntropyScore(w, p, h) \in Int
  BY <1>1 DEF EntropyScore
<1>4. RepeatScore(w, n) \in Int
  BY <1>1 DEF RepeatScore, multiMatchCap
<1> QED BY <1>2, <1>3, <1>4 DEF Evidence

LEMMA ScoreIs ==
    ASSUME NEW s, NEW t, NEW p, NEW h, NEW n
    PROVE  Score(s, t, p, h, n)
             = Evidence(s.weights, t, p, h, n)
                 + (IF Penalised(s, t, p, h) THEN s.weights.exclusionPenalty ELSE 0)
BY DEF Score, Evidence

LEMMA BiasType ==
    ASSUME NEW p \in Rule, NEW src
    PROVE  Bias(p, src) \in Int
<1>1. CASE src.kind \in DOMAIN Pattern[p].bias
  <2>1. Pattern[p].bias[src.kind] \in Int
    BY <1>1, RuleFacts
  <2>2. DestinationDelta(p, src.kind) \in {0, Pattern[p].bias[src.kind]}
    BY <1>1, Zenon DEF DestinationDelta
  <2> QED BY <2>1, <2>2 DEF Bias
<1>2. CASE src.kind \notin DOMAIN Pattern[p].bias
  BY <1>2 DEF Bias, DestinationDelta
<1> QED BY <1>1, <1>2

LEMMA BarIs ==
    ASSUME NEW s \in Settings, NEW u \in Settings, Lenient(s, u), NEW p
    PROVE  Bar(s, p) \in Int /\ Bar(u, p) \in Int /\ Bar(u, p) <= Bar(s, p)
<1> DEFINE l == IF Pattern[p].severity \in Severity THEN Pattern[p].severity ELSE "low"
<1>1. l \in Severity
  BY DEF Severity
<1>2. Bar(s, p) = s.bars[l] /\ Bar(u, p) = u.bars[l]
  BY DEF Bar
<1>3. s.bars[l] \in Int /\ u.bars[l] \in Int /\ s.bars[l] >= u.bars[l]
  BY <1>1, SettingsFacts DEF Lenient
<1> QED BY <1>2, <1>3

\* Under the more lenient settings a match scores no more, is counted only if
\* it was, and is dropped if it was.
LEMMA LenientScore ==
    ASSUME NEW s \in Settings, NEW u \in Settings, Lenient(s, u),
           NEW t, NEW p \in Rule, NEW h, NEW n \in Nat
    PROVE  /\ Score(s, t, p, h, n) \in Int /\ Score(u, t, p, h, n) \in Int
           /\ Score(s, t, p, h, n) <= Score(u, t, p, h, n)
<1> DEFINE x == u.weights.exclusionPenalty
           e == Evidence(u.weights, t, p, h, n)
<1>1. s.weights = u.weights /\ IsWeights(u.weights)
  BY SettingsFacts DEF Lenient
<1>2. x \in Int /\ e \in Int
  BY <1>1, EvidenceType DEF IsWeights
<1>3. /\ Score(s, t, p, h, n) = e + (IF Penalised(s, t, p, h) THEN x ELSE 0)
      /\ Score(u, t, p, h, n) = e + (IF Penalised(u, t, p, h) THEN x ELSE 0)
  BY <1>1, ScoreIs
<1>4. CASE x <= 0
  <2>1. u.exclusions \subseteq s.exclusions
    BY <1>4 DEF Lenient
  <2>2. Penalised(u, t, p, h) => Penalised(s, t, p, h)
    BY <2>1 DEF Penalised, Concerned
  <2> HIDE DEF x, e
  <2> QED BY <2>2, <1>2, <1>3, <1>4
<1>5. CASE ~ (x <= 0)
  <2>1. u.exclusions = s.exclusions
    BY <1>5 DEF Lenient
  <2>2. Penalised(u, t, p, h) <=> Penalised(s, t, p, h)
    BY <2>1 DEF Penalised, Concerned
  <2> HIDE DEF x, e
  <2> QED BY <2>2, <1>2, <1>3
<1> QED BY <1>4, <1>5

LEMMA LenientCounted ==
    ASSUME NEW s \in Settings, NEW u \in Settings, Lenient(s, u), NEW p, NEW M
    PROVE  Eligible(s, p, M) \subseteq Eligible(u, p, M)
<1>1. u.exclusions \subseteq s.exclusions /\ u.blessed \subseteq s.blessed
  BY DEF Lenient
<1>2. \A h : Suppressed(u, p, h) => Suppressed(s, p, h)
  BY <1>1 DEF Suppressed, Concerned
<1> QED BY <1>1, <1>2 DEF Eligible

LEMMA LenientAdmits ==
    ASSUME NEW s \in Settings, NEW u \in Settings, Lenient(s, u), NEW t \in Content,
           NEW p \in Rule, Admits(s, t, p)
    PROVE  Admits(u, t, p)
<1>1. t.size \in Nat /\ s.large \in Nat /\ u.large \in Nat
  BY ContentFacts, SettingsFacts
<1>2. s.rules \subseteq u.rules /\ u.off \subseteq s.off /\ s.large <= u.large
  BY DEF Lenient
<1> QED BY <1>1, <1>2 DEF Admits

LEMMA FoundCount ==
    ASSUME NEW t \in Content, NEW p \in Rule
    PROVE  Cardinality(AllFound(t, p)) \in Nat
<1>1. IsFiniteSet(AllFound(t, p))
  BY ContentFacts, FS_Subset DEF AllFound
<1> QED BY <1>1, FS_CardinalityType

\* What the more lenient settings block the others do.
LEMMA LenientVerdict ==
    ASSUME NEW s \in Settings, NEW u \in Settings, Lenient(s, u), NEW t \in Content, NEW src,
           Verdict(s, t, src)
    PROVE  Verdict(u, t, src)
<1>1. PICK p \in Rule : Admits(s, t, p) /\ Blocks(s, t, src, p, AllFound(t, p))
  BY DEF Verdict
<1> DEFINE M == AllFound(t, p)
           n == Cardinality(M)
<1>2. Admits(u, t, p)
  BY <1>1, LenientAdmits
<1>3. Eligible(s, p, M) \subseteq Eligible(u, p, M)
  BY LenientCounted
<1>4. n \in Nat
  BY FoundCount
<1>5. Reaches(u, t, src, p, M)
  <2>1. PICK h \in Eligible(s, p, M) : Score(s, t, p, h, n) + Bias(p, src) >= Bar(s, p)
    BY <1>1 DEF Blocks, Reaches
  <2>2. /\ Score(s, t, p, h, n) \in Int /\ Score(u, t, p, h, n) \in Int
        /\ Score(s, t, p, h, n) <= Score(u, t, p, h, n)
    <3> HIDE DEF n
    <3> QED BY <1>4, LenientScore
  <2>3. Bias(p, src) \in Int /\ Bar(s, p) \in Int /\ Bar(u, p) \in Int /\ Bar(u, p) <= Bar(s, p)
    BY BiasType, BarIs
  <2>4. Score(u, t, p, h, n) + Bias(p, src) >= Bar(u, p)
    <3> HIDE DEF n
    <3> QED BY <2>1, <2>2, <2>3
  <2> QED BY <2>4, <1>3 DEF Reaches
<1>6. Blocks(u, t, src, p, M)
  <2>1. Cardinality(M) >= Pattern[p].minMatches
    BY <1>1 DEF Blocks
  <2>2. Pattern[p].requireHotword => \E h \in Eligible(u, p, M) : HotwordNear(t, p, h)
    BY <1>1, <1>3 DEF Blocks
  <2> HIDE DEF M
  <2> QED BY <2>1, <2>2, <1>5 DEF Blocks
<1> QED BY <1>2, <1>6 DEF Verdict

-----------------------------------------------------------------------------
(* Matching: the invariant                                                 *)

SweepInv ==
    phase = "sweep" =>
        \A p \in Rule : IF p \in Prefixed THEN Greedy(text, p, Taken(candidates, p), from[p])
                                          ELSE Taken(candidates, p) = {}

\* The selection of every pattern that was searched for is the one there is.
Selected ==
    phase \in {"validate", "judge"} =>
        \A p \in Rule : Admits(with, text, p) /\ Pattern[p].prefix # 0 =>
            AllTaken(text, p, Starts(text, p))

ValidateInv ==
    phase = "validate" =>
        \A p \in Rule : Taken(candidates, p) = IF Admits(with, text, p) THEN Starts(text, p) ELSE {}

JudgeInv ==
    phase = "judge" =>
        matches = [p \in Rule |-> IF Admits(with, text, p) THEN AllFound(text, p) ELSE {}]

BlockedInv == phase = "idle" /\ blocked => Verdict(with, text, page)
PassedInv == \A s \in passed : ~Verdict(s, text, page)

MatchInv ==
    /\ MatchTypeOK
    /\ SweepInv /\ Selected /\ ValidateInv /\ JudgeInv
    /\ BlockedInv /\ PassedInv

LEMMA MatchInitInv == MatchInit => MatchInv
<1> SUFFICES ASSUME MatchInit PROVE MatchInv
  OBVIOUS
<1>1. MatchTypeOK
  <2>1. live \in Settings
    <3>1. PICK b \in Bundle :
            live \in [rules : {b.rules}, exclusions : {b.exclusions}, off : {{}},
                      large : LargeFrom, weights : Signals, bars : Bars, blessed : SUBSET Value]
      BY DEF MatchInit
    <3>2. b.rules \subseteq Rule /\ b.exclusions \subseteq Exclusion
      BY <3>1, MatchAssumption
    <3> QED BY <3>1, <3>2 DEF Settings
  <2>2. 0 \in 0..MaxEdits
    BY MatchAssumption
  <2> QED BY <2>1, <2>2 DEF MatchInit, MatchTypeOK
<1>2. phase = "idle" /\ blocked = FALSE /\ passed = {}
  BY DEF MatchInit
<1> QED BY <1>1, <1>2 DEF MatchInv, SweepInv, Selected, ValidateInv, JudgeInv, BlockedInv, PassedInv

\* A change leaves the scan alone.
LEMMA EditInv ==
    ASSUME MatchInv, NEW s \in Settings, Edit(s)
    PROVE  MatchInv'
<1>1. /\ UNCHANGED <<text, page, with, phase, from, candidates, matches, blocked, passed>>
      /\ live' = s /\ edits' = edits + 1 /\ edits < MaxEdits
  BY DEF Edit, scanVars
<1>2. MatchTypeOK'
  <2>1. edits' \in 0..MaxEdits
    BY <1>1, MatchAssumption DEF MatchInv, MatchTypeOK
  <2> QED BY <1>1, <2>1 DEF MatchInv, MatchTypeOK
<1>3. SweepInv'
  BY <1>1 DEF MatchInv, SweepInv, Prefixed
<1>4. Selected' /\ ValidateInv' /\ JudgeInv' /\ BlockedInv' /\ PassedInv'
  BY <1>1 DEF MatchInv, Selected, ValidateInv, JudgeInv, BlockedInv, PassedInv
<1> QED BY <1>2, <1>3, <1>4 DEF MatchInv

LEMMA ChangesInv ==
    ASSUME MatchInv,
           \/ \E b \in Bundle : RebuildRules(b)
           \/ \E off \in SUBSET CategoryName : SetDisabledCategories(off)
           \/ \E n \in LargeFrom : SetLargeContentThreshold(n)
           \/ \E w \in Signals : SetWeights(w)
           \/ \E b \in Bars : SetBars(b)
           \/ \E v \in Value : Bless(v)
           \/ \E v \in Value : Unbless(v)
    PROVE  MatchInv'
<1> USE DEF Settings
<1>1. live \in Settings
  BY DEF MatchInv, MatchTypeOK
<1>2. CASE \E b \in Bundle : RebuildRules(b)
  <2>1. PICK b \in Bundle : RebuildRules(b)
    BY <1>2
  <2>2. b.rules \subseteq Rule /\ b.exclusions \subseteq Exclusion
    BY MatchAssumption
  <2>3. [live EXCEPT !.rules = b.rules, !.exclusions = b.exclusions] \in Settings
    BY <1>1, <2>2
  <2> QED BY <2>1, <2>3, EditInv DEF RebuildRules
<1>3. CASE \E off \in SUBSET CategoryName : SetDisabledCategories(off)
  <2>1. PICK off \in SUBSET CategoryName : SetDisabledCategories(off)
    BY <1>3
  <2>2. [live EXCEPT !.off = off] \in Settings
    BY <1>1
  <2> QED BY <2>1, <2>2, EditInv DEF SetDisabledCategories
<1>4. CASE \E n \in LargeFrom : SetLargeContentThreshold(n)
  <2>1. PICK n \in LargeFrom : SetLargeContentThreshold(n)
    BY <1>4
  <2>2. [live EXCEPT !.large = n] \in Settings
    BY <1>1
  <2> QED BY <2>1, <2>2, EditInv DEF SetLargeContentThreshold
<1>5. CASE \E w \in Signals : SetWeights(w)
  <2>1. PICK w \in Signals : SetWeights(w)
    BY <1>5
  <2>2. [live EXCEPT !.weights = w] \in Settings
    BY <1>1
  <2> QED BY <2>1, <2>2, EditInv DEF SetWeights
<1>6. CASE \E b \in Bars : SetBars(b)
  <2>1. PICK b \in Bars : SetBars(b)
    BY <1>6
  <2>2. [live EXCEPT !.bars = b] \in Settings
    BY <1>1
  <2> QED BY <2>1, <2>2, EditInv DEF SetBars
<1>7. CASE \E v \in Value : Bless(v)
  <2>1. PICK v \in Value : Bless(v)
    BY <1>7
  <2>2. [live EXCEPT !.blessed = live.blessed \cup {v}] \in Settings
    BY <1>1
  <2> QED BY <2>1, <2>2, EditInv DEF Bless
<1>8. CASE \E v \in Value : Unbless(v)
  <2>1. PICK v \in Value : Unbless(v)
    BY <1>8
  <2>2. [live EXCEPT !.blessed = live.blessed \ {v}] \in Settings
    BY <1>1
  <2> QED BY <2>1, <2>2, EditInv DEF Unbless
<1> QED BY <1>2, <1>3, <1>4, <1>5, <1>6, <1>7, <1>8

LEMMA MatchBeginsInv == ASSUME MatchInv, MatchBegins PROVE MatchInv'
<1>1. /\ text' = text /\ page' = page /\ live' = live /\ edits' = edits /\ blocked' = blocked
      /\ passed' = passed /\ phase' = "sweep" /\ with' = live /\ candidates' = {}
      /\ from' = [p \in Rule |-> 0] /\ matches' = [p \in Rule |-> {}]
  BY DEF MatchBegins
<1>2. MatchTypeOK'
  BY <1>1 DEF MatchInv, MatchTypeOK
<1>3. SweepInv'
  <2>1. ASSUME NEW p \in Rule
        PROVE  Taken(candidates', p) = {} /\ Greedy(text', p, Taken(candidates', p), from'[p])
    <3>1. Taken(candidates', p) = {} /\ from'[p] = 0
      BY <1>1 DEF Taken
    <3>2. text \in Content
      BY DEF MatchInv, MatchTypeOK
    <3>3. \A o \in text.occurs[p] : ~ (o < 0)
      BY <3>2, ContentFacts
    <3> QED BY <3>1, <3>3, <1>1 DEF Greedy
  <2> QED BY <2>1 DEF SweepInv
<1>4. Selected' /\ ValidateInv' /\ JudgeInv' /\ BlockedInv' /\ PassedInv'
  BY <1>1 DEF MatchInv, Selected, ValidateInv, JudgeInv, BlockedInv, PassedInv
<1> QED BY <1>2, <1>3, <1>4 DEF MatchInv

\* The next occurrence behind the last one taken is one to take.
LEMMA GreedyStep ==
    ASSUME NEW t \in Content, NEW p \in Rule, NEW E, NEW n \in Nat, Greedy(t, p, E, n),
           Pattern[p].prefix # 0,
           NEW o \in t.occurs[p], o >= n, \A x \in t.occurs[p] : x >= n => o <= x
    PROVE  Greedy(t, p, E \cup {o}, o + Pattern[p].prefix)
<1> DEFINE len == Pattern[p].prefix
           F == E \cup {o}
<1>1. /\ len \in Nat /\ len > 0 /\ t.occurs[p] \subseteq Nat /\ o \in Nat /\ E \subseteq Nat
  BY ContentFacts, RuleFacts DEF Greedy
<1>2. F \subseteq t.occurs[p]
  BY DEF Greedy
<1>3. \A q \in E : q + len <= n
  BY DEF Greedy
<1>4. ASSUME NEW q \in F PROVE q + len <= o + len
  <2>1. CASE q \in E
    <3>1. q + len <= n /\ q \in Nat
      BY <2>1, <1>1, <1>3
    <3> QED BY <3>1, <1>1
  <2>2. CASE q = o
    BY <2>2, <1>1
  <2> QED BY <2>1, <2>2
<1>5. ASSUME NEW x \in t.occurs[p], x < o + len
      PROVE  x \in F <=> \A q \in F : q < x => q + len <= x
  <2>1. x \in Nat
    BY <1>1
  <2>2. CASE x < n
    <3>1. ~ (o < x) /\ x # o
      BY <2>1, <2>2, <1>1
    <3>2. x \in E <=> \A q \in E : q < x => q + len <= x
      BY <2>2 DEF Greedy
    <3> QED BY <3>1, <3>2
  <2>3. CASE x >= n /\ x = o
    <3>1. \A q \in E : q + len <= x
      BY <1>3, <1>1, <2>1, <2>3
    <3>2. \A q \in F : q < x => q + len <= x
      BY <3>1, <2>3, <2>1
    <3> QED BY <3>2, <2>3
  <2>4. CASE x >= n /\ x # o
    <3>1. o < x /\ ~ (o + len <= x)
      BY <2>1, <2>4, <1>1, <1>5
    <3>2. x \notin E
      <4> SUFFICES ASSUME x \in E PROVE FALSE
        OBVIOUS
      <4>1. x + len <= n
        BY <1>3
      <4> QED BY <4>1, <2>1, <2>4, <1>1
    <3> QED BY <3>1, <3>2, <2>4
  <2> QED BY <2>1, <2>2, <2>3, <2>4
<1>6. Greedy(t, p, F, o + len)
  <2> HIDE DEF F, len
  <2>1. \A q \in F : q + Pattern[p].prefix <= o + len
    BY <1>4 DEF len
  <2>2. \A x \in t.occurs[p] : x < o + len =>
          (x \in F <=> \A q \in F : q < x => q + Pattern[p].prefix <= x)
    BY <1>5 DEF len
  <2> QED BY <1>2, <2>1, <2>2 DEF Greedy
<1> QED BY <1>6

LEMMA SweepsInv == ASSUME MatchInv, NEW p \in Prefixed, Sweeps(p) PROVE MatchInv'
<1>1. PICK o \in Ahead(p) :
        /\ \A q \in Ahead(p) : o <= q
        /\ candidates' = candidates \cup {[at |-> o, rule |-> p]}
        /\ from' = [from EXCEPT ![p] = o + Pattern[p].prefix]
  BY DEF Sweeps
<1>2. /\ text' = text /\ page' = page /\ live' = live /\ edits' = edits /\ blocked' = blocked
      /\ passed' = passed /\ phase' = phase /\ with' = with /\ matches' = matches /\ phase = "sweep"
  BY DEF Sweeps
<1>3. /\ text \in Content /\ p \in Rule /\ Pattern[p].prefix # 0 /\ Pattern[p].prefix \in Nat
      /\ with \in Settings /\ from \in [Rule -> Nat] /\ candidates \subseteq [at : Nat, rule : Rule]
  <2>1. with \in Settings /\ text \in Content /\ from \in [Rule -> Nat]
        /\ candidates \subseteq [at : Nat, rule : Rule]
    BY DEF MatchInv, MatchTypeOK
  <2>2. p \in Rule /\ Pattern[p].prefix > 0
    BY <2>1, SettingsFacts DEF Prefixed
  <2> QED BY <2>1, <2>2, RuleFacts
<1>4. o \in text.occurs[p] /\ o >= from[p] /\ o \in Nat
      /\ \A x \in text.occurs[p] : x >= from[p] => o <= x
  BY <1>1, <1>3, ContentFacts DEF Ahead
<1>5. MatchTypeOK'
  <2>1. candidates' \subseteq [at : Nat, rule : Rule]
    BY <1>1, <1>3, <1>4
  <2>2. from' \in [Rule -> Nat]
    BY <1>1, <1>3, <1>4
  <2> QED BY <1>2, <2>1, <2>2 DEF MatchInv, MatchTypeOK
<1>6. Prefixed' = Prefixed
  BY <1>2 DEF Prefixed
<1>7. SweepInv'
  <2> SUFFICES ASSUME NEW r \in Rule
               PROVE  IF r \in Prefixed THEN Greedy(text, r, Taken(candidates', r), from'[r])
                                        ELSE Taken(candidates', r) = {}
    BY <1>2, <1>6 DEF SweepInv
  <2>1. IF r \in Prefixed THEN Greedy(text, r, Taken(candidates, r), from[r])
                          ELSE Taken(candidates, r) = {}
    BY <1>2 DEF MatchInv, SweepInv
  <2>2. CASE r = p
    <3>1. Taken(candidates', p) = Taken(candidates, p) \cup {o}
      BY <1>1, <1>4 DEF Taken, CandidateAt
    <3>2. from'[p] = o + Pattern[p].prefix /\ from[p] \in Nat
      BY <1>1, <1>3
    <3>3. Greedy(text, p, Taken(candidates, p), from[p])
      BY <2>1, <2>2
    <3>4. Greedy(text, p, Taken(candidates, p) \cup {o}, o + Pattern[p].prefix)
      BY <1>3, <1>4, <3>2, <3>3, GreedyStep
    <3> QED BY <2>2, <3>1, <3>2, <3>4
  <2>3. CASE r # p
    <3>1. Taken(candidates', r) = Taken(candidates, r)
      BY <1>1, <2>3 DEF Taken, CandidateAt
    <3>2. from'[r] = from[r]
      BY <1>1, <1>3, <2>3
    <3> QED BY <2>1, <3>1, <3>2
  <2> QED BY <2>2, <2>3
<1>8. Selected' /\ ValidateInv' /\ JudgeInv' /\ BlockedInv' /\ PassedInv'
  BY <1>2 DEF MatchInv, Selected, ValidateInv, JudgeInv, BlockedInv, PassedInv
<1> QED BY <1>5, <1>7, <1>8 DEF MatchInv

LEMMA FiltersInv == ASSUME MatchInv, Filters PROVE MatchInv'
<1> DEFINE prefixless == {[at |-> 0, rule |-> p] : p \in with.rules \ Prefixed}
<1>1. /\ text' = text /\ page' = page /\ live' = live /\ edits' = edits /\ blocked' = blocked
      /\ passed' = passed /\ with' = with /\ matches' = matches /\ from' = from
      /\ phase = "sweep" /\ phase' = "validate"
      /\ candidates' = {c \in candidates \cup prefixless : Admits(with, text, c.rule)}
      /\ \A p \in Prefixed : Ahead(p) = {}
  BY DEF Filters
<1>2. /\ text \in Content /\ with \in Settings /\ from \in [Rule -> Nat]
      /\ candidates \subseteq [at : Nat, rule : Rule] /\ with.rules \subseteq Rule
  BY SettingsFacts DEF MatchInv, MatchTypeOK
<1>3. MatchTypeOK'
  <2>1. prefixless \subseteq [at : Nat, rule : Rule]
    BY <1>2
  <2>2. candidates' \subseteq [at : Nat, rule : Rule]
    <3> HIDE DEF prefixless
    <3> QED BY <2>1, <1>1, <1>2
  <2> QED BY <1>1, <2>2 DEF MatchInv, MatchTypeOK
<1>4. ASSUME NEW p \in Prefixed
      PROVE  AllTaken(text, p, Taken(candidates, p)) /\ Starts(text, p) = Taken(candidates, p)
  <2>1. p \in Rule /\ Pattern[p].prefix # 0
    BY <1>2, RuleFacts DEF Prefixed
  <2>2. Greedy(text, p, Taken(candidates, p), from[p])
    BY <1>1, <2>1 DEF MatchInv, SweepInv
  <2>3. \A o \in text.occurs[p] : o < from[p]
    <3>1. \A o \in text.occurs[p] : ~ (o >= from[p])
      BY <1>1 DEF Ahead
    <3>2. text.occurs[p] \subseteq Nat /\ from[p] \in Nat
      BY <1>2, <2>1, ContentFacts
    <3> QED BY <3>1, <3>2
  <2>4. AllTaken(text, p, Taken(candidates, p))
    BY <2>2, <2>3 DEF Greedy, AllTaken
  <2> QED BY <2>1, <2>4, <1>2, StartsAre
<1>5. \A p \in Rule : Admits(with, text, p) /\ Pattern[p].prefix # 0 => p \in Prefixed
  BY RuleFacts DEF Prefixed, Admits
<1>6. Selected'
  <2> SUFFICES ASSUME NEW p \in Rule, Admits(with, text, p), Pattern[p].prefix # 0
               PROVE  AllTaken(text, p, Starts(text, p))
    BY <1>1 DEF Selected
  <2> QED BY <1>4, <1>5
<1>7. ValidateInv'
  <2> SUFFICES ASSUME NEW p \in Rule
               PROVE  Taken(candidates', p) = IF Admits(with, text, p) THEN Starts(text, p) ELSE {}
    BY <1>1 DEF ValidateInv
  <2>1. Taken(candidates', p)
          = IF Admits(with, text, p) THEN {o \in Nat : CandidateAt(o, p) \in candidates \cup prefixless} ELSE {}
    <3> HIDE DEF prefixless
    <3> QED BY <1>1 DEF Taken, CandidateAt
  <2>2. CASE ~Admits(with, text, p)
    BY <2>1, <2>2
  <2>3. CASE Admits(with, text, p) /\ p \in Prefixed
    <3>1. \A o \in Nat : CandidateAt(o, p) \notin prefixless
      BY <2>3 DEF CandidateAt
    <3>2. Starts(text, p) = Taken(candidates, p)
      BY <2>3, <1>4
    <3> HIDE DEF prefixless
    <3> QED BY <2>1, <2>3, <3>1, <3>2 DEF Taken
  <2>4. CASE Admits(with, text, p) /\ p \notin Prefixed
    <3>1. p \in with.rules /\ Pattern[p].prefix = 0
      BY <2>4, <1>5 DEF Admits
    <3>2. Taken(candidates, p) = {}
      BY <1>1, <2>4 DEF MatchInv, SweepInv
    <3>3. \A o \in Nat : CandidateAt(o, p) \in prefixless <=> o = 0
      BY <3>1, <2>4 DEF CandidateAt
    <3>4. \A o \in Nat : CandidateAt(o, p) \notin candidates
      BY <3>2 DEF Taken
    <3>5. {o \in Nat : CandidateAt(o, p) \in candidates \cup prefixless} = {0}
      <4> HIDE DEF prefixless
      <4> QED BY <3>3, <3>4
    <3> QED BY <2>1, <2>4, <3>1, <3>5 DEF Starts
  <2> QED BY <2>2, <2>3, <2>4
<1>8. SweepInv' /\ JudgeInv' /\ BlockedInv' /\ PassedInv'
  BY <1>1 DEF MatchInv, SweepInv, JudgeInv, BlockedInv, PassedInv
<1> QED BY <1>3, <1>6, <1>7, <1>8 DEF MatchInv

LEMMA ValidatesInv == ASSUME MatchInv, Validates PROVE MatchInv'
<1>1. /\ text' = text /\ page' = page /\ live' = live /\ edits' = edits /\ blocked' = blocked
      /\ passed' = passed /\ with' = with /\ candidates' = candidates /\ from' = from
      /\ phase = "validate" /\ phase' = "judge"
      /\ matches' = [p \in Rule |-> FoundAt(text, candidates, p)]
  BY DEF Validates
<1>2. text \in Content /\ candidates \subseteq [at : Nat, rule : Rule]
  BY DEF MatchInv, MatchTypeOK
<1>3. ASSUME NEW p \in Rule
      PROVE  /\ FoundAt(text, candidates, p) \subseteq Hit
             /\ FoundAt(text, candidates, p) = IF Admits(with, text, p) THEN AllFound(text, p) ELSE {}
  <2>1. FoundAt(text, candidates, p)
          = {h \in text.hits[p] : \E o \in Taken(candidates, p) : h \in Finds(text, CandidateAt(o, p))}
    BY <1>2, FoundAtIs
  <2>2. Taken(candidates, p) = IF Admits(with, text, p) THEN Starts(text, p) ELSE {}
    BY <1>1 DEF MatchInv, ValidateInv
  <2>3. text.hits[p] \subseteq Hit
    BY <1>2, ContentFacts
  <2> QED BY <2>1, <2>2, <2>3 DEF AllFound
<1>4. MatchTypeOK'
  <2>1. matches' \in [Rule -> SUBSET Hit]
    BY <1>1, <1>3
  <2> QED BY <1>1, <2>1 DEF MatchInv, MatchTypeOK
<1>5. JudgeInv'
  BY <1>1, <1>3 DEF JudgeInv
<1>6. Selected'
  BY <1>1 DEF MatchInv, Selected
<1>7. SweepInv' /\ ValidateInv' /\ BlockedInv' /\ PassedInv'
  BY <1>1 DEF MatchInv, SweepInv, ValidateInv, BlockedInv, PassedInv
<1> QED BY <1>4, <1>5, <1>6, <1>7 DEF MatchInv

LEMMA JudgesInv == ASSUME MatchInv, Judges PROVE MatchInv'
<1>1. /\ text' = text /\ page' = page /\ live' = live /\ edits' = edits
      /\ matches' = matches /\ candidates' = candidates /\ from' = from
      /\ phase = "judge" /\ phase' = "idle" /\ with' = Judged
      /\ blocked' = \E p \in Rule : Blocks(Judged, text, page, p, matches[p])
      /\ passed' = passed \/ (~blocked' /\ passed' = {Judged})
  BY DEF Judges
<1>2. with \in Settings /\ live \in Settings /\ text \in Content
  BY DEF MatchInv, MatchTypeOK
<1>3. /\ Judged \in Settings
      /\ Judged.rules = with.rules /\ Judged.off = with.off /\ Judged.large = with.large
  BY <1>2 DEF Judged, Settings
<1>4. \A p \in Rule : Admits(Judged, text, p) <=> Admits(with, text, p)
  BY <1>3 DEF Admits
<1>5. ASSUME NEW p \in Rule
      PROVE  Blocks(Judged, text, page, p, matches[p])
               <=> Admits(Judged, text, p) /\ Blocks(Judged, text, page, p, AllFound(text, p))
  <2>1. matches[p] = IF Admits(with, text, p) THEN AllFound(text, p) ELSE {}
    BY <1>1 DEF MatchInv, JudgeInv
  <2>2. ~Blocks(Judged, text, page, p, {})
    BY DEF Blocks, Reaches, Eligible
  <2>3. CASE Admits(with, text, p)
    BY <2>1, <2>3, <1>4
  <2>4. CASE ~Admits(with, text, p)
    <3>1. matches[p] = {}
      BY <2>1, <2>4
    <3> QED BY <3>1, <2>2, <2>4, <1>4
  <2> QED BY <2>3, <2>4
<1>6. blocked' <=> Verdict(Judged, text, page)
  BY <1>1, <1>5 DEF Verdict
<1>7. MatchTypeOK'
  <2>1. passed' \subseteq Settings
    BY <1>1, <1>3 DEF MatchInv, MatchTypeOK
  <2>2. blocked' \in BOOLEAN
    BY <1>1
  <2> QED BY <1>1, <1>3, <2>1, <2>2 DEF MatchInv, MatchTypeOK
<1>8. BlockedInv'
  BY <1>1, <1>6 DEF BlockedInv
<1>9. PassedInv'
  BY <1>1, <1>6 DEF MatchInv, PassedInv
<1>10. SweepInv' /\ Selected' /\ ValidateInv' /\ JudgeInv'
  BY <1>1 DEF SweepInv, Selected, ValidateInv, JudgeInv
<1> QED BY <1>7, <1>8, <1>9, <1>10 DEF MatchInv

LEMMA MatchStepInv == MatchInv /\ [MatchNext]_matchVars => MatchInv'
<1> SUFFICES ASSUME MatchInv, [MatchNext]_matchVars PROVE MatchInv'
  OBVIOUS
<1>1. CASE UNCHANGED matchVars
  <2>1. UNCHANGED <<text, page, live, edits, with, phase, from, candidates, matches, blocked, passed>>
    BY <1>1 DEF matchVars, scanVars
  <2>2. MatchTypeOK'
    BY <2>1 DEF MatchInv, MatchTypeOK
  <2>3. SweepInv'
    BY <2>1 DEF MatchInv, SweepInv, Prefixed
  <2>4. Selected' /\ ValidateInv' /\ JudgeInv' /\ BlockedInv' /\ PassedInv'
    BY <2>1 DEF MatchInv, Selected, ValidateInv, JudgeInv, BlockedInv, PassedInv
  <2> QED BY <2>2, <2>3, <2>4 DEF MatchInv
<1>2. CASE MatchNext
  BY <1>2, ChangesInv, MatchBeginsInv, SweepsInv, FiltersInv, ValidatesInv, JudgesInv DEF MatchNext
<1> QED BY <1>1, <1>2

LEMMA MatchInvariance == MatchSpec => []MatchInv
BY MatchInitInv, MatchStepInv, PTL DEF MatchSpec

\* The parts of a scan and the settings keep their types.
THEOREM MatchTypeCorrect == MatchSpec => []MatchTypeOK
<1>1. MatchInv => MatchTypeOK
  BY DEF MatchInv
<1> QED BY <1>1, MatchInvariance, PTL

\* Whatever the text, the patterns and the window: the prefix scan and the
\* windows lose no hit they may not lose.
THEOREM PrefixScanSound == MatchSpec => []MatchesComplete
<1>1. MatchInv => MatchesComplete
  <2> SUFFICES ASSUME MatchInv, phase = "judge", NEW p \in Rule, Admits(with, text, p),
                      NEW h \in text.hits[p], Reachable(text, p, h)
               PROVE  h \in matches[p]
    BY DEF MatchesComplete
  <2>1. text \in Content
    BY DEF MatchInv, MatchTypeOK
  <2>2. Pattern[p].prefix # 0 => AllTaken(text, p, Starts(text, p))
    BY DEF MatchInv, Selected
  <2>3. h \in AllFound(text, p)
    BY <2>1, <2>2, ReachableFound
  <2>4. matches[p] = AllFound(text, p)
    BY DEF MatchInv, JudgeInv
  <2> QED BY <2>3, <2>4
<1> QED BY <1>1, MatchInvariance, PTL

\* Whatever the weights, the thresholds and the page: no leniency turns a text
\* that was let go into one that is blocked.
THEOREM LeniencyMonotone == MatchSpec => []LeniencyNeverBlocks
<1>1. MatchInv => LeniencyNeverBlocks
  <2> SUFFICES ASSUME MatchInv, phase = "idle", blocked, NEW s \in passed, Lenient(with, s)
               PROVE  FALSE
    BY DEF LeniencyNeverBlocks
  <2>1. text \in Content /\ with \in Settings /\ s \in Settings
    BY DEF MatchInv, MatchTypeOK
  <2>2. Verdict(with, text, page)
    BY DEF MatchInv, BlockedInv
  <2>3. Verdict(s, text, page)
    BY <2>1, <2>2, LenientVerdict
  <2> QED BY <2>3 DEF MatchInv, PassedInv
<1> QED BY <1>1, MatchInvariance, PTL

-----------------------------------------------------------------------------
(* The limiter of scan requests                                            *)

\* The bucket has no more than what it would have if it had never been full.
RateInv ==
    /\ RateTypeOK
    /\ limiter.burst >= Whole
    /\ limiter.tokens <= limiter.burst
    /\ limiter.lastFill <= ticks
    /\ IF limiter.lastFill < mark
       THEN granted = 0
       ELSE Whole * granted + limiter.tokens <= limiter.burst + limiter.rate * (limiter.lastFill - mark)

LEMMA NewLimiterInv ==
    ASSUME NEW r \in Rate, NEW b \in Burst, NEW t \in 0..MaxTicks
    PROVE  /\ NewLimiter(r, b, t) \in Limiter
           /\ NewLimiter(r, b, t).burst >= Whole
           /\ NewLimiter(r, b, t).tokens = NewLimiter(r, b, t).burst
           /\ NewLimiter(r, b, t).lastFill = t
           /\ NewLimiter(r, b, t).rate = r
<1> DEFINE n == IF b < 1 THEN 1 ELSE b
           size == Whole * n
<1>1. Whole \in Nat /\ Whole > 0 /\ r \in Nat /\ b \in Nat
  BY RateAssumption
<1>2. n \in Nat /\ n >= 1
  BY <1>1
<1>3. size \in Nat /\ size >= Whole
  <2>1. n - 1 \in Nat
    BY <1>2
  <2>2. Whole * (n - 1) \in Nat
    BY <2>1, <1>1
  <2>3. size = Whole * (n - 1) + Whole
    BY <1>1, <1>2
  <2> QED BY <2>2, <2>3, <1>1
<1>4. NewLimiter(r, b, t) = [rate |-> r, burst |-> size, tokens |-> size, lastFill |-> t]
  BY DEF NewLimiter
<1> HIDE DEF size, n
<1> QED BY <1>3, <1>4 DEF Limiter

LEMMA RateInitInv == RateInit => RateInv
<1> SUFFICES ASSUME RateInit PROVE RateInv
  OBVIOUS
<1>1. PICK r \in Rate, b \in Burst : limiter = NewLimiter(r, b, 0)
  BY DEF RateInit
<1>2. MaxTicks \in Nat /\ 0 \in 0..MaxTicks /\ Whole \in Nat /\ r \in Nat
  BY RateAssumption
<1>3. /\ limiter \in Limiter
      /\ limiter.burst >= Whole
      /\ limiter.tokens = limiter.burst
      /\ limiter.lastFill = 0
  BY <1>1, <1>2, NewLimiterInv
<1>4. RateTypeOK
  BY <1>2, <1>3 DEF RateInit, RateTypeOK
<1>5. limiter.burst \in Nat /\ limiter.rate \in Nat
  BY <1>3, RateAssumption DEF Limiter
<1>6. Whole * granted + limiter.tokens <= limiter.burst + limiter.rate * (limiter.lastFill - mark)
  <2>1. granted = 0 /\ mark = 0
    BY DEF RateInit
  <2>2. Whole * granted = 0 /\ limiter.rate * (limiter.lastFill - mark) = 0
    BY <2>1, <1>3, <1>2, <1>5
  <2> QED BY <2>2, <1>3, <1>5
<1> QED BY <1>3, <1>4, <1>5, <1>6, <1>2 DEF RateInv, RateInit

\* What the types say, field by field.
LEMMA RateFacts ==
    ASSUME RateInv
    PROVE  /\ limiter \in Limiter
           /\ limiter.rate \in Nat /\ limiter.rate \in Rate
           /\ limiter.burst \in Nat /\ limiter.tokens \in Nat
           /\ limiter.lastFill \in 0..MaxTicks /\ limiter.lastFill \in Nat
           /\ ticks \in 0..MaxTicks /\ ticks \in Nat
           /\ mark \in 0..ticks /\ mark \in Nat /\ mark <= ticks
           /\ granted \in Nat /\ Whole \in Nat /\ Whole > 0 /\ MaxTicks \in Nat
           /\ limiter.lastFill <= ticks /\ limiter.burst >= Whole /\ limiter.tokens <= limiter.burst
<1>1. limiter \in Limiter /\ ticks \in 0..MaxTicks /\ mark \in 0..ticks /\ granted \in Nat
  BY DEF RateInv, RateTypeOK
<1>2. Whole \in Nat /\ Whole > 0 /\ MaxTicks \in Nat /\ Rate \subseteq Nat
  BY RateAssumption
<1>3. /\ limiter.rate \in Rate /\ limiter.burst \in Nat /\ limiter.tokens \in Nat
      /\ limiter.lastFill \in 0..MaxTicks
  BY <1>1 DEF Limiter
<1>4. limiter.lastFill <= ticks /\ limiter.burst >= Whole /\ limiter.tokens <= limiter.burst
  BY DEF RateInv
<1>5. limiter.rate \in Nat
  BY <1>2, <1>3
<1>6. limiter.lastFill \in Nat /\ ticks \in Nat
  BY <1>1, <1>2, <1>3
<1>7. mark \in Nat /\ mark <= ticks
  BY <1>1, <1>6
<1> QED BY <1>1, <1>2, <1>3, <1>4, <1>5, <1>6, <1>7

\* What is in the bucket now, by the same account.
LEMMA FilledKeeps ==
    ASSUME RateInv, limiter.rate > 0
    PROVE  /\ Filled \in Nat /\ Filled <= limiter.burst
           /\ Whole * granted + Filled <= limiter.burst + limiter.rate * (ticks - mark)
<1> DEFINE gain == limiter.rate * (ticks - limiter.lastFill)
           tokens == limiter.tokens + gain
<1>1. /\ limiter.rate \in Nat /\ limiter.burst \in Nat /\ limiter.tokens \in Nat
      /\ limiter.lastFill \in Nat /\ ticks \in Nat /\ mark \in Nat /\ mark <= ticks
      /\ granted \in Nat /\ Whole \in Nat /\ limiter.lastFill <= ticks
  BY RateFacts
<1>2. gain \in Nat
  <2>1. ticks - limiter.lastFill \in Nat
    BY <1>1
  <2> QED BY <2>1, <1>1
<1>3. Filled = IF tokens > limiter.burst THEN limiter.burst ELSE tokens
  BY DEF Filled
<1>4. Filled \in Nat /\ Filled <= limiter.burst /\ Filled <= tokens
  <2> HIDE DEF gain
  <2> QED BY <1>1, <1>2, <1>3
<1>5. CASE limiter.lastFill < mark
  <2>1. granted = 0
    BY <1>5 DEF RateInv
  <2>2. Whole * granted = 0
    BY <2>1, <1>1
  <2>3. limiter.rate * (ticks - mark) \in Nat
    <3>1. ticks - mark \in Nat
      BY <1>1
    <3> QED BY <3>1, <1>1
  <2> QED BY <2>2, <2>3, <1>4, <1>1
<1>6. CASE ~ (limiter.lastFill < mark)
  <2>1. Whole * granted + limiter.tokens <= limiter.burst + limiter.rate * (limiter.lastFill - mark)
    BY <1>6 DEF RateInv
  <2>2. limiter.rate * (ticks - mark) = limiter.rate * (limiter.lastFill - mark) + gain
    BY <1>1
  <2>3. limiter.rate * (limiter.lastFill - mark) \in Int /\ Whole * granted \in Int
    BY <1>1
  <2> HIDE DEF gain
  <2> QED BY <2>1, <2>2, <2>3, <1>4, <1>2, <1>1
<1> QED BY <1>4, <1>5, <1>6

LEMMA RateStepInv == RateInv /\ [RateNext]_rateVars => RateInv'
<1> SUFFICES ASSUME RateInv, [RateNext]_rateVars PROVE RateInv'
  OBVIOUS
<1>1. /\ limiter.rate \in Nat /\ limiter.rate \in Rate /\ limiter.burst \in Nat /\ limiter.tokens \in Nat
      /\ limiter.lastFill \in 0..MaxTicks /\ ticks \in 0..MaxTicks /\ mark \in 0..ticks
      /\ granted \in Nat /\ Whole \in Nat /\ Whole > 0 /\ limiter.lastFill <= ticks /\ MaxTicks \in Nat
      /\ limiter.burst >= Whole /\ limiter.tokens <= limiter.burst
      /\ limiter \in Limiter
  BY RateFacts
<1>2. CASE UNCHANGED rateVars
  BY <1>2 DEF RateInv, RateTypeOK, rateVars
<1>3. CASE \E r \in Rate, b \in Burst : SetScanRateLimit(r, b)
  <2>1. PICK r \in Rate, b \in Burst : SetScanRateLimit(r, b)
    BY <1>3
  <2>2. /\ limiter' \in Limiter
        /\ limiter'.burst >= Whole
        /\ limiter'.tokens = limiter'.burst
        /\ limiter'.lastFill = ticks
        /\ limiter'.rate = r
    BY <2>1, <1>1, NewLimiterInv DEF SetScanRateLimit
  <2>3. ticks' = ticks /\ mark' = ticks /\ granted' = 0
    BY <2>1 DEF SetScanRateLimit
  <2>4. limiter'.burst \in Nat /\ r \in Nat
    BY <2>2, RateAssumption DEF Limiter
  <2>5. Whole * granted' = 0 /\ limiter'.rate * (limiter'.lastFill - mark') = 0
    BY <2>2, <2>3, <2>4, <1>1
  <2> QED BY <2>2, <2>3, <2>4, <2>5, <1>1 DEF RateInv, RateTypeOK
<1>4. CASE RateTick
  <2>1. ticks' = ticks + 1 /\ ticks' \in 0..MaxTicks /\ limiter' = limiter
    BY <1>4, <1>1 DEF RateTick
  <2>2. CASE mark' = mark /\ granted' = granted
    BY <2>1, <2>2, <1>1 DEF RateInv, RateTypeOK
  <2>3. CASE mark' = ticks' /\ granted' = 0
    BY <2>1, <2>3, <1>1 DEF RateInv, RateTypeOK
  <2> QED BY <1>4, <2>2, <2>3 DEF RateTick
<1>5. CASE Allowed
  <2>1. CASE limiter' = limiter /\ granted' = granted
    <3>1. ticks' = ticks /\ mark' = mark
      BY <1>5 DEF Allowed
    <3> QED BY <2>1, <3>1 DEF RateInv, RateTypeOK
  <2>2. CASE /\ limiter.rate > 0
             /\ Filled >= Whole
             /\ granted' = granted + 1
             /\ limiter' = [limiter EXCEPT !.tokens = Filled - Whole, !.lastFill = ticks]
    <3>1. ticks' = ticks /\ mark' = mark
      BY <1>5 DEF Allowed
    <3>2. Filled \in Nat /\ Filled <= limiter.burst
          /\ Whole * granted + Filled <= limiter.burst + limiter.rate * (ticks - mark)
      BY <2>2, FilledKeeps
    <3>3. /\ limiter'.tokens = Filled - Whole /\ limiter'.lastFill = ticks
          /\ limiter'.rate = limiter.rate /\ limiter'.burst = limiter.burst
      BY <2>2, <1>1 DEF Limiter
    <3>4. Filled - Whole \in Nat
      BY <3>2, <2>2, <1>1
    <3>5. limiter' \in Limiter
      BY <3>4, <2>2, <1>1 DEF Limiter
    <3>6. Whole * granted' = Whole * granted + Whole
      BY <2>2, <1>1
    <3>7. RateTypeOK'
      BY <3>1, <3>5, <2>2, <1>1 DEF RateTypeOK
    <3>8. Whole * granted \in Int /\ limiter.rate * (ticks - mark) \in Int
      BY <1>1
    <3>9. Whole * granted' + limiter'.tokens
            <= limiter'.burst + limiter'.rate * (limiter'.lastFill - mark')
      BY <3>1, <3>2, <3>3, <3>6, <3>8, <1>1
    <3> QED BY <3>1, <3>2, <3>3, <3>7, <3>9, <1>1 DEF RateInv
  <2> QED BY <1>5, <2>1, <2>2 DEF Allowed
<1>6. CASE TurnedAway
  <2>1. ticks' = ticks /\ mark' = mark /\ granted' = granted /\ limiter.rate > 0
        /\ limiter' = [limiter EXCEPT !.tokens = Filled, !.lastFill = ticks]
    BY <1>6 DEF TurnedAway
  <2>2. Filled \in Nat /\ Filled <= limiter.burst
        /\ Whole * granted + Filled <= limiter.burst + limiter.rate * (ticks - mark)
    BY <2>1, FilledKeeps
  <2>3. /\ limiter'.tokens = Filled /\ limiter'.lastFill = ticks
        /\ limiter'.rate = limiter.rate /\ limiter'.burst = limiter.burst
    BY <2>1, <1>1 DEF Limiter
  <2>4. limiter' \in Limiter
    BY <2>1, <2>2, <1>1 DEF Limiter
  <2>5. RateTypeOK'
    BY <2>1, <2>4, <1>1 DEF RateTypeOK
  <2> QED BY <2>1, <2>2, <2>3, <2>5, <1>1 DEF RateInv
<1> QED BY <1>2, <1>3, <1>4, <1>5, <1>6 DEF RateNext

LEMMA RateInvariance == RateSpec => []RateInv
BY RateInitInv, RateStepInv, PTL DEF RateSpec

\* The limiter's fields keep their types.
THEOREM RateTypeCorrect == RateSpec => []RateTypeOK
<1>1. RateInv => RateTypeOK
  BY DEF RateInv
<1> QED BY <1>1, RateInvariance, PTL

\* Whatever the rate, the burst and the order of requests, refusals and ticks,
\* no stretch of time lets more scans through than a burst and its yield.
THEOREM RateRespected == RateSpec => []RateKept
<1>1. RateInv => RateKept
  <2> SUFFICES ASSUME RateInv, limiter.rate > 0
               PROVE  Whole * granted <= limiter.burst + limiter.rate * (ticks - mark)
    BY DEF RateKept
  <2>1. Filled \in Nat /\ Whole * granted + Filled <= limiter.burst + limiter.rate * (ticks - mark)
    BY FilledKeeps
  <2>2. Whole \in Nat /\ granted \in Nat /\ limiter.burst \in Nat /\ limiter.rate \in Nat
        /\ ticks \in Nat /\ mark \in Nat
    BY RateFacts
  <2>3. Whole * granted \in Int /\ limiter.rate * (ticks - mark) \in Int
    BY <2>2
  <2> QED BY <2>1, <2>2, <2>3
<1> QED BY <1>1, RateInvariance, PTL
=============================================================================
