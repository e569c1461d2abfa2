-------------------------------- MODULE DLPMatch --------------------------------
(***************************************************************************)
(* What the DLP pipeline finds in a text and whether it blocks it: the     *)
(* prefix scan of Automaton, filterCandidates, ValidateCandidates, the     *)
(* checks of each match, ScoreMatch, ScoreBiasFromContext and the          *)
(* thresholds of agent/internal/dlp.                                       *)
(*                                                                         *)
(* The module follows the scans of one text from one page while its user   *)
(* changes what is looked for.  A text is where the prefixes of the rules  *)
(* occur in it, where their regular expressions match, and where hotwords  *)
(* and the words of exclusions stand: spans <<first, end>> of bytes.  The  *)
(* regexp package is taken to find a match wherever the bytes it is given  *)
(* hold the whole of it.  Prefixes are searched for in a lower-case copy,  *)
(* whose offsets need not be those of the text: they are given, too.  A    *)
(* scan copies the settings when it begins; the thresholds and the         *)
(* allowlist are those of the moment it judges, one moment here: DLPScan   *)
(* lets changes in between the patterns.                                   *)
(*                                                                         *)
(* DLPScan has the verdicts of several scans at a time and their cache,    *)
(* Allowlist what makes a value allowed.                                   *)
(***************************************************************************)
EXTENDS Integers, FiniteSets

CONSTANTS
    Rule,         \* the patterns that rule files may have
    Pattern,      \* Pattern[p]: p's dlp.Pattern
    Exclusion,    \* the exclusions they may have
    Exception,    \* Exception[x]: x's dlp.Exclusion
    Bundle,       \* what the rule files may contain together
    Content,      \* the texts that are scanned
    Page,         \* where they come from: dlp.SourceContext
    Value,        \* what matches consist of
    Cleared,      \* the values that are public examples or placeholders
    Entropy,      \* Entropy[v]: ShannonEntropy(v)
    Signals,      \* values of dlp.ScoreWeights
    Bars,         \* values of dlp.Thresholds
    LargeFrom,    \* values of Pipeline.largeThreshold
    Window,       \* regexWindow
    MaxEdits      \* bound on the changes of the settings

Severity == {"critical", "high", "medium", "low"}
Extent == Nat \X Nat
Hit == [at : Extent, value : Value]

\* dlp.Pattern: of a prefix only the length matters, 0 if there is none.
IsRule(p) ==
    /\ p.prefix \in Nat
    /\ p.minMatches \in Nat
    /\ p.hotwordWindow \in Nat
    /\ p.entropyMin \in Nat
    /\ p.weight \in Int
    /\ p.hotwordBoost \in Int
    /\ p.severity \in Severity \cup {"unknown"}
    /\ p.requireHotword \in BOOLEAN
    /\ p.bias \in [DOMAIN p.bias -> Int]

\* dlp.ScoreWeights
IsWeights(w) ==
    w \in [{"hotwordBoost", "entropyBoost", "entropyPenalty",
            "exclusionPenalty", "multiMatchBoost"} -> Int]

IsText(t) ==
    /\ t.size \in Nat
    /\ t.occurs \in [Rule -> SUBSET Nat]
    /\ t.hits \in [Rule -> SUBSET Hit]
    /\ \A p \in Rule : IsFiniteSet(t.hits[p])
    /\ \A p \in Rule : \A h \in t.hits[p] : h.at[1] < h.at[2] /\ h.at[2] <= t.size
    /\ t.hotwords \in [Rule -> SUBSET Extent]
    /\ t.words \in [Exclusion -> SUBSET Extent]

ASSUME MatchAssumption ==
    /\ \A p \in Rule : IsRule(Pattern[p])
    /\ \A t \in Content : IsText(t)
    /\ \A w \in Signals : IsWeights(w)
    /\ \A b \in Bars : b \in [Severity -> Int]
    /\ Bundle \subseteq [rules : SUBSET Rule, exclusions : SUBSET Exclusion]
    /\ Entropy \in [Value -> Nat]
    /\ Window \in Nat
    /\ LargeFrom \subseteq Nat
    /\ MaxEdits \in Nat

CategoryName == {Pattern[p].category : p \in Rule}

\* What a scan works with: the rule files, the settings and the allowlist.
Settings ==
    [rules : SUBSET Rule, exclusions : SUBSET Exclusion, off : SUBSET CategoryName,
     large : LargeFrom, weights : Signals, bars : Bars, blessed : SUBSET Value]

VARIABLES
    text, page,   \* what is scanned
    live,         \* the settings now
    with,         \* those of the scan
    phase,        \* where the scan is
    from,         \* from[p]: where the search for p's prefix goes on
    candidates,   \* Candidate values
    matches,      \* matches[p]: what p's regular expression found
    blocked,      \* the last scan blocked the text
    edits,
    \* History variable:
    passed        \* the settings of an earlier scan that let the text go

scanVars == <<with, phase, from, candidates, matches, blocked, passed>>
matchVars == <<text, page, live, edits, scanVars>>

MatchTypeOK ==
    /\ text \in Content
    /\ page \in Page
    /\ live \in Settings
    /\ with \in Settings
    /\ phase \in {"idle", "sweep", "validate", "judge"}
    /\ from \in [Rule -> Nat]
    /\ candidates \subseteq [at : Nat, rule : Rule]
    /\ matches \in [Rule -> SUBSET Hit]
    /\ blocked \in BOOLEAN
    /\ edits \in 0..MaxEdits
    /\ passed \subseteq Settings

\* No category is off; the allowlist is as the last run of the agent left it.
MatchInit ==
    /\ text \in Content
    /\ page \in Page
    /\ \E b \in Bundle :
        live \in [rules : {b.rules}, exclusions : {b.exclusions}, off : {{}},
                  large : LargeFrom, weights : Signals, bars : Bars, blessed : SUBSET Value]
    /\ with = live
    /\ phase = "idle"
    /\ from = [p \in Rule |-> 0]
    /\ candidates = {}
    /\ matches = [p \in Rule |-> {}]
    /\ blocked = FALSE
    /\ edits = 0
    /\ passed = {}

-----------------------------------------------------------------------------
(* Changes                                                                 *)

Edit(s) ==
    /\ edits < MaxEdits
    /\ live' = s
    /\ edits' = edits + 1
    /\ UNCHANGED <<text, page, scanVars>>

\* Pipeline.Rebuild
RebuildRules(b) ==
    Edit([live EXCEPT !.rules = b.rules, !.exclusions = b.exclusions])

SetDisabledCategories(off) == Edit([live EXCEPT !.off = off])
SetLargeContentThreshold(n) == Edit([live EXCEPT !.large = n])
SetWeights(w) == Edit([live EXCEPT !.weights = w])
SetBars(b) == Edit([live EXCEPT !.bars = b])

\* Allowlist.Add and Remove
Bless(v) == Edit([live EXCEPT !.blessed = @ \cup {v}])
Unbless(v) == Edit([live EXCEPT !.blessed = @ \ {v}])

-----------------------------------------------------------------------------
(* Automaton.Scan and filterCandidates                                     *)

MatchBegins ==
    /\ phase = "idle"
    /\ phase' = "sweep"
    /\ with' = live
    /\ from' = [p \in Rule |-> 0]
    /\ candidates' = {}
    /\ matches' = [p \in Rule |-> {}]
    /\ UNCHANGED <<text, page, live, edits, blocked, passed>>

Prefixed == {p \in with.rules : Pattern[p].prefix > 0}

\* Where p's prefix occurs in the rest of the text.
Ahead(p) == {o \in text.occurs[p] : o >= from[p]}

\* The search goes on behind the occurrence it found.
Sweeps(p) ==
    /\ phase = "sweep"
    /\ \E o \in Ahead(p) :
        /\ \A q \in Ahead(p) : o <= q
        /\ candidates' = candidates \cup {[at |-> o, rule |-> p]}
        /\ from' = [from EXCEPT ![p] = o + Pattern[p].prefix]
    /\ UNCHANGED <<text, page, live, edits, with, phase, matches, blocked, passed>>

\* Large texts are searched for what is severe.
Admits(s, t, p) ==
    /\ p \in s.rules
    /\ Pattern[p].category \notin s.off
    /\ t.size >= s.large => Pattern[p].severity \in {"critical", "high"}

\* A pattern without a prefix is a candidate at offset 0.
Filters ==
    /\ phase = "sweep"
    /\ \A p \in Prefixed : Ahead(p) = {}
    /\ phase' = "validate"
    /\ candidates' = {c \in candidates \cup {[at |-> 0, rule |-> p] : p \in with.rules \ Prefixed} :
                         Admits(with, text, c.rule)}
    /\ UNCHANGED <<text, page, live, edits, with, from, matches, blocked, passed>>

-----------------------------------------------------------------------------
(* ValidateCandidates                                                      *)

\* The whole text is searched for a pattern without prefix and when it is
\* short.  Every hit lies in the text, so the window need not be clipped.
Finds(t, c) ==
    {h \in t.hits[c.rule] :
        \/ Pattern[c.rule].prefix = 0
        \/ t.size <= 2 * Window
        \/ c.at - Window <= h.at[1] /\ h.at[2] <= c.at + Window}

\* Mutant: the candidates of a pattern, and not its matches, are deduplicated.
FirstCandidate(t, C, p) ==
    UNION {Finds(t, c) : c \in {d \in C : d.rule = p /\ \A e \in C : e.rule = p => d.at <= e.at}}

FoundAt(t, C, p) == UNION {Finds(t, c) : c \in {d \in C : d.rule = p}}

Validates ==
    /\ phase = "validate"
    /\ phase' = "judge"
    /\ matches' = [p \in Rule |-> FoundAt(text, candidates, p)]
    /\ UNCHANGED <<text, page, live, edits, with, from, candidates, blocked, passed>>

-----------------------------------------------------------------------------
(* CheckHotwords and CheckExclusion                                        *)

Within(span, first, end) == first <= span[1] /\ span[2] <= end

\* A hotword stands before or after the match, not in it.
HotwordNear(t, p, h) ==
    /\ Pattern[p].hotwordWindow > 0
    /\ \E w \in t.hotwords[p] :
        \/ Within(w, h.at[1] - Pattern[p].hotwordWindow, h.at[1])
        \/ Within(w, h.at[2], h.at[2] + Pattern[p].hotwordWindow)

Concerned(s, p) == {x \in s.exclusions : p \in Exception[x].appliesTo}

Suppressed(s, p, h) ==
    \E x \in Concerned(s, p) :
        /\ Exception[x].kind = "exact" \/ (Exception[x].kind = "regex" /\ Exception[x].suppress)
        /\ h.value \in Exception[x].values

\* The first place of the value in the window is cut out of it.
WordNear(t, x, h) ==
    LET first == h.at[1] - Exception[x].window
        end == h.at[2] + Exception[x].window
        places == {g.at : g \in {e \in UNION {t.hits[q] : q \in Rule} :
                                    e.value = h.value /\ Within(e.at, first, end)}}
    IN  \E w \in t.words[x], cut \in places :
            /\ Within(w, first, end)
            /\ \A a \in places : cut[1] <= a[1]
            /\ w[2] <= cut[1] \/ cut[2] <= w[1]

Penalised(s, t, p, h) ==
    \E x \in Concerned(s, p) :
        \/ Exception[x].kind = "proximity" /\ WordNear(t, x, h)
        \/ Exception[x].kind = "regex" /\ ~Exception[x].suppress /\ h.value \in Exception[x].values

-----------------------------------------------------------------------------
(* ScoreMatch and ScoreBiasFromContext                                     *)

multiMatchCap == 5

Base(p) == IF Pattern[p].weight <= 0 THEN 1 ELSE Pattern[p].weight
HotwordScore(w, p) == IF Pattern[p].hotwordBoost = 0 THEN w.hotwordBoost ELSE Pattern[p].hotwordBoost

EntropyScore(w, p, h) ==
    IF Pattern[p].entropyMin = 0 THEN 0
    ELSE IF Entropy[h.value] >= Pattern[p].entropyMin THEN w.entropyBoost ELSE w.entropyPenalty

\* n is the number of p's matches, the allowed ones included.
RepeatScore(w, n) ==
    IF n <= 1 THEN 0 ELSE w.multiMatchBoost * (IF n - 1 > multiMatchCap THEN multiMatchCap ELSE n - 1)

Score(s, t, p, h, n) ==
    Base(p) + (IF HotwordNear(t, p, h) THEN HotwordScore(s.weights, p) ELSE 0)
            + EntropyScore(s.weights, p, h) + RepeatScore(s.weights, n)
            + (IF Penalised(s, t, p, h) THEN s.weights.exclusionPenalty ELSE 0)

DestinationDelta(p, kind) ==
    IF kind = "" THEN 0
    ELSE IF kind \in DOMAIN Pattern[p].bias THEN Pattern[p].bias[kind]
    ELSE IF kind = "code_host" THEN -2 ELSE 0

TestHint == {"test", "fixture", "spec"}

Bias(p, src) ==
    DestinationDelta(p, src.kind)
      + (IF src.element = "network_body" THEN 1 ELSE 0)
      - (IF src.fenced /\ Pattern[p].severity \in {"medium", "low"} THEN 1 ELSE 0)
      - (IF src.language \in TestHint THEN 1 ELSE 0)
      - (IF src.kind = "code_host" /\ src.path \in TestHint \cup {"mock"} THEN 1 ELSE 0)

-----------------------------------------------------------------------------
(* evaluatePattern and the rest of scanImpl                                *)

Bar(s, p) == s.bars[IF Pattern[p].severity \in Severity THEN Pattern[p].severity ELSE "low"]

Eligible(s, p, M) ==
    {h \in M : h.value \notin Cleared \cup s.blessed /\ ~Suppressed(s, p, h)}

\* Mutant: the lowest score is taken.
AllReach(s, t, src, p, M) ==
    /\ Eligible(s, p, M) # {}
    /\ \A h \in Eligible(s, p, M) : Score(s, t, p, h, Cardinality(M)) + Bias(p, src) >= Bar(s, p)

\* The best score of a counted match reaches the threshold if one of them does.
Reaches(s, t, src, p, M) ==
    \E h \in Eligible(s, p, M) : Score(s, t, p, h, Cardinality(M)) + Bias(p, src) >= Bar(s, p)

Blocks(s, t, src, p, M) ==
    /\ Cardinality(M) >= Pattern[p].minMatches
    /\ Pattern[p].requireHotword => \E h \in Eligible(s, p, M) : HotwordNear(t, p, h)
    /\ Reaches(s, t, src, p, M)

\* The allowlist and the thresholds are asked when the scan judges.
Judged == [with EXCEPT !.bars = live.bars, !.blessed = live.blessed]

Judges ==
    /\ phase = "judge"
    /\ phase' = "idle"
    /\ with' = Judged
    /\ blocked' = \E p \in Rule : Blocks(Judged, text, page, p, matches[p])
    /\ \/ passed' = passed
       \/ ~blocked' /\ passed' = {Judged}
    /\ UNCHANGED <<text, page, live, edits, from, candidates, matches>>

MatchNext ==
    \/ \E b \in Bundle : RebuildRules(b)
    \/ \E off \in SUBSET CategoryName : SetDisabledCategories(off)
    \/ \E n \in LargeFrom : SetLargeContentThreshold(n)
    \/ \E w \in Signals : SetWeights(w)
    \/ \E b \in Bars : SetBars(b)
    \/ \E v \in Value : Bless(v)
    \/ \E v \in Value : Unbless(v)
    \/ MatchBegins
    \/ \E p \in Prefixed : Sweeps(p)
    \/ Filters
    \/ Validates
    \/ Judges

MatchSpec == MatchInit /\ [][MatchNext]_matchVars

-----------------------------------------------------------------------------
(* Properties                                                              *)

\* What the prefix scan and the windows may not miss: a hit of a pattern
\* without prefix, any hit if the text is short, and else one with an
\* occurrence of the prefix near, whatever other occurrences the search for
\* it passed over.  An occurrence passed over starts inside of one that was
\* taken, up to a prefix's length before it.
Reachable(t, p, h) ==
    \/ Pattern[p].prefix = 0
    \/ /\ t.occurs[p] # {}
       /\ \/ t.size <= 2 * Window
          \/ \E o \in t.occurs[p] :
                o - Window <= h.at[1] /\ h.at[2] <= o + Window - Pattern[p].prefix + 1

\* The prefix scan only saves work: when a scan comes to judge, it has every
\* such hit of every pattern that is admitted, for ValidateCandidates drops
\* candidates of one pattern only after their windows were searched.
MatchesComplete ==
    phase = "judge" =>
        \A p \in Rule : Admits(with, text, p) =>
            \A h \in text.hits[p] : Reachable(text, p, h) => h \in matches[p]

\* s lets through what t does, or more.
Lenient(s, t) ==
    /\ s.rules \subseteq t.rules
    /\ t.off \subseteq s.off
    /\ s.large <= t.large
    /\ t.blessed \subseteq s.blessed
    /\ s.weights = t.weights
    /\ \A l \in Severity : s.bars[l] >= t.bars[l]
    /\ IF t.weights.exclusionPenalty <= 0
       THEN t.exclusions \subseteq s.exclusions
       ELSE t.exclusions = s.exclusions

\* Allowing a value, switching a category off, removing a pattern, excluding
\* more or raising a threshold never makes a text blocked that a scan from the
\* same page let go: the matches that are left neither gain in score nor lose
\* the company that counted against them.
LeniencyNeverBlocks ==
    phase = "idle" /\ blocked => \A s \in passed : ~Lenient(with, s)
=============================================================================
