-------------------------------- MODULE DLPScan --------------------------------
(***************************************************************************)
(* A scan by the DLP pipeline and what changes under it: Pipeline,         *)
(* ThresholdEngine and ScanCache of agent/internal/dlp.                    *)
(*                                                                         *)
(* The module follows the scans of one content.  What matching it with a   *)
(* pattern yields is the table Score; a pattern is a number, and the order *)
(* of the numbers is the order of the patterns' names.  A scan copies the  *)
(* weights and the patterns under the pipeline's lock, but every pattern   *)
(* it judges asks the ThresholdEngine for the thresholds of that moment.   *)
(* A setter changes its field, releases the lock and then drops the cached *)
(* verdicts; nothing keeps a scan from answering, and from caching its     *)
(* answer, in between or after.                                            *)
(*                                                                         *)
(* ManagedConfig has the goroutines that call the setters.                 *)
(***************************************************************************)
EXTENDS Integers

CONSTANTS
    Scanner,     \* goroutines that scan
    Setter,      \* goroutines that change the pipeline
    Pattern,     \* the patterns the content matches
    PatternSet,  \* which of them a rule file may contain
    Thresholds,  \* values of dlp.Thresholds
    Weights,     \* values of dlp.ScoreWeights
    Score,       \* Score[p, w]: the score of the content's matches with p
    Need         \* Need[p, t]: the threshold for the severity of p

ASSUME PatternAssumption ==
    /\ Pattern \subseteq Nat \ {0}
    /\ PatternSet \subseteq SUBSET Pattern
    /\ PatternSet # {}
ASSUME ScoreAssumption ==
    /\ Score \in [Pattern \X Weights -> Int]
    /\ Need \in [Pattern \X Thresholds -> Int]

\* ScanResult
Clean == [blocked |-> FALSE, pattern |-> 0, score |-> 0]
Block(p, s) == [blocked |-> TRUE, pattern |-> p, score |-> s]
Result == {Clean} \cup UNION {{Block(p, Score[p, w]) : w \in Weights} : p \in Pattern}
NoEntry == [blocked |-> FALSE, pattern |-> 0, score |-> -1]

VARIABLES
    thresholds,  \* ThresholdEngine.t
    weights,     \* Pipeline.weights
    patterns,    \* Pipeline.patterns, those the content matches
    caching,     \* there is a cache and no allowlist
    cache,       \* the cached verdict of the content
    at,          \* where each scan is
    used,        \* used[s]: the weights s works with
    left,        \* left[s]: the patterns s has still to judge
    best,        \* best[s]: the verdict of s so far
    \* History variables:
    unsettled,   \* goroutines that changed something and have not reset the cache
    crossed,     \* scans during which something was changed
    tainted      \* the cached verdict is of such a scan

settings == <<thresholds, weights, patterns, caching>>
scans == <<at, used, left, best, crossed>>
entry == <<cache, tainted>>
pipeline == <<settings, scans, entry, unsettled>>

ScanTypeOK ==
    /\ thresholds \in Thresholds
    /\ weights \in Weights
    /\ patterns \in PatternSet
    /\ caching \in BOOLEAN
    /\ cache \in Result \cup {NoEntry}
    /\ at \in [Scanner -> {"idle", "lookup", "judge"}]
    /\ used \in [Scanner -> Weights]
    /\ left \in [Scanner -> SUBSET Pattern]
    /\ best \in [Scanner -> Result]
    /\ unsettled \subseteq Setter
    /\ crossed \subseteq Scanner
    /\ tainted \in BOOLEAN

\* A pipeline that has just been built, without verdicts or scans.
Fresh(t, w, a) ==
    /\ thresholds' = t
    /\ weights' = w
    /\ patterns' = a
    /\ cache' = NoEntry
    /\ at' = [s \in Scanner |-> "idle"]
    /\ used' = [s \in Scanner |-> w]
    /\ left' = [s \in Scanner |-> {}]
    /\ best' = [s \in Scanner |-> Clean]
    /\ unsettled' = {}
    /\ crossed' = {}
    /\ tainted' = FALSE

ScanInit(t, w, a) ==
    /\ thresholds = t
    /\ weights = w
    /\ patterns = a
    /\ caching \in BOOLEAN
    /\ cache = NoEntry
    /\ at = [s \in Scanner |-> "idle"]
    /\ used = [s \in Scanner |-> w]
    /\ left = [s \in Scanner |-> {}]
    /\ best = [s \in Scanner |-> Clean]
    /\ unsettled = {}
    /\ crossed = {}
    /\ tainted = FALSE

-----------------------------------------------------------------------------
(* The setters                                                             *)

Changed(p) ==
    /\ unsettled' = unsettled \cup {p}
    /\ crossed' = Scanner

SetThresholds(p, t) ==
    /\ thresholds' = t
    /\ Changed(p)
    /\ UNCHANGED <<weights, patterns, caching, entry, at, used, left, best>>

SetWeights(p, w) ==
    /\ weights' = w
    /\ Changed(p)
    /\ UNCHANGED <<thresholds, patterns, caching, entry, at, used, left, best>>

Rebuild(p, a) ==
    /\ patterns' = a
    /\ Changed(p)
    /\ UNCHANGED <<thresholds, weights, caching, entry, at, used, left, best>>

\* Mutant: the setter leaves the cached verdicts.
KeepCache(p) ==
    /\ unsettled' = unsettled \ {p}
    /\ UNCHANGED <<settings, scans, entry>>

ResetCache(p) ==
    /\ cache' = NoEntry
    /\ tainted' = FALSE
    /\ unsettled' = unsettled \ {p}
    /\ UNCHANGED <<settings, scans>>

-----------------------------------------------------------------------------
(* Pipeline.scanImpl                                                       *)

\* The copies under the read lock.
ScanBegin(s) ==
    /\ at[s] = "idle"
    /\ at' = [at EXCEPT ![s] = "lookup"]
    /\ used' = [used EXCEPT ![s] = weights]
    /\ left' = [left EXCEPT ![s] = patterns]
    /\ best' = [best EXCEPT ![s] = Clean]
    /\ crossed' = crossed \ {s}
    /\ UNCHANGED <<settings, entry, unsettled>>

ScanEnds(s) ==
    /\ at' = [at EXCEPT ![s] = "idle"]
    /\ used' = [used EXCEPT ![s] = weights]
    /\ left' = [left EXCEPT ![s] = {}]
    /\ best' = [best EXCEPT ![s] = Clean]
    /\ crossed' = crossed \ {s}

Hit(s) ==
    /\ at[s] = "lookup"
    /\ caching /\ cache # NoEntry
    /\ ScanEnds(s)
    /\ UNCHANGED <<settings, entry, unsettled>>

Miss(s) ==
    /\ at[s] = "lookup"
    /\ ~(caching /\ cache # NoEntry)
    /\ at' = [at EXCEPT ![s] = "judge"]
    /\ UNCHANGED <<settings, entry, unsettled, used, left, best, crossed>>

\* evaluatePattern
Judge(p, w, t) == IF Score[p, w] >= Need[p, t] THEN Block(p, Score[p, w]) ELSE Clean

\* Mutant: of equal scores the first one judged wins.
PreferFirst(r, b) == r.blocked /\ (b.blocked => r.score > b.score)

\* preferResult
Prefer(r, b) ==
    /\ r.blocked
    /\ b.blocked => \/ r.score > b.score
                    \/ r.score = b.score /\ r.pattern < b.pattern

\* One pattern, in the order of a map or of the workers.
JudgePattern(s, p) ==
    /\ at[s] = "judge"
    /\ p \in left[s]
    /\ LET r == Judge(p, used[s], thresholds) IN
          best' = [best EXCEPT ![s] = IF Prefer(r, @) THEN r ELSE @]
    /\ left' = [left EXCEPT ![s] = @ \ {p}]
    /\ UNCHANGED <<settings, entry, unsettled, at, used, crossed>>

\* The verdict is cached, if it may be, and returned.
Answer(s) ==
    /\ at[s] = "judge"
    /\ left[s] = {}
    /\ cache' = IF caching THEN best[s] ELSE cache
    /\ tainted' = IF caching THEN s \in crossed ELSE tainted
    /\ ScanEnds(s)
    /\ UNCHANGED <<settings, unsettled>>

\* Mutant: the verdicts that block do not age.
ExpireClean ==
    /\ cache = Clean
    /\ cache' = NoEntry
    /\ tainted' = FALSE
    /\ UNCHANGED <<settings, scans, unsettled>>

\* Its lifetime, or its place in the cache, ends.
Expire ==
    /\ cache # NoEntry
    /\ cache' = NoEntry
    /\ tainted' = FALSE
    /\ UNCHANGED <<settings, scans, unsettled>>

ScanStep(s) ==
    Hit(s) \/ Miss(s) \/ Answer(s) \/ \E p \in Pattern : JudgePattern(s, p)

-----------------------------------------------------------------------------
(* Properties                                                              *)

\* What a scan of the content should answer: the block with the highest
\* score, of the first name among equals.
Blocks(a, w, t) == {Block(p, Score[p, w]) : p \in {q \in a : Score[q, w] >= Need[q, t]}}

Verdict(a, w, t) ==
    IF Blocks(a, w, t) = {} THEN Clean
    ELSE CHOOSE r \in Blocks(a, w, t) :
            \A q \in Blocks(a, w, t) :
                r.score > q.score \/ (r.score = q.score /\ r.pattern <= q.pattern)

Current == Verdict(patterns, weights, thresholds)

\* A scan during which nothing was changed answers what the patterns, weights
\* and thresholds in force say, in whatever order the patterns are judged
\* ("the chosen verdict never depends on map-iteration or goroutine scheduling").
ScanSound ==
    \A s \in Scanner :
        (at[s] = "judge" /\ left[s] = {} /\ s \notin crossed) => best[s] = Current

\* A cached verdict is that of the settings in force, except while a setter
\* has still to reset the cache, or when the scan that cached it overlapped a
\* change: no other verdict leaks past a change of the configuration.
CacheCurrent ==
    (cache # NoEntry /\ unsettled = {} /\ ~tainted) => cache = Current
=============================================================================
