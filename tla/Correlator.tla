------------------------------- MODULE Correlator -------------------------------
(***************************************************************************)
(* The correlator of the DLP pipeline (dlp/correlator.go): the tail of the *)
(* last paste of every session, put in front of the next one, so that a    *)
(* secret that is split over two pastes is seen.                           *)
(*                                                                         *)
(* Scans of many sessions share one map.  Each reads the clock, and then   *)
(* waits for the lock.  A text is known by its number in its session; what *)
(* the tail of it holds is data.  In redact mode (dlp/redact.go) a paste   *)
(* that is blocked is scanned twice: the masked copy is the second text.   *)
(***************************************************************************)
EXTENDS Integers, FiniteSets, Functions

CONSTANTS
    Paster,     \* scans under way
    Session,    \* browser tabs
    MaxSess,    \* Correlator.maxSess
    SessTTL,    \* Correlator.ttl
    MaxPaste,   \* bound on the texts scanned, of all sessions together
    MaxClock    \* bound on the clock

ASSUME CorrelatorAssumption ==
    /\ MaxSess \in Nat \ {0} /\ SessTTL \in Nat
    /\ MaxPaste \in Nat /\ MaxClock \in Nat \ {0}
    /\ IsFiniteSet(Session)

NoSession == [tail |-> 0, seen |-> 0]
NoPaste == [at |-> "idle"]

VARIABLES
    sessions,   \* Correlator.sessions: number of the paste whose tail is kept, lastSeen
    clock,
    paste,      \* paste[p]: the scan of p, its time and its combined view
    \* History variables:
    pasted,     \* pasted[s]: number and time of the last paste of s
    since,      \* since[s]: sessions with a paste after it
    latest      \* the latest time under which a scan has held the lock

corrVars == <<sessions, clock, paste, pasted, since, latest>>

\* A scan before and after Combine.  copyOf: the number of the text whose masked
\* copy is scanned, or 0; prior: of the text whose tail was put in front, or 0;
\* due: that of the last text of the session should have been.
Waiting == [at : {"lock"}, session : Session, copyOf : Nat, now : 1..MaxClock]
Combined == [at : {"scan"}, session : Session, copyOf : Nat, number : Nat, prior : Nat,
             due : BOOLEAN]

CorrTypeOK ==
    /\ sessions \in [Session -> [tail : Nat, seen : 0..MaxClock]]
    /\ clock \in 1..MaxClock
    /\ paste \in [Paster -> {NoPaste} \cup Waiting \cup Combined]
    /\ pasted \in [Session -> [tail : Nat, seen : 0..MaxClock]]
    /\ since \in [Session -> SUBSET Session]
    /\ latest \in 0..MaxClock

CorrInit ==
    /\ sessions = [s \in Session |-> NoSession]
    /\ clock = 1
    /\ paste = [p \in Paster |-> NoPaste]
    /\ pasted = [s \in Session |-> NoSession]
    /\ since = [s \in Session |-> {}]
    /\ latest = 0

Newest(m, n) == IF m > n THEN m ELSE n

-----------------------------------------------------------------------------
\* Combine reads the clock before it asks for the lock.
PasteAsks(p, s, copyOf) ==
    /\ paste' = [paste EXCEPT ![p] =
                    [at |-> "lock", session |-> s, copyOf |-> copyOf, now |-> clock]]
    /\ UNCHANGED <<sessions, clock, pasted, since, latest>>

PasteBegins(p) ==
    /\ paste[p] = NoPaste
    /\ \E s \in Session : PasteAsks(p, s, 0)

\* The sessions purgeExpiredLocked leaves.
Alive(now) == {s \in Session : sessions[s] # NoSession /\ sessions[s].seen >= now - SessTTL}

\* Those evictOldestLocked may drop: of equal ones the order of the map decides.
Oldest(S) == {s \in S : \A u \in S : sessions[s].seen <= sessions[u].seen}

\* Mutant: the session that was touched last makes room.
EvictsNewest(S) ==
    IF Cardinality(S) < MaxSess THEN {S}
    ELSE {S \ {s} : s \in {v \in S : \A u \in S : sessions[v].seen >= sessions[u].seen}}

\* What is left of the others when a session joins.
Room(S) == IF Cardinality(S) < MaxSess THEN {S} ELSE {S \ {s} : s \in Oldest(S)}

\* What the correlator is for: the last paste of the session is not too old,
\* and fewer other sessions than it keeps have pasted after it or, by their
\* reading of the clock, no earlier.
Rivals(s) == {u \in Session \ {s} :
                 u \in since[s] \/ (pasted[u] # NoSession /\ pasted[u].seen >= pasted[s].seen)}

Due(s, now) ==
    /\ pasted[s] # NoSession
    /\ pasted[s].seen >= Newest(latest, now) - SessTTL
    /\ Cardinality(Rivals(s)) < MaxSess

\* The texts of all sessions so far.
Scanned == FoldFunction(LAMBDA x, n : x.tail + n, 0, pasted)

\* Correlator.Combine under the lock.
Combine(p) ==
    /\ paste[p].at = "lock"
    /\ LET s == paste[p].session
           now == paste[p].now
           mine == [tail |-> pasted[s].tail + 1, seen |-> now]
           known == s \in Alive(now)
       IN /\ Scanned < MaxPaste
          /\ \E rest \in IF known THEN {Alive(now)} ELSE Room(Alive(now)) :
                sessions' = [u \in Session |-> CASE u = s -> mine
                                                 [] u # s /\ u \in rest -> sessions[u]
                                                 [] OTHER -> NoSession]
          /\ paste' = [paste EXCEPT ![p] =
                [at |-> "scan", session |-> s, copyOf |-> paste[p].copyOf, number |-> mine.tail,
                 prior |-> IF known THEN sessions[s].tail ELSE 0, due |-> Due(s, now)]]
          /\ pasted' = [pasted EXCEPT ![s] = mine]
          /\ since' = [u \in Session |-> IF u = s THEN {} ELSE since[u] \cup {s}]
          /\ latest' = Newest(latest, now)
    /\ UNCHANGED clock

\* Redact: the first scan has blocked, and the masked copy is scanned in the
\* same session.
VerifyBegins(p) ==
    /\ paste[p].at = "scan" /\ paste[p].copyOf = 0
    /\ PasteAsks(p, paste[p].session, paste[p].number)

\* The scan goes on with the combined view.
PasteScanned(p) ==
    /\ paste[p].at = "scan"
    /\ paste' = [paste EXCEPT ![p] = NoPaste]
    /\ UNCHANGED <<sessions, clock, pasted, since, latest>>

CorrTick ==
    /\ clock < MaxClock
    /\ clock' = clock + 1
    /\ UNCHANGED <<sessions, paste, pasted, since, latest>>

CorrNext == (\E p \in Paster : PasteBegins(p) \/ Combine(p) \/ VerifyBegins(p) \/ PasteScanned(p)) \/ CorrTick

CorrSpec == CorrInit /\ [][CorrNext]_corrVars

-----------------------------------------------------------------------------
(* Properties                                                              *)

\* A scan sees the tail of the text of its own session that came just before
\* or none, never one of an older text, and it sees it whenever that text is
\* not too old for any scan so far and fewer than maxSess other sessions have
\* pasted since: sharing the map costs a session nothing.
SplitSecretSeen ==
    \A p \in Paster : paste[p].at = "scan" =>
        LET before == paste[p].number - 1
        IN paste[p].prior \in {0, before} /\ (paste[p].due => paste[p].prior = before)

\* "Verify-pass: the redacted copy must itself be clean": what is put in front
\* of the masked copy is not the text it was made of.
CopyJudgedAlone ==
    \A p \in Paster : (paste[p].at = "scan" /\ paste[p].copyOf # 0) => paste[p].prior # paste[p].copyOf
=============================================================================
