------------------------------ MODULE StatsCounter ------------------------------
(***************************************************************************)
(* The aggregate statistics: stats.Counter (agent/internal/stats), the     *)
(* aggregate_stats row it flushes to (agent/internal/store) and the part   *)
(* of main.run that starts and ends it.                                    *)
(*                                                                         *)
(* The five counters are independent and every operation treats them       *)
(* alike, one atomic instruction for each; the module follows one of them. *)
(* Its events arrive in memory (DNS, tamper) or go straight to the row     *)
(* (DLP).  Flush, GetStats and Reset are not atomic and share no lock.     *)
(***************************************************************************)
EXTENDS Integers

CONSTANT MaxEvents  \* bound on the events of a behaviour

ASSUME MaxEventsAssumption == MaxEvents \in Nat

VARIABLES
    mem,      \* Counter's atomic
    db,       \* the column of aggregate_stats
    dbOpen,   \* the store has not been closed
    phase,    \* main.run: "up", "cancelled" (deferred cancel() has run), "down"
    flusher,  \* the stats-flush goroutine
    delta,    \* what its Flush took from mem and has not given away
    resetter, \* a POST /api/stats/reset: "idle", or between its two steps
    reader,   \* a GetStats: "idle", "half" (row read) or "done"
    got,      \* what it has read so far
    \* History variables:
    counted,  \* the events counted in the whole behaviour
    sinceReset,  \* the events counted since the last Reset began
    resetClean,  \* no Flush was in flight when it began
    startTotal, \* the total when the reader began
    endTotal,   \* the total when it finished
    overlap   \* what overlapped the reader: a subset of {"flush", "reset"}

state == <<mem, db, dbOpen, phase, flusher, delta, resetter, reader, got>>
resetHistory == <<sinceReset, resetClean>>
readHistory == <<startTotal, endTotal, overlap>>
vars == <<state, counted, resetHistory, readHistory>>

Total == mem + db + delta
Alive == phase # "down"

TypeOK ==
    /\ mem \in Nat /\ db \in Nat /\ delta \in Nat /\ got \in Nat
    /\ dbOpen \in BOOLEAN
    /\ phase \in {"up", "cancelled", "down"}
    /\ flusher \in {"wait", "add", "lastAdd", "returned"}
    /\ resetter \in {"idle", "zeroed"}
    /\ reader \in {"idle", "half", "done"}
    /\ counted \in Nat /\ sinceReset \in Nat
    /\ startTotal \in Nat /\ endTotal \in Nat
    /\ resetClean \in BOOLEAN
    /\ overlap \subseteq {"flush", "reset"}

Init ==
    /\ mem = 0 /\ db = 0 /\ delta = 0 /\ got = 0
    /\ dbOpen = TRUE
    /\ phase = "up"
    /\ flusher = "wait" /\ resetter = "idle" /\ reader = "idle"
    /\ counted = 0 /\ sinceReset = 0 /\ startTotal = 0 /\ endTotal = 0
    /\ resetClean = FALSE
    /\ overlap = {}

-----------------------------------------------------------------------------
(* Events                                                                  *)

Counted ==
    /\ Alive
    /\ counted < MaxEvents
    /\ counted' = counted + 1
    /\ sinceReset' = sinceReset + 1
    /\ UNCHANGED <<dbOpen, phase, flusher, delta, resetter, reader, got, resetClean, readHistory>>

\* IncrementDNSQueries and its siblings.
Increment == Counted /\ mem' = mem + 1 /\ UNCHANGED db

\* bumpDLPStats and proxyStats.BumpDLP; a failure is swallowed and counts
\* nothing.
BumpDLP == Counted /\ dbOpen /\ db' = db + 1 /\ UNCHANGED mem

-----------------------------------------------------------------------------
(* Flush, from Run's ticker and once more when the context is done.        *)

Seen(what) == overlap' = IF reader = "half" THEN overlap \cup {what} ELSE overlap

\* The swap.  A tick and the end of the context may be ready together.
FlushSwap ==
    /\ Alive
    /\ flusher = "wait"
    /\ mem # 0
    /\ delta' = mem
    /\ mem' = 0
    /\ flusher' \in {"add"} \cup IF phase = "cancelled" THEN {"lastAdd"} ELSE {}
    /\ Seen("flush")
    /\ UNCHANGED <<db, dbOpen, phase, resetter, reader, got, counted,
                   resetHistory, startTotal, endTotal>>

\* With nothing to add the row is not touched; the last Flush ends the goroutine.
FlushNothing ==
    /\ flusher = "wait"
    /\ phase = "cancelled"
    /\ mem = 0
    /\ flusher' = "returned"
    /\ UNCHANGED <<mem, db, dbOpen, phase, delta, resetter, reader, got, counted, resetHistory, readHistory>>

\* AddStats succeeds.
FlushAdd ==
    /\ Alive
    /\ flusher \in {"add", "lastAdd"}
    /\ dbOpen
    /\ db' = db + delta
    /\ delta' = 0
    /\ flusher' = IF flusher = "add" THEN "wait" ELSE "returned"
    /\ UNCHANGED <<mem, dbOpen, phase, resetter, reader, got, counted,
                   resetHistory, readHistory>>

\* Mutant: the increments are not put back.
FlushAddLosesDelta ==
    /\ Alive
    /\ flusher \in {"add", "lastAdd"}
    /\ delta' = 0
    /\ flusher' = IF flusher = "add" THEN "wait" ELSE "returned"
    /\ UNCHANGED <<mem, db, dbOpen, phase, resetter, reader, got, counted,
                   resetHistory, readHistory>>

\* AddStats fails: the increments go back to memory.  After the last Flush
\* there is no other.
FlushAddFails ==
    /\ Alive
    /\ flusher \in {"add", "lastAdd"}
    /\ mem' = mem + delta
    /\ delta' = 0
    /\ flusher' = IF flusher = "add" THEN "wait" ELSE "returned"
    /\ UNCHANGED <<db, dbOpen, phase, resetter, reader, got, counted,
                   resetHistory, readHistory>>

-----------------------------------------------------------------------------
(* Reset                                                                   *)

\* Mutant: a Reset that leaves the memory to the flusher.
ResetForgetsMemory ==
    /\ Alive
    /\ resetter = "idle"
    /\ resetter' = "zeroed"
    /\ sinceReset' = 0
    /\ resetClean' = (delta = 0)
    /\ Seen("reset")
    /\ UNCHANGED <<mem, db, dbOpen, phase, flusher, delta, reader, got, counted, startTotal, endTotal>>

ResetMemory ==
    /\ Alive
    /\ resetter = "idle"
    /\ mem' = 0
    /\ resetter' = "zeroed"
    /\ sinceReset' = 0
    /\ resetClean' = (delta = 0)
    /\ Seen("reset")
    /\ UNCHANGED <<db, dbOpen, phase, flusher, delta, reader, got, counted, startTotal, endTotal>>

ResetRow ==
    /\ Alive
    /\ resetter = "zeroed"
    /\ dbOpen
    /\ db' = 0
    /\ resetter' = "idle"
    /\ Seen("reset")
    /\ UNCHANGED <<mem, dbOpen, phase, flusher, delta, reader, got, counted, resetHistory, startTotal, endTotal>>

\* ResetStats fails: the request is answered with an error, what was in
\* memory is gone.
ResetFails ==
    /\ Alive
    /\ resetter = "zeroed"
    /\ resetter' = "idle"
    /\ resetClean' = FALSE
    /\ UNCHANGED <<mem, db, dbOpen, phase, flusher, delta, reader, got, counted, sinceReset, readHistory>>

-----------------------------------------------------------------------------
(* GetStats                                                                *)

\* Mutant: the reader takes the memory twice, the row never.
ReadMemoryTwice ==
    /\ Alive
    /\ reader # "half"
    /\ dbOpen
    /\ reader' = "half"
    /\ got' = mem
    /\ startTotal' = Total
    /\ overlap' = (IF delta # 0 THEN {"flush"} ELSE {})
                    \cup (IF resetter # "idle" THEN {"reset"} ELSE {})
    /\ UNCHANGED <<mem, db, dbOpen, phase, flusher, delta, resetter, counted, resetHistory, endTotal>>

ReadRow ==
    /\ Alive
    /\ reader # "half"
    /\ dbOpen
    /\ reader' = "half"
    /\ got' = db
    /\ startTotal' = Total
    /\ overlap' = (IF delta # 0 THEN {"flush"} ELSE {})
                    \cup (IF resetter # "idle" THEN {"reset"} ELSE {})
    /\ UNCHANGED <<mem, db, dbOpen, phase, flusher, delta, resetter, counted, resetHistory, endTotal>>

ReadMemory ==
    /\ Alive
    /\ reader = "half"
    /\ reader' = "done"
    /\ got' = got + mem
    /\ endTotal' = Total
    /\ UNCHANGED <<mem, db, dbOpen, phase, flusher, delta, resetter, counted, resetHistory, startTotal, overlap>>

-----------------------------------------------------------------------------
(* The process.  main.run's deferred calls cancel the context and close    *)
(* the store; nothing waits for the stats-flush goroutine.                 *)

Cancel ==
    /\ phase = "up"
    /\ phase' = "cancelled"
    /\ UNCHANGED <<mem, db, dbOpen, flusher, delta, resetter, reader, got, counted, resetHistory, readHistory>>

CloseStore ==
    /\ phase = "cancelled"
    /\ dbOpen
    /\ dbOpen' = FALSE
    /\ UNCHANGED <<mem, db, phase, flusher, delta, resetter, reader, got, counted, resetHistory, readHistory>>

\* What is in memory ends with the process.
Ended ==
    /\ phase' = "down"
    /\ mem' = 0
    /\ delta' = 0
    /\ resetter' = "idle"
    /\ resetClean' = FALSE
    /\ reader' = "idle"
    /\ UNCHANGED <<db, dbOpen, flusher, got, counted, sinceReset, readHistory>>

Exit == phase = "cancelled" /\ ~dbOpen /\ Ended
Crash == Alive /\ Ended

Restart ==
    /\ phase = "down"
    /\ phase' = "up"
    /\ dbOpen' = TRUE
    /\ flusher' = "wait"
    /\ UNCHANGED <<mem, db, delta, resetter, reader, got, counted,
                   resetHistory, readHistory>>

-----------------------------------------------------------------------------
Flush == FlushSwap \/ FlushNothing \/ FlushAdd \/ FlushAddFails
Reset == ResetMemory \/ ResetRow \/ ResetFails
GetStats == ReadRow \/ ReadMemory
Process == Cancel \/ CloseStore \/ Exit \/ Crash \/ Restart

Next == Increment \/ BumpDLP \/ Flush \/ Reset \/ GetStats \/ Process

Spec == Init /\ [][Next]_vars

-----------------------------------------------------------------------------
(* Properties                                                              *)

\* The counter implements the abstract total: flushing, failing to flush and
\* reading neither lose nor double an event.
Abstract == INSTANCE EventTotal WITH
    total <- Total,
    mode  <- IF phase = "down" THEN "down"
             ELSE IF resetter = "zeroed" THEN "resetting" ELSE "counting"

ImplementsEventTotal == Abstract!Spec

\* GetStats takes no lock.  Unless a Reset overlaps it, its answer never
\* exceeds what has been counted; unless a Flush does either, it misses
\* nothing that was counted before the call.
ReadingSound ==
    reader = "done" /\ "reset" \notin overlap =>
        /\ got <= endTotal
        /\ "flush" \notin overlap => got >= startTotal

\* A Reset that returned leaves only events counted since it began, unless a
\* Flush was in flight at that moment and brings older ones back.
ResetForgets == resetClean /\ resetter = "idle" => Total <= sinceReset
=============================================================================
