--------------------------- MODULE StatsCounterProofs ---------------------------
(***************************************************************************)
(* Proofs about StatsCounter, for any number of events.                    *)
(***************************************************************************)
EXTENDS StatsCounter, TLAPS

-----------------------------------------------------------------------------
(* The inductive invariant.                                                *)

\* Only a Flush between its two steps holds increments, and a process that
\* has ended holds nothing.
InFlight ==
    /\ flusher \in {"wait", "returned"} => delta = 0
    /\ phase = "down" => mem = 0 /\ delta = 0 /\ resetter = "idle" /\ reader = "idle"

\* While a clean Reset runs the row may hold older events, nothing else may.
ResetBound ==
    resetClean => /\ mem + delta <= sinceReset
                  /\ resetter = "idle" => Total <= sinceReset

\* What a reader with the row in hand may rely on.
HalfRead ==
    reader = "half" /\ "reset" \notin overlap =>
        /\ got <= db
        /\ "flush" \notin overlap => startTotal <= got + mem

IInv == TypeOK /\ InFlight /\ ResetBound /\ HalfRead /\ ReadingSound

-----------------------------------------------------------------------------
\* The invariant holds of a fresh process.
LEMMA InitIInv == Init => IInv
<1> SUFFICES ASSUME Init PROVE IInv
  OBVIOUS
<1>1. TypeOK
  BY DEF Init, TypeOK
<1>2. InFlight /\ ResetBound /\ HalfRead /\ ReadingSound
  BY DEF Init, InFlight, ResetBound, HalfRead, ReadingSound
<1> QED BY <1>1, <1>2 DEF IInv

\* An event counted keeps it.
LEMMA CountIInv ==
    ASSUME IInv, Increment \/ BumpDLP
    PROVE  IInv'
<1> USE DEF IInv, Counted, Alive, readHistory
<1>1. CASE Increment
  BY <1>1 DEF Increment, TypeOK, InFlight, ResetBound, HalfRead, ReadingSound, Total
<1>2. CASE BumpDLP
  BY <1>2 DEF BumpDLP, TypeOK, InFlight, ResetBound, HalfRead, ReadingSound, Total
<1> QED BY <1>1, <1>2

\* A Flush keeps it, whatever becomes of its AddStats.
LEMMA FlushIInv ==
    ASSUME IInv, Flush
    PROVE  IInv'
<1> USE DEF IInv, Alive, Seen, readHistory, resetHistory
<1>1. CASE FlushSwap
  BY <1>1 DEF FlushSwap, TypeOK, InFlight, ResetBound, HalfRead, ReadingSound, Total
<1>2. CASE FlushNothing
  BY <1>2 DEF FlushNothing, TypeOK, InFlight, ResetBound, HalfRead, ReadingSound, Total
<1>3. CASE FlushAdd
  BY <1>3 DEF FlushAdd, TypeOK, InFlight, ResetBound, HalfRead, ReadingSound, Total
<1>4. CASE FlushAddFails
  BY <1>4 DEF FlushAddFails, TypeOK, InFlight, ResetBound, HalfRead, ReadingSound, Total
<1> QED BY <1>1, <1>2, <1>3, <1>4 DEF Flush

\* A Reset keeps it, also one that fails half-way.
LEMMA ResetIInv ==
    ASSUME IInv, Reset
    PROVE  IInv'
<1> USE DEF IInv, Alive, Seen, readHistory, resetHistory
<1>1. CASE ResetMemory
  <2>1. resetClean' \in BOOLEAN /\ overlap' \subseteq {"flush", "reset"}
    BY <1>1 DEF ResetMemory, TypeOK
  <2>2. TypeOK'
    BY <1>1, <2>1 DEF ResetMemory, TypeOK
  <2>3. ResetBound'
    <3>1. mem' = 0 /\ sinceReset' = 0 /\ delta' = delta /\ resetter' # "idle"
      BY <1>1 DEF ResetMemory
    <3>2. resetClean' => delta = 0
      BY <1>1 DEF ResetMemory
    <3> QED BY <3>1, <3>2 DEF ResetBound
  <2>4. InFlight' /\ HalfRead' /\ ReadingSound'
    BY <1>1 DEF ResetMemory, TypeOK, InFlight, HalfRead, ReadingSound
  <2> QED BY <2>2, <2>3, <2>4
<1>2. CASE ResetRow
  BY <1>2 DEF ResetRow, TypeOK, InFlight, ResetBound, HalfRead, ReadingSound, Total
<1>3. CASE ResetFails
  BY <1>3 DEF ResetFails, TypeOK, InFlight, ResetBound, HalfRead, ReadingSound, Total
<1> QED BY <1>1, <1>2, <1>3 DEF Reset

\* Reading keeps it.
LEMMA GetStatsIInv ==
    ASSUME IInv, GetStats
    PROVE  IInv'
<1> USE DEF IInv, Alive, readHistory, resetHistory
<1>1. CASE ReadRow
  BY <1>1 DEF ReadRow, TypeOK, InFlight, ResetBound, HalfRead, ReadingSound, Total
<1>2. CASE ReadMemory
  BY <1>2 DEF ReadMemory, TypeOK, InFlight, ResetBound, HalfRead, ReadingSound, Total
<1> QED BY <1>1, <1>2 DEF GetStats

\* Shutting down, dying and starting again keep it.
LEMMA ProcessIInv ==
    ASSUME IInv, Process
    PROVE  IInv'
<1> USE DEF IInv, Alive, readHistory, resetHistory
<1>1. CASE Cancel \/ CloseStore \/ Restart
  <2>1. TypeOK'
    BY <1>1 DEF Cancel, CloseStore, Restart, TypeOK
  <2>2. InFlight' /\ ResetBound' /\ HalfRead' /\ ReadingSound'
    BY <1>1 DEF Cancel, CloseStore, Restart, TypeOK, InFlight, ResetBound, HalfRead,
       ReadingSound, Total
  <2> QED BY <2>1, <2>2
<1>2. CASE Exit \/ Crash
  <2>1. Ended
    BY <1>2 DEF Exit, Crash
  <2>2. TypeOK'
    <3>1. resetClean' \in BOOLEAN
      <4>1. resetClean' = FALSE
        BY <2>1, Zenon DEF Ended
      <4> QED BY <4>1
    <3> QED BY <2>1, <3>1 DEF Ended, TypeOK
  <2>3. InFlight' /\ ResetBound' /\ HalfRead' /\ ReadingSound'
    BY <2>1 DEF Ended, InFlight, ResetBound, HalfRead, ReadingSound
  <2> QED BY <2>2, <2>3
<1> QED BY <1>1, <1>2 DEF Process

\* Every step keeps the invariant.
LEMMA StepIInv == IInv /\ [Next]_vars => IInv'
<1> SUFFICES ASSUME IInv, [Next]_vars PROVE IInv'
  OBVIOUS
<1>1. CASE UNCHANGED vars
  BY <1>1 DEF vars, state, resetHistory, readHistory, IInv, TypeOK,
     InFlight, ResetBound, HalfRead, ReadingSound, Total
<1>2. CASE Next
  BY <1>2, CountIInv, FlushIInv, ResetIInv, GetStatsIInv, ProcessIInv DEF Next
<1> QED BY <1>1, <1>2

\* The invariant holds of every behaviour.
LEMMA Invariance == Spec => []IInv
BY InitIInv, StepIInv, PTL DEF Spec

-----------------------------------------------------------------------------
(* The results.                                                            *)

\* Type correctness, without a bound on the state.
THEOREM TypeCorrect == Spec => []TypeOK
<1>1. IInv => TypeOK
  BY DEF IInv
<1> QED BY <1>1, Invariance, PTL

\* A GetStats that no Reset overlaps never over-reports, and one that no Flush
\* overlaps either misses nothing.
THEOREM ReadingsSound == Spec => []ReadingSound
<1>1. IInv => ReadingSound
  BY DEF IInv
<1> QED BY <1>1, Invariance, PTL

\* A clean Reset forgets every event counted before it began.
THEOREM ResetsForget == Spec => []ResetForgets
<1>1. IInv => ResetForgets
  BY DEF IInv, ResetBound, ResetForgets
<1> QED BY <1>1, Invariance, PTL

\* Every step of the counter is a step of the abstract total, or none.
LEMMA StepRefines == IInv /\ [Next]_vars => [Abstract!Next]_(Abstract!vars)
<1> SUFFICES ASSUME IInv, [Next]_vars
             PROVE  Abstract!Next \/ UNCHANGED Abstract!vars
  OBVIOUS
<1> USE DEF IInv, TypeOK, InFlight, Total, Alive
<1>1. CASE UNCHANGED vars
  BY <1>1 DEF vars, state, Abstract!vars
<1>2. CASE Increment \/ BumpDLP
  BY <1>2 DEF Increment, BumpDLP, Counted, Abstract!Next, Abstract!Count
<1>3. CASE Flush
  BY <1>3 DEF Flush, FlushSwap, FlushNothing, FlushAdd, FlushAddFails, Abstract!vars
<1>4. CASE Reset
  BY <1>4 DEF Reset, ResetMemory, ResetRow, ResetFails, Abstract!Next, Abstract!Reset,
     Abstract!Forget
<1>5. CASE GetStats
  BY <1>5 DEF GetStats, ReadRow, ReadMemory, Abstract!vars
<1>6. CASE Cancel \/ CloseStore
  BY <1>6 DEF Cancel, CloseStore, Abstract!vars
<1>7. CASE Restart
  BY <1>7 DEF Restart, Abstract!Next, Abstract!Restart
<1>8. CASE Exit \/ Crash
  BY <1>8 DEF Exit, Crash, Ended, Abstract!Next, Abstract!Stop, Abstract!Forget
<1> QED BY <1>1, <1>2, <1>3, <1>4, <1>5, <1>6, <1>7, <1>8 DEF Next, Process

\* The counter implements the abstract total.
THEOREM Implementation == Spec => ImplementsEventTotal
<1>1. Init => Abstract!Init
  BY DEF Init, Abstract!Init, Total
<1> QED BY <1>1, Invariance, StepRefines, PTL DEF Spec, ImplementsEventTotal, Abstract!Spec
=============================================================================
