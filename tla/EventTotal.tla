------------------------------- MODULE EventTotal -------------------------------
(***************************************************************************)
(* What the statistics promise of one counter: a total that counts every   *)
(* event once and is lowered by nothing but a Reset and the end of the     *)
(* process.                                                                *)
(***************************************************************************)
EXTENDS Integers

VARIABLES
    total,  \* the events counted and not forgotten
    mode    \* "counting", "resetting" while a Reset runs, or "down"

vars == <<total, mode>>

Init == total = 0 /\ mode = "counting"

Count == mode # "down" /\ total' = total + 1 /\ UNCHANGED mode

Forget == total' \in Nat /\ total' <= total

\* A Reset may forget at its first and its last step, and between them.
Reset ==
    /\ mode # "down" /\ mode' # "down"
    /\ mode = "resetting" \/ mode' = "resetting"
    /\ mode' \in {"counting", "resetting"}
    /\ Forget

Stop == mode # "down" /\ mode' = "down" /\ Forget
Restart == mode = "down" /\ mode' = "counting" /\ UNCHANGED total

Next == Count \/ Reset \/ Stop \/ Restart

Spec == Init /\ [][Next]_vars
=============================================================================
