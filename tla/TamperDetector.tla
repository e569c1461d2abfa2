----------------------------- MODULE TamperDetector -----------------------------
(***************************************************************************)
(* The tamper detector (tamper/detector.go): a goroutine that looks, once  *)
(* a minute, whether the resolver and the proxy of the operating system    *)
(* still are the agent, and counts every look that finds what the look     *)
(* before had found in order.                                              *)
(*                                                                         *)
(* The two are asked one after the other, while others change them; a      *)
(* question that fails counts as an answer that all is well.               *)
(***************************************************************************)
EXTENDS Naturals

CONSTANTS
    MaxTampering,    \* bound on the changes of the settings
    MaxTamperTrouble \* bound on questions that fail

ASSUME TamperAssumption == MaxTampering \in Nat /\ MaxTamperTrouble \in Nat

Watched == {"dns", "proxy"}

VARIABLES
    pointed,        \* pointed[x]: the setting is the agent
    lookAt,         \* what the detector asks next
    answer,         \* what it has been answered in this look
    lastOK,         \* Status: DNSOK and ProxyOK
    detections,
    tamperings,
    tamperTrouble

tamperVars == <<pointed, lookAt, answer, lastOK, detections, tamperings, tamperTrouble>>

TamperTypeOK ==
    /\ pointed \in [Watched -> BOOLEAN]
    /\ lookAt \in {"idle", "dns", "proxy", "compare"}
    /\ answer \in [Watched -> BOOLEAN]
    /\ lastOK \in [Watched -> BOOLEAN]
    /\ detections \in Nat
    /\ tamperings \in 0..MaxTampering
    /\ tamperTrouble \in 0..MaxTamperTrouble

TamperInit ==
    /\ pointed = [x \in Watched |-> TRUE]
    /\ lookAt = "idle"
    /\ answer = [x \in Watched |-> TRUE] /\ lastOK = [x \in Watched |-> TRUE]
    /\ detections = 0 /\ tamperings = 0 /\ tamperTrouble = 0

-----------------------------------------------------------------------------
\* Somebody takes a setting away; anybody, the agent as well, gives it back.
Tampers(x) ==
    /\ pointed[x]
    /\ tamperings < MaxTampering /\ tamperings' = tamperings + 1
    /\ pointed' = [pointed EXCEPT ![x] = FALSE]
    /\ UNCHANGED <<lookAt, answer, lastOK, detections, tamperTrouble>>

PointsBack(x) ==
    /\ ~pointed[x]
    /\ pointed' = [pointed EXCEPT ![x] = TRUE]
    /\ UNCHANGED <<lookAt, answer, lastOK, detections, tamperings, tamperTrouble>>

\* CheckNow.
LookBegins ==
    /\ lookAt = "idle"
    /\ lookAt' = "dns"
    /\ answer' = [x \in Watched |-> TRUE]
    /\ UNCHANGED <<pointed, lastOK, detections, tamperings, tamperTrouble>>

\* DNSCheck, then ProxyCheck.
TamperAsks(x) ==
    /\ lookAt = x
    /\ lookAt' = IF x = "dns" THEN "proxy" ELSE "compare"
    /\ \/ answer' = [answer EXCEPT ![x] = pointed[x]] /\ UNCHANGED tamperTrouble
       \/ /\ tamperTrouble < MaxTamperTrouble /\ tamperTrouble' = tamperTrouble + 1
          /\ UNCHANGED answer
    /\ UNCHANGED <<pointed, lastOK, detections, tamperings>>

\* Newly changed since the look before.
Tampered == \E x \in Watched : ~answer[x] /\ lastOK[x]

\* Mutant: only a look that counts is remembered.
OnlyTampering == IF Tampered THEN answer ELSE lastOK

Remembered == answer

LookEnds ==
    /\ lookAt = "compare"
    /\ lastOK' = Remembered
    /\ detections' = IF Tampered THEN detections + 1 ELSE detections
    /\ lookAt' = "idle"
    /\ UNCHANGED <<pointed, answer, tamperings, tamperTrouble>>

TamperNext ==
    \/ \E x \in Watched : Tampers(x) \/ PointsBack(x) \/ TamperAsks(x)
    \/ LookBegins \/ LookEnds

TamperSpec == TamperInit /\ [][TamperNext]_tamperVars

\* The ticker goes on and every question ends.
TamperFairness ==
    /\ WF_tamperVars(LookBegins) /\ WF_tamperVars(LookEnds)
    /\ \A x \in Watched : WF_tamperVars(TamperAsks(x))

-----------------------------------------------------------------------------
(* Properties                                                              *)

\* The counter never exaggerates: every detection goes back to a change of a
\* setting of its own, or to a question that failed while the setting was changed
\* and so made an old change look like a new one.
DetectionsWarranted == detections <= tamperings + tamperTrouble

\* A setting that stays changed is noticed, and one that stays right too.
TamperNoticed ==
    \A x \in Watched : \A ok \in BOOLEAN : (pointed[x] = ok) ~> (pointed[x] # ok \/ lastOK[x] = ok)
=============================================================================
