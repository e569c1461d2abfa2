--------------------------------- MODULE Alerter ---------------------------------
(***************************************************************************)
(* The webhook alerter (alerter/alerter.go): when the number of blocks     *)
(* since the last alert reaches a threshold, it posts that number.         *)
(*                                                                         *)
(* It remembers only the total it has reported up to, and the total is a   *)
(* row that the user may reset; the webhook may take an alert and the      *)
(* answer be lost.                                                         *)
(***************************************************************************)
EXTENDS Integers

CONSTANTS
    ThresholdBlocks,  \* Options.ThresholdBlocks
    MaxBlocks,        \* bound on the blocks in a behaviour
    MaxAlertTrouble   \* bound on failures, resets and restarts

ASSUME AlerterAssumption ==
    /\ ThresholdBlocks \in Nat \ {0}
    /\ MaxBlocks \in Nat /\ MaxAlertTrouble \in Nat

VARIABLES
    blocksTotal,   \* dlp_blocks_total
    alertAt,       \* what the alerter does next
    baseline,      \* Alerter.baseline
    window,        \* the total and the number of blocks of the alert under way
    alertTrouble,
    \* History variables, of one life of the alerter:
    blocked,       \* blocks since it read its baseline
    reported,      \* sum of the alerts that were acknowledged
    unbased        \* the baseline could not be read: it starts at 0

alertVars == <<blocksTotal, alertAt, baseline, window, alertTrouble, blocked, reported, unbased>>

NoWindow == [total |-> 0, blocks |-> 0]

AlertTypeOK ==
    /\ blocksTotal \in 0..MaxBlocks
    /\ alertAt \in {"down", "wait", "post"}
    /\ baseline \in 0..MaxBlocks
    /\ window \in [total : 0..MaxBlocks, blocks : 0..MaxBlocks]
    /\ alertTrouble \in 0..MaxAlertTrouble
    /\ blocked \in 0..MaxBlocks
    /\ reported \in Nat
    /\ unbased \in BOOLEAN

AlertInit ==
    /\ blocksTotal = 0 /\ alertAt = "down" /\ baseline = 0 /\ window = NoWindow
    /\ alertTrouble = 0 /\ blocked = 0 /\ reported = 0 /\ unbased = FALSE

AlertTrouble == alertTrouble < MaxAlertTrouble /\ alertTrouble' = alertTrouble + 1

-----------------------------------------------------------------------------
\* A scan blocks: bumpDLPStats.
BlockCounted ==
    /\ blocksTotal < MaxBlocks /\ blocked < MaxBlocks
    /\ blocksTotal' = blocksTotal + 1
    /\ blocked' = blocked + 1
    /\ UNCHANGED <<alertAt, baseline, window, alertTrouble, reported, unbased>>

\* POST /api/stats/reset.
TotalReset ==
    /\ AlertTrouble
    /\ blocksTotal' = 0
    /\ UNCHANGED <<alertAt, baseline, window, blocked, reported, unbased>>

\* Start: setBaseline, whose failure is logged.
AlertStarts ==
    /\ alertAt = "down"
    /\ alertAt' = "wait"
    /\ \/ baseline' = blocksTotal /\ unbased' = FALSE /\ UNCHANGED alertTrouble
       \/ AlertTrouble /\ baseline' = 0 /\ unbased' = TRUE
    /\ blocked' = 0 /\ reported' = 0
    /\ UNCHANGED <<blocksTotal, window>>

Delta == blocksTotal - baseline

\* Mutant: only a delta that equals the threshold is an alert.
DueExactly == Delta = ThresholdBlocks

AlertDue == Delta >= ThresholdBlocks

\* checkOnce at a tick: the threshold is reached.
AlertChecks ==
    /\ alertAt = "wait"
    /\ AlertDue
    /\ window' = [total |-> blocksTotal, blocks |-> Delta]
    /\ alertAt' = "post"
    /\ UNCHANGED <<blocksTotal, baseline, alertTrouble, blocked, reported, unbased>>

\* Mutant: the baseline moves by the threshold.
MovesByThreshold == baseline + ThresholdBlocks

\* What has been reported up to.
MovedBaseline == window.total

\* fire is answered below 400.
AlertAccepted ==
    /\ alertAt = "post"
    /\ alertAt' = "wait"
    /\ baseline' = MovedBaseline
    /\ reported' = reported + window.blocks
    /\ window' = NoWindow
    /\ UNCHANGED <<blocksTotal, alertTrouble, blocked, unbased>>

\* It is not, whether or not the webhook has taken it: the blocks stay for the
\* next tick.
AlertFails ==
    /\ alertAt = "post"
    /\ AlertTrouble
    /\ alertAt' = "wait"
    /\ window' = NoWindow
    /\ UNCHANGED <<blocksTotal, baseline, blocked, reported, unbased>>

\* The process ends; the total stays.
AlertStops ==
    /\ alertAt # "down"
    /\ AlertTrouble
    /\ alertAt' = "down" /\ window' = NoWindow
    /\ UNCHANGED <<blocksTotal, baseline, blocked, reported, unbased>>

AlertNext ==
    \/ BlockCounted \/ TotalReset
    \/ AlertStarts \/ AlertChecks \/ AlertAccepted \/ AlertFails \/ AlertStops

AlertSpec == AlertInit /\ [][AlertNext]_alertVars

\* The ticker goes on, and a POST ends, one way or the other, after ten seconds
\* at the latest.
AlertFairness == WF_alertVars(AlertChecks) /\ WF_alertVars(AlertAccepted \/ AlertFails)

-----------------------------------------------------------------------------
(* Properties                                                              *)

\* The acknowledged alerts never add up to more blocks than there were since
\* the alerter started, over resets, failures and retries, unless it could not
\* read its baseline.
AlertsAddUp == unbased \/ reported <= blocked

\* Blocks that reach the threshold are part of an acknowledged alert in the
\* end, however many more come in between two ticks, unless the agent ends or
\* the user resets the total first.
BlocksAlerted ==
    (alertAt # "down" /\ Delta >= ThresholdBlocks) ~> (alertAt = "down" \/ Delta < ThresholdBlocks)
=============================================================================
