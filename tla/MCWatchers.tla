------------------------------- MODULE MCWatchers -------------------------------
(***************************************************************************)
(* What must come to an end in the background, checked one part at a time: *)
(* traffic without a listener, blocks to be reported, settings tampered    *)
(* with, and actions of the user that wait for a scan.  A behaviour picks  *)
(* one part and takes the steps of that one only, so that the state space  *)
(* is the sum and not the product.                                         *)
(***************************************************************************)
EXTENDS SystemConfig, Alerter, TamperDetector, ScanClient

CONSTANTS w1, e1, c1      \* a network request, a paste and a clipboard

MCSetting == {"proxy"}
MCWebRequest == {w1}
MCEdit == {e1}
MCClip == {c1}
MCSecret == {w1, e1}

VARIABLE watcher

watchersVars == <<watcher, vars, alertVars, tamperVars, scanVars>>

WatchersInit ==
    /\ watcher \in {"settings", "alerter", "tamper", "scans"}
    /\ Init /\ AlertInit /\ TamperInit /\ ScanInit

WatchersNext ==
    /\ UNCHANGED watcher
    /\ \/ watcher = "settings" /\ Next /\ UNCHANGED <<alertVars, tamperVars, scanVars>>
       \/ watcher = "alerter" /\ AlertNext /\ UNCHANGED <<vars, tamperVars, scanVars>>
       \/ watcher = "tamper" /\ TamperNext /\ UNCHANGED <<vars, alertVars, scanVars>>
       \/ watcher = "scans" /\ ScanNext /\ UNCHANGED <<vars, alertVars, tamperVars>>

\* The fairness of the parts, asked of the one that is picked.
WatchersFairness ==
    /\ WF_vars(watcher = "settings" /\ WatchdogLooks)
    /\ WF_vars(watcher = "settings" /\ WatchdogRestores)
    /\ WF_alertVars(watcher = "alerter" /\ AlertChecks)
    /\ WF_alertVars(watcher = "alerter" /\ (AlertAccepted \/ AlertFails))
    /\ WF_tamperVars(watcher = "tamper" /\ LookBegins)
    /\ WF_tamperVars(watcher = "tamper" /\ LookEnds)
    /\ \A x \in Watched : WF_tamperVars(watcher = "tamper" /\ TamperAsks(x))
    /\ \A s \in Scan :
        /\ WF_scanVars(watcher = "scans" /\ BridgeTimesOut(s))
        /\ WF_scanVars(watcher = "scans" /\ NativeTimesOut(s))
        /\ WF_scanVars(watcher = "scans" /\ AgentSilent(s))
        /\ WF_scanVars(watcher = "scans" /\ (AskHost(s) \/ NoHost(s) \/ WorkerMissing(s)))

WatchersSpec == WatchersInit /\ [][WatchersNext]_watchersVars /\ WatchersFairness

\* TamperNoticed, of the part picked: the others do not look.
TamperSeen == watcher = "tamper" => TamperNoticed
=============================================================================
