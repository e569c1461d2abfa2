------------------------------- MODULE MCServices -------------------------------
(***************************************************************************)
(* What requests meet inside the agent, checked one part at a time: these  *)
(* parts share no state, so a behaviour picks one of them and takes the    *)
(* steps of that one only, and the state space is the sum of theirs and    *)
(* not the product.                                                        *)
(***************************************************************************)
EXTENDS MCRequestPath, MCOverrideStore, MCDLPMatch, Canaries, Allowlist, Correlator,
        BlockHistory, RateLimit

CONSTANTS
    q1, q2, q3,       \* requests and recorders
    chat,             \* a destination
    m1, m2,           \* scans
    tab1, tab2, tab3  \* browser tabs

MCRequest == {q1, q2, q3}
MCDestination == {chat}
MCLifetime == {0, 1}
MCPaster == {m1, m2}
MCSession == {tab1, tab2, tab3}

SomeText == CHOOSE t \in MCContent : TRUE
SomeSettings ==
    [rules |-> MCRule, exclusions |-> {}, off |-> {}, large |-> 8, weights |-> CHOOSE w \in MCSignals : TRUE,
     bars |-> CHOOSE b \in MCBars : TRUE, blessed |-> {}]
SomeLimiter == NewLimiter(0, 0, 0)

VARIABLE service

servicesVars == <<service, vars, overrideVars, matchVars, canaryVars, allowVars, corrVars,
                  historyVars, rateVars>>

\* The initial states of a part matter to it alone.
ServicesInit ==
    /\ service \in {"request", "overrides", "matching", "canaries", "allowlist", "correlator",
                    "history", "rate"}
    /\ (service = "request" \/ (policy = "deny" /\ mode = "block")) /\ Init
    /\ (service = "overrides" \/ shipped = <<>>) /\ OverrideInit
    /\ (service = "matching" \/ (text = SomeText /\ page = Anywhere /\ live = SomeSettings)) /\ MatchInit
    /\ (service = "rate" \/ limiter = SomeLimiter) /\ RateInit
    /\ CanaryInit /\ AllowInit /\ CorrInit /\ HistoryInit

ServicesNext ==
    /\ UNCHANGED service
    /\ \/ /\ service = "request" /\ Next
          /\ UNCHANGED <<overrideVars, matchVars, canaryVars, allowVars, corrVars, historyVars, rateVars>>
       \/ /\ service = "overrides" /\ OverrideNext
          /\ UNCHANGED <<vars, matchVars, canaryVars, allowVars, corrVars, historyVars, rateVars>>
       \/ /\ service = "matching" /\ MatchNext
          /\ UNCHANGED <<vars, overrideVars, canaryVars, allowVars, corrVars, historyVars, rateVars>>
       \/ /\ service = "canaries" /\ CanaryNext
          /\ UNCHANGED <<vars, overrideVars, matchVars, allowVars, corrVars, historyVars, rateVars>>
       \/ /\ service = "allowlist" /\ AllowNext
          /\ UNCHANGED <<vars, overrideVars, matchVars, canaryVars, corrVars, historyVars, rateVars>>
       \/ /\ service = "correlator" /\ CorrNext
          /\ UNCHANGED <<vars, overrideVars, matchVars, canaryVars, allowVars, historyVars, rateVars>>
       \/ /\ service = "history" /\ HistoryNext
          /\ UNCHANGED <<vars, overrideVars, matchVars, canaryVars, allowVars, corrVars, rateVars>>
       \/ /\ service = "rate" /\ RateNext
          /\ UNCHANGED <<vars, overrideVars, matchVars, canaryVars, allowVars, corrVars, historyVars>>

ServicesSpec == ServicesInit /\ [][ServicesNext]_servicesVars
=============================================================================
