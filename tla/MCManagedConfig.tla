---------------------------- MODULE MCManagedConfig ----------------------------
(* TLC instance of ManagedConfig: two patterns with equal scores, of which   *)
(* boosted weights raise one; a managed profile that pins the policy and   *)
(* the thresholds, and a free one that pins the weights.                    *)
EXTENDS ManagedConfig

CONSTANTS api1, api2, scan, category, strict, lax, plain, boosted

MCPattern == {1, 2}
MCPatternSet == {{1, 2}, {2}}
MCScore == [x \in MCPattern \X {plain, boosted} |-> IF x = <<2, boosted>> THEN 8 ELSE 6]
MCNeed == [x \in MCPattern \X {strict, lax} |-> IF x[2] = strict THEN 5 ELSE 7]

MCProfiles ==
    {[managed |-> TRUE, policies |-> [c \in {category} |-> "deny"],
      thresholds |-> lax, weights |-> Keep],
     [managed |-> FALSE, policies |-> [c \in {} |-> "deny"],
      thresholds |-> Keep, weights |-> boosted]}

\* A request with another one, with the refresher, and with a scan.
MCCasts == {{api1, api2}, {api1, Main}, {api1, scan}}

\* The refresher alone.
MCRefresher == {{Main}}
=============================================================================
