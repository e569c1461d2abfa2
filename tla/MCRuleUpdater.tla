----------------------------- MODULE MCRuleUpdater -----------------------------
(* A rule file and the pattern file; the release that is shipped and one    *)
(* that differs from it in both files.                                      *)
EXTENDS RuleUpdater

CONSTANTS rules, patterns, b0, b1, v1, v2

MCOrder == <<rules, patterns>>
MCRuleFile == {rules}
MCManifest ==
    {[version |-> v1, sum |-> [f \in {rules, patterns} |-> b0]],
     [version |-> v2, sum |-> [f \in {rules, patterns} |-> b1]]}
=============================================================================
