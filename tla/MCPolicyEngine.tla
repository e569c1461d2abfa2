---------------------------- MODULE MCPolicyEngine ----------------------------
(* TLC instance of PolicyEngine: one configured rule file.                   *)
EXTENDS PolicyEngine

CONSTANT RuleFile

MCBundled == <<RuleFile>>
=============================================================================
