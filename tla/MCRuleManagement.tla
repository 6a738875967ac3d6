-------------------------- MODULE MCRuleManagement --------------------------
(* TLC instances of RuleManagement.                                        *)
EXTENDS RuleManagement, TLC

CONSTANTS c1, c2, d1, r1, r2
=============================================================================
