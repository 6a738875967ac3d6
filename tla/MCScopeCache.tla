---------------------------- MODULE MCScopeCache ----------------------------
(* TLC instance of ScopeCache.                                             *)
EXTENDS ScopeCache

CONSTANTS c1, d1
=============================================================================
