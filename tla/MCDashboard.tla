----------------------------- MODULE MCDashboard -----------------------------
(* TLC instance of Dashboard: attacks of two types, two requests of which  *)
(* the second is late, and a stage, which is not shown live.               *)
EXTENDS Dashboard

CONSTANTS prompt, slow

Attack(id, type, minute) == [kind |-> "attack.detected", id |-> id, type |-> type, minute |-> minute]
Line(id, minute) == [kind |-> "log.enriched", id |-> id, type |-> "none", minute |-> minute]
Stage(id) == [kind |-> "stage.completed", id |-> id, type |-> "none", minute |-> 0]

Events ==
  << Attack(1, "sqli", 4), Line(2, 3), Attack(3, "xss", 1), Stage(4), Line(5, 2) >>

Requests ==
  { [hours |-> 1, type |-> "any", limit |-> 1, plan |-> "attacks"],
    [hours |-> 1, type |-> "any", limit |-> 0, plan |-> "overview"] }
=============================================================================
