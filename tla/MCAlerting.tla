------------------------------ MODULE MCAlerting ------------------------------
(* TLC instances of Alerting: the domain of k1 has a threshold below the   *)
(* detector's 70, that of k2 one above it, that of k3 none.                *)
EXTENDS Alerting

CONSTANTS r1, r2, r3, r4, k1, k2, k3

KeyOfRequest ==
  [r \in {r1, r2, r3, r4} |-> CASE r = r3 -> k2 [] r = r4 -> k3 [] OTHER -> k1]
ScoreOfRequest == [r \in {r1, r2, r3, r4} |-> IF r = r2 THEN 60 ELSE 80]
Configuration ==
  [k \in {k1, k2, k3} |-> CASE k = k1 -> 50 [] k = k2 -> 90 [] OTHER -> NoThreshold]
Log == [t \in {"anomaly", "alert"} |-> IF t = "anomaly" THEN <<r1, r2>> ELSE <<r1, r3, r4>>]
=============================================================================
