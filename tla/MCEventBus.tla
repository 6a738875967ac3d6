----------------------------- MODULE MCEventBus -----------------------------
(* TLC instances of EventBus.                                              *)
EXTENDS EventBus, TLC

CONSTANTS m1, m2, p1, p2

TwoRecords == [p \in {p1} |-> 2]
MixedLog == [p \in {p1, p2} |-> IF p = p1 THEN 1 ELSE 4]
SecondMalformed == {<<p1, 1>>}
TailMalformed == {<<p1, 0>>, <<p2, 1>>, <<p2, 2>>, <<p2, 3>>}

MemberSymmetry == Permutations(Members)
=============================================================================
