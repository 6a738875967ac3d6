-------------------------- MODULE MCPipelineState ---------------------------
(* TLC instance of PipelineState: id 1 comes back within the cap, and id 2 *)
(* beyond it.                                                              *)
EXTENDS PipelineState

CONSTANTS k1, k2

Event(i, k) == [id |-> i, pair |-> k]

Records == << Event(1, k1), Event(2, k2), Event(1, k1), Event(3, k1),
              Event(4, k2), Event(2, k2) >>
=============================================================================
