---------------------------- MODULE DeliveryLedger ----------------------------
(***************************************************************************)
(* What the event bus promises (contracts/events/README.md, "Consume"): an *)
(* offset is committed only after the record was handled and everything    *)
(* its handler published was confirmed by the broker.  The ledger knows    *)
(* two things: which records are settled in that sense, and the committed  *)
(* offset of each partition.  How members, batches, rebalances and crashes *)
(* bring them about is EventBus.                                           *)
(***************************************************************************)
EXTENDS Integers

CONSTANTS Partitions,   \* partitions of the consumed topics
          LogEnd        \* LogEnd[p]: number of records of partition p

VARIABLES settled,      \* settled[p]: offsets handled with every output confirmed
          offset        \* offset[p]: where a restarted consumer resumes

ledgerVars == <<settled, offset>>

Offsets(p) == 0..(LogEnd[p] - 1)

LInit ==
  /\ settled = [p \in Partitions |-> {}]
  /\ offset = [p \in Partitions |-> 0]

\* Outputs are confirmed: records become settled, and stay so.
Settle ==
  /\ settled' \in [Partitions -> SUBSET Nat]
  /\ \A p \in Partitions : settled[p] \subseteq settled'[p] /\ settled'[p] \subseteq Offsets(p)
  /\ UNCHANGED offset

\* A commit moves offsets, backwards too, but never past an unsettled record.
Advance ==
  /\ offset' \in [Partitions -> Nat]
  /\ \A p \in Partitions : 0..(offset'[p] - 1) \subseteq settled[p]
  /\ UNCHANGED settled

LNext == Settle \/ Advance

LSpec == LInit /\ [][LNext]_ledgerVars
=============================================================================
