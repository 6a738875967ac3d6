------------------------------- MODULE EventBus -------------------------------
(***************************************************************************)
(* services/common/bus.py: the consume loop shared by every Python service *)
(* (EventBus.consume, _consume_batch, _handle, deferred_delivery), run by  *)
(* the members of one consumer group, with the group coordinator, the      *)
(* broker's delivery reports and process crashes as its environment.       *)
(*                                                                         *)
(* A record is a pair (partition, offset).  A member handles a record the  *)
(* moment it is polled; what the handler publishes (and the dead letter,   *)
(* when it raises) sits in the producer's local queue until a delivery     *)
(* report; at the end of the batch the member flushes, then commits once.  *)
(***************************************************************************)
EXTENDS Integers

CONSTANTS Members,      \* processes of the consumer group
          Partitions,   \* partitions of the consumed topics
          LogEnd,       \* LogEnd[p]: number of records of partition p
          Malformed,    \* records that are not a valid JSON envelope
          MaxBatch,     \* EventBus(max_batch = 500)
          MaxFaults,    \* bound on faults and forced rebalances in a behaviour
          NoMember      \* owner of an unassigned partition

ASSUME BusAssumption ==
  /\ LogEnd \in [Partitions -> Nat]
  /\ MaxBatch \in Nat \ {0}
  /\ MaxFaults \in Nat
  /\ NoMember \notin Members

VARIABLES
  \* the group coordinator and the broker
  joined,       \* members of the current generation
  owner,        \* owner[p]: member the coordinator assigned p to
  committed,    \* committed[p]: committed offset, 0 when none (auto.offset.reset = earliest)
  broker,       \* outputs the broker has stored
  \* the members
  pc,           \* where each consume loop is
  assigned,     \* partitions the member believes it owns
  position,     \* position[m][p]: next offset m fetches from p
  polled,       \* messages and errors polled in the current batch
  done,         \* done[m][p]: offset to commit for p after this batch, 0 when none
  queue,        \* outputs of the batch without a delivery report yet
  failed,       \* some output of the batch was reported undelivered
  \* history and bound
  attempts,     \* every handling so far: <<partition, offset, result>>
  returns,      \* returns[p]: times p came back within a batch that had read from it
  faults

brokerVars == <<joined, owner, committed, broker>>
batchVars  == <<polled, done, queue, failed>>
vars == <<brokerVars, pc, assigned, position, batchVars, attempts, returns, faults>>

-----------------------------------------------------------------------------
(* How a handler ends, and what it leaves in the producer's queue.         *)

\* "emit": it returned and published; "drop": it returned and published nothing
\* (out of scope, a sink); "dead": it raised, the original goes to waf.deadletter;
\* "partial": it raised after it had already published.
Results == {"emit", "drop", "dead", "partial"}

Outputs(r) ==
  (IF r \in {"emit", "partial"} THEN {"out"} ELSE {}) \cup
  (IF r \in {"dead", "partial"} THEN {"dlq"} ELSE {})

\* _handle: a record that fails json.loads or validate never reaches the handler.
ResultsOf(p, o) == IF <<p, o>> \in Malformed THEN {"dead"} ELSE Results

Offsets(p) == 0..(LogEnd[p] - 1)

\* The outputs one handling of a record puts in the producer's queue.
Sent(p, o, r) == {<<p, o, x>> : x \in Outputs(r)}

OutputSet == Partitions \X Nat \X {"out", "dlq"}

\* Some handling of the record has every output stored by the broker.
Settled(p, o) ==
  \E r \in Results : /\ <<p, o, r>> \in attempts
                     /\ \A x \in Outputs(r) : <<p, o, x>> \in broker

-----------------------------------------------------------------------------
Init ==
  /\ joined = {}
  /\ owner = [p \in Partitions |-> NoMember]
  /\ committed = [p \in Partitions |-> 0]
  /\ broker = {}
  /\ pc = [m \in Members |-> "down"]
  /\ assigned = [m \in Members |-> {}]
  /\ position = [m \in Members |-> [p \in Partitions |-> 0]]
  /\ polled = [m \in Members |-> 0]
  /\ done = [m \in Members |-> [p \in Partitions |-> 0]]
  /\ queue = [m \in Members |-> {}]
  /\ failed = [m \in Members |-> FALSE]
  /\ attempts = {}
  /\ returns = [p \in Partitions |-> 0]
  /\ faults = 0

Fault == faults < MaxFaults /\ faults' = faults + 1

\* The locals of a fresh _consume_batch, with an empty producer queue.
FreshBatch(m) ==
  /\ polled' = [polled EXCEPT ![m] = 0]
  /\ done' = [done EXCEPT ![m] = [p \in Partitions |-> 0]]
  /\ queue' = [queue EXCEPT ![m] = {}]
  /\ failed' = [failed EXCEPT ![m] = FALSE]

\* The coordinator forgets m: its partitions are free for the others.
Release(m) ==
  /\ joined' = joined \ {m}
  /\ owner' = [p \in Partitions |-> IF owner[p] = m THEN NoMember ELSE owner[p]]

\* The process is gone.  Some of what was still in flight may reach the broker.
Die(m) ==
  /\ pc' = [pc EXCEPT ![m] = "down"]
  /\ assigned' = [assigned EXCEPT ![m] = {}]
  /\ \E late \in SUBSET queue[m] : broker' = broker \cup late
  /\ FreshBatch(m)
  /\ UNCHANGED <<position, attempts, returns>>

\* An exception leaves consume(): consumer.close() leaves the group, the process exits.
Abort(m) == Die(m) /\ Release(m)

-----------------------------------------------------------------------------
(* The group coordinator and the processes' life.                          *)

\* connect() and subscribe(): Docker starts the process (again); it is in the
\* group once the previous incarnation's session is over.
Start(m) ==
  /\ pc[m] = "down" /\ m \notin joined
  /\ pc' = [pc EXCEPT ![m] = "batch"]
  /\ joined' = joined \cup {m}
  /\ UNCHANGED <<owner, committed, broker, assigned, position, batchVars, attempts, returns,
                 faults>>

\* A partition nobody owns goes to a member, which resumes at the committed offset.
\* Assignments are delivered inside poll().
Assign(m, p) ==
  /\ pc[m] = "batch" /\ m \in joined
  /\ owner[p] = NoMember
  /\ owner' = [owner EXCEPT ![p] = m]
  /\ assigned' = [assigned EXCEPT ![m] = @ \cup {p}]
  /\ position' = [position EXCEPT ![m][p] = committed[p]]
  /\ returns' = [returns EXCEPT ![p] = IF done[m][p] > 0 THEN @ + 1 ELSE 0]
  /\ UNCHANGED <<joined, committed, broker, pc, batchVars, attempts, faults>>

\* Cooperative rebalance: poll() takes a partition from a live member, even in the
\* middle of a batch.  No rebalance callback is registered: the batch keeps what it did.
Revoke(m, p) ==
  /\ pc[m] = "batch" /\ m \in joined
  /\ owner[p] = m
  /\ Fault
  /\ owner' = [owner EXCEPT ![p] = NoMember]
  /\ assigned' = [assigned EXCEPT ![m] = @ \ {p}]
  /\ UNCHANGED <<joined, committed, broker, pc, position, batchVars, attempts, returns>>

\* session.timeout.ms without a heartbeat: a dead member is removed, and so is a
\* live one that stalled, which does not know it yet.
Expire(m) ==
  /\ m \in joined
  /\ IF pc[m] = "down" THEN UNCHANGED faults ELSE Fault
  /\ Release(m)
  /\ UNCHANGED <<committed, broker, pc, assigned, position, batchVars, attempts, returns>>

\* A removed member finds out in poll(): it loses its partitions and joins again.
Rejoin(m) ==
  /\ pc[m] = "batch" /\ m \notin joined
  /\ joined' = joined \cup {m}
  /\ assigned' = [assigned EXCEPT ![m] = {}]
  /\ UNCHANGED <<owner, committed, broker, pc, position, batchVars, attempts, returns, faults>>

\* SIGKILL, OOM, power: nothing is flushed, the coordinator only learns by Expire.
Crash(m) ==
  /\ pc[m] # "down"
  /\ Fault
  /\ Die(m)
  /\ UNCHANGED <<joined, owner, committed>>

-----------------------------------------------------------------------------
(* One batch: poll and handle, flush, commit.                              *)

\* Faulty variant of PollRecord: the offset to commit is one too far.
PollRecordOffByOne(m, p) ==
  /\ pc[m] = "batch" /\ polled[m] < MaxBatch
  /\ p \in assigned[m] /\ position[m][p] < LogEnd[p]
  /\ LET o == position[m][p] IN
     /\ \E r \in ResultsOf(p, o) :
          /\ attempts' = attempts \cup {<<p, o, r>>}
          /\ queue' = [queue EXCEPT ![m] = @ \cup Sent(p, o, r)]
     /\ position' = [position EXCEPT ![m][p] = o + 1]
     /\ done' = [done EXCEPT ![m][p] = o + 2]
  /\ polled' = [polled EXCEPT ![m] = @ + 1]
  /\ UNCHANGED <<brokerVars, pc, assigned, failed, returns, faults>>

\* poll() returns a record of an assigned partition and _handle runs on it at once.
\* done is _next_offsets: the largest handled offset + 1 of each partition.
PollRecord(m, p) ==
  /\ pc[m] = "batch" /\ polled[m] < MaxBatch
  /\ p \in assigned[m] /\ position[m][p] < LogEnd[p]
  /\ LET o == position[m][p] IN
     /\ \E r \in ResultsOf(p, o) :
          /\ attempts' = attempts \cup {<<p, o, r>>}
          /\ queue' = [queue EXCEPT ![m] = @ \cup Sent(p, o, r)]
     /\ position' = [position EXCEPT ![m][p] = o + 1]
     /\ done' = [done EXCEPT ![m][p] = IF @ > o + 1 THEN @ ELSE o + 1]
  /\ polled' = [polled EXCEPT ![m] = @ + 1]
  /\ UNCHANGED <<brokerVars, pc, assigned, failed, returns, faults>>

\* poll() returns an error: a fatal one is raised, any other only counts as polled.
PollError(m) ==
  /\ pc[m] = "batch" /\ polled[m] < MaxBatch
  /\ Fault
  /\ \/ /\ polled' = [polled EXCEPT ![m] = @ + 1]
        /\ UNCHANGED <<brokerVars, pc, assigned, position, done, queue, failed, attempts, returns>>
     \/ Abort(m) /\ UNCHANGED committed

\* Faulty variant of EndBatch: the batch is committed before it is flushed.
EndBatchUnflushed(m) ==
  /\ pc[m] = "batch" /\ polled[m] > 0
  /\ pc' = [pc EXCEPT ![m] = IF \E p \in Partitions : done[m][p] > 0 THEN "commit" ELSE "flush"]
  /\ UNCHANGED <<brokerVars, assigned, position, batchVars, attempts, returns, faults>>

\* The loop ends: limit reached, deadline passed, or poll() returned nothing.  An
\* empty batch flushes nothing and commits nothing, so it is a stuttering step.
EndBatch(m) ==
  /\ pc[m] = "batch" /\ polled[m] > 0
  /\ pc' = [pc EXCEPT ![m] = "flush"]
  /\ UNCHANGED <<brokerVars, assigned, position, batchVars, attempts, returns, faults>>

\* acks=all: the broker stores an output and its delivery report says so.
Deliver(m, x) ==
  /\ broker' = broker \cup {x}
  /\ queue' = [queue EXCEPT ![m] = @ \ {x}]
  /\ UNCHANGED <<joined, owner, committed, pc, assigned, position, polled, done, failed,
                 attempts, returns, faults>>

\* on_delivery(err): reported undelivered, though the broker may have stored it.
Reject(m, x) ==
  /\ Fault
  /\ broker' \in {broker, broker \cup {x}}
  /\ queue' = [queue EXCEPT ![m] = @ \ {x}]
  /\ failed' = [failed EXCEPT ![m] = TRUE]
  /\ UNCHANGED <<joined, owner, committed, pc, assigned, position, polled, done, attempts, returns>>

\* Faulty variant of FlushOk: only flush()'s count is looked at, not the reports' errors.
FlushOkIgnoresReports(m) ==
  /\ pc[m] = "flush"
  /\ queue[m] = {}
  /\ IF \E p \in Partitions : done[m][p] > 0
     THEN pc' = [pc EXCEPT ![m] = "commit"] /\ UNCHANGED batchVars
     ELSE pc' = [pc EXCEPT ![m] = "batch"] /\ FreshBatch(m)
  /\ UNCHANGED <<brokerVars, assigned, position, attempts, returns, faults>>

\* flush() returned 0 and no report was an error.  Only non-fatal errors polled:
\* nothing to commit, the next batch starts.
FlushOk(m) ==
  /\ pc[m] = "flush"
  /\ queue[m] = {} /\ ~failed[m]
  /\ IF \E p \in Partitions : done[m][p] > 0
     THEN pc' = [pc EXCEPT ![m] = "commit"] /\ UNCHANGED batchVars
     ELSE pc' = [pc EXCEPT ![m] = "batch"] /\ FreshBatch(m)
  /\ UNCHANGED <<brokerVars, assigned, position, attempts, returns, faults>>

\* Faulty variant of FlushFails: the consumer thread ends but the process lives on.
FlushFailsSilently(m) ==
  /\ pc[m] = "flush" /\ failed[m]
  /\ pc' = [pc EXCEPT ![m] = "stopped"]
  /\ Release(m)
  /\ UNCHANGED <<committed, broker, assigned, position, batchVars, attempts, returns, faults>>

\* An output was reported undelivered, or flush() timed out with some unconfirmed:
\* DeliveryError, nothing is committed, the process stops.
FlushFails(m) ==
  /\ pc[m] = "flush"
  /\ \/ failed[m] /\ UNCHANGED faults
     \/ queue[m] # {} /\ Fault
  /\ Abort(m)
  /\ UNCHANGED committed

\* Faulty variant of CommitOffsets: one entry for the batch instead of one per partition.
CommitOffsetsOnePartition(m) ==
  LET p == CHOOSE q \in Partitions : done[m][q] > 0 IN
    committed' = [committed EXCEPT ![p] = done[m][p]]

\* commit(offsets = _next_offsets(done), asynchronous = False).
CommitOffsets(m) ==
  committed' = [p \in Partitions |-> IF done[m][p] > 0 THEN done[m][p] ELSE committed[p]]

\* The coordinator takes the commit of any member of the group; it does not check
\* that the member still owns the partitions.
Commit(m) ==
  /\ pc[m] = "commit" /\ m \in joined
  /\ CommitOffsets(m)
  /\ pc' = [pc EXCEPT ![m] = "batch"]
  /\ FreshBatch(m)
  /\ UNCHANGED <<joined, owner, broker, assigned, position, attempts, returns, faults>>

\* commit() raises: a removed member is refused; a member may miss the answer of a
\* commit that was, or was not, applied.
CommitFails(m) ==
  /\ pc[m] = "commit"
  /\ \/ m \notin joined /\ UNCHANGED <<committed, faults>>
     \/ m \in joined /\ Fault /\ (CommitOffsets(m) \/ UNCHANGED committed)
  /\ Abort(m)

-----------------------------------------------------------------------------
MemberStep(m) ==
  \/ Start(m) \/ Expire(m) \/ Rejoin(m) \/ Crash(m)
  \/ \E p \in Partitions : Assign(m, p) \/ Revoke(m, p) \/ PollRecord(m, p)
  \/ PollError(m) \/ EndBatch(m)
  \/ \E x \in queue[m] : Deliver(m, x) \/ Reject(m, x)
  \/ FlushOk(m) \/ FlushFails(m) \/ Commit(m) \/ CommitFails(m)

Next == \E m \in Members : MemberStep(m)

Spec == Init /\ [][Next]_vars

\* Docker restarts a stopped service (restart: unless-stopped), the session of a dead
\* member times out, poll, flush and commit return, and the broker answers.
Fairness ==
  \A m \in Members :
    /\ WF_vars(Start(m)) /\ WF_vars(pc[m] = "down" /\ Expire(m)) /\ WF_vars(Rejoin(m))
    /\ \A p \in Partitions : WF_vars(Assign(m, p)) /\ WF_vars(PollRecord(m, p))
    /\ WF_vars(EndBatch(m)) /\ WF_vars(\E x \in queue[m] : Deliver(m, x))
    /\ WF_vars(FlushOk(m)) /\ WF_vars(failed[m] /\ FlushFails(m))
    /\ WF_vars(Commit(m)) /\ WF_vars(m \notin joined /\ CommitFails(m))

FairSpec == Spec /\ Fairness

-----------------------------------------------------------------------------
(* Properties *)

\* Types and ranges: nothing handled or committed lies past the end of a partition.
TypeOK ==
  /\ joined \in SUBSET Members
  /\ owner \in [Partitions -> Members \cup {NoMember}]
  /\ committed \in [Partitions -> Nat]
  /\ broker \in SUBSET OutputSet
  /\ pc \in [Members -> {"down", "batch", "flush", "commit"}]
  /\ assigned \in [Members -> SUBSET Partitions]
  /\ position \in [Members -> [Partitions -> Nat]]
  /\ polled \in [Members -> 0..MaxBatch]
  /\ done \in [Members -> [Partitions -> Nat]]
  /\ queue \in [Members -> SUBSET OutputSet]
  /\ failed \in [Members -> BOOLEAN]
  /\ attempts \in SUBSET (Partitions \X Nat \X Results)
  /\ returns \in [Partitions -> Nat]
  /\ faults \in Nat
  /\ \A p \in Partitions : /\ committed[p] <= LogEnd[p]
                            /\ \A m \in Members : done[m][p] <= LogEnd[p]

\* At-least-once (contracts/events/README.md: "Chi commit offset sau khi handler xong va moi
\* event handler phat ra da duoc broker xac nhan"): no offset below the committed one is left
\* without a handling whose outputs, dead letter included, the broker has stored; whatever
\* crashes, rejected deliveries, rebalances in mid-batch and commits of ex-owners happened.
CommittedIsSettled ==
  \A p \in Partitions : \A o \in 0..(committed[p] - 1) : Settled(p, o)

(* The inductive strengthening of CommittedIsSettled.                       *)

\* Handled, with every output stored by the broker or still queued by m.
Covered(m, p, o) ==
  \E r \in Results : /\ <<p, o, r>> \in attempts
                     /\ \A x \in Outputs(r) : <<p, o, x>> \in broker \cup queue[m]

\* Unless a delivery failed, everything m would commit, and everything it has read
\* past, is covered.
BatchCovered(m) ==
  ~failed[m] => \A p \in Partitions :
                  /\ \A o \in 0..(done[m][p] - 1) : Covered(m, p, o)
                  /\ p \in assigned[m] => \A o \in 0..(position[m][p] - 1) : Covered(m, p, o)

\* A member about to commit has flushed: nothing is queued and nothing failed.
FlushedBeforeCommit(m) == pc[m] = "commit" => queue[m] = {} /\ ~failed[m]

BusInv ==
  /\ CommittedIsSettled
  /\ \A m \in Members : BatchCovered(m) /\ FlushedBeforeCommit(m)

\* The consume loop, its crashes and its rebalances implement the delivery ledger.
Ledger == INSTANCE DeliveryLedger
            WITH settled <- [p \in Partitions |-> {o \in Offsets(p) : Settled(p, o)}],
                 offset  <- committed

ImplementsLedger == Ledger!LSpec

\* Every record is eventually settled once faults stop, whoever held it when they struck.
EventuallySettled ==
  \A p \in Partitions : \A o \in Offsets(p) : <>Settled(p, o)

\* With one member, a restart replays at most one batch (contracts/events/README.md: messages
\* "da xu ly trong batch do"), and one more for every second time that a partition was taken away
\* and given back within a batch that had read from it: its position goes back to the commit,
\* or, when a batch that does so ends, the commit falls behind its position.
ReplayBounded ==
  \A m \in Members : Members = {m} =>
    \A p \in assigned[m] : position[m][p] <= committed[p] + MaxBatch * (1 + returns[p] \div 2)
=============================================================================
