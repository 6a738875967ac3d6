--------------------------- MODULE EventBus_proofs ---------------------------
(***************************************************************************)
(* Proofs about EventBus, for any number of members, partitions, records   *)
(* and faults and any batch size: type correctness, at-least-once          *)
(* (CommittedIsSettled) and the implementation of DeliveryLedger.          *)
(***************************************************************************)
EXTENDS EventBus, TLAPS

USE BusAssumption

-----------------------------------------------------------------------------
(* Type correctness.                                                       *)

\* The initial state is well typed.
LEMMA TypeInit == Init => TypeOK
  BY DEF Init, TypeOK, OutputSet

\* The outputs of a result are "out" and "dlq" only.
LEMMA OutputsType == \A r \in Results : Outputs(r) \subseteq {"out", "dlq"}
  BY DEF Results, Outputs

\* How a record is handled is one of the four results, malformed or not.
LEMMA ResultsOfType == \A p, o : ResultsOf(p, o) \subseteq Results
  BY DEF Results, ResultsOf

\* Releasing and dying keep the types: the helpers every stopping action shares.
LEMMA ReleaseType ==
  ASSUME NEW m \in Members, TypeOK, Release(m)
  PROVE  /\ joined' \in SUBSET Members
         /\ owner' \in [Partitions -> Members \cup {NoMember}]
  BY DEF TypeOK, Release

\* The locals of a fresh batch are well typed, and commit nothing past the end of a log.
LEMMA FreshBatchType ==
  ASSUME NEW m \in Members, TypeOK, FreshBatch(m)
  PROVE  /\ polled' \in [Members -> 0..MaxBatch]
         /\ done' \in [Members -> [Partitions -> Nat]]
         /\ queue' \in [Members -> SUBSET OutputSet]
         /\ failed' \in [Members -> BOOLEAN]
         /\ \A p \in Partitions, n \in Members : done'[n][p] <= LogEnd[p]
  BY DEF TypeOK, FreshBatch

\* A dying member leaves well typed loops, assignments and outputs.
LEMMA DieType ==
  ASSUME NEW m \in Members, TypeOK, Die(m)
  PROVE  /\ pc' \in [Members -> {"down", "batch", "flush", "commit"}]
         /\ assigned' \in [Members -> SUBSET Partitions]
         /\ broker' \in SUBSET OutputSet
         /\ position' \in [Members -> [Partitions -> Nat]]
         /\ attempts' \in SUBSET (Partitions \X Nat \X Results)
         /\ returns' \in [Partitions -> Nat]
  BY DEF TypeOK, Die

\* An aborted or crashed member leaves a well typed state, if the commit it was in
\* and the fault counter are.
LEMMA AbortType ==
  ASSUME NEW m \in Members, TypeOK, Die(m),
         Release(m) \/ UNCHANGED <<joined, owner>>,
         committed' \in [Partitions -> Nat],
         \A p \in Partitions : committed'[p] <= LogEnd[p],
         faults' \in Nat
  PROVE  TypeOK'
<1>1. FreshBatch(m)
  BY DEF Die
<1>2. /\ polled' \in [Members -> 0..MaxBatch]
      /\ done' \in [Members -> [Partitions -> Nat]]
      /\ queue' \in [Members -> SUBSET OutputSet]
      /\ failed' \in [Members -> BOOLEAN]
      /\ \A p \in Partitions, n \in Members : done'[n][p] <= LogEnd[p]
  BY <1>1, FreshBatchType
<1>3. /\ pc' \in [Members -> {"down", "batch", "flush", "commit"}]
      /\ assigned' \in [Members -> SUBSET Partitions]
      /\ broker' \in SUBSET OutputSet
      /\ position' \in [Members -> [Partitions -> Nat]]
      /\ attempts' \in SUBSET (Partitions \X Nat \X Results)
      /\ returns' \in [Partitions -> Nat]
  BY DieType
<1>4. joined' \in SUBSET Members /\ owner' \in [Partitions -> Members \cup {NoMember}]
  BY ReleaseType DEF TypeOK
<1> QED BY <1>2, <1>3, <1>4 DEF TypeOK

\* A commit is well typed and goes past no end of a log.
LEMMA CommitOffsetsType ==
  ASSUME NEW m \in Members, TypeOK, CommitOffsets(m)
  PROVE  /\ committed' \in [Partitions -> Nat]
         /\ \A p \in Partitions : committed'[p] <= LogEnd[p]
  BY DEF TypeOK, CommitOffsets

\* Every step keeps the types.
LEMMA TypeStep == TypeOK /\ [Next]_vars => TypeOK'
<1> SUFFICES ASSUME TypeOK, [Next]_vars PROVE TypeOK'
  OBVIOUS
<1>1. CASE UNCHANGED vars
  BY <1>1 DEF vars, brokerVars, batchVars, TypeOK
<1>2. CASE Next
  <2> PICK m \in Members : MemberStep(m)
    BY <1>2 DEF Next
  <2>1. CASE Start(m)
    BY <2>1 DEF Start, TypeOK, batchVars
  <2>2. CASE Expire(m)
    <3>1. joined' \in SUBSET Members /\ owner' \in [Partitions -> Members \cup {NoMember}]
      BY <2>2, ReleaseType DEF Expire
    <3>2. faults' \in Nat
      BY <2>2 DEF Expire, Fault, TypeOK
    <3> QED BY <2>2, <3>1, <3>2 DEF Expire, TypeOK, batchVars
  <2>3. CASE Rejoin(m)
    BY <2>3 DEF Rejoin, TypeOK, batchVars
  <2>4. CASE Crash(m)
    <3>1. Die(m) /\ UNCHANGED <<joined, owner>>
      BY <2>4 DEF Crash
    <3>2. /\ committed' \in [Partitions -> Nat]
          /\ \A p \in Partitions : committed'[p] <= LogEnd[p]
          /\ faults' \in Nat
      BY <2>4 DEF Crash, Fault, TypeOK
    <3> QED BY <3>1, <3>2, AbortType
  <2>5. ASSUME NEW p \in Partitions, Assign(m, p) PROVE TypeOK'
    BY <2>5 DEF Assign, TypeOK, batchVars
  <2>6. ASSUME NEW p \in Partitions, Revoke(m, p) PROVE TypeOK'
    BY <2>6 DEF Revoke, Fault, TypeOK, batchVars
  <2>7. ASSUME NEW p \in Partitions, PollRecord(m, p) PROVE TypeOK'
    <3> DEFINE o == position[m][p]
    <3>1. o \in Nat /\ o + 1 <= LogEnd[p] /\ LogEnd[p] \in Nat
      BY <2>7 DEF PollRecord, TypeOK
    <3>2. PICK r \in ResultsOf(p, o) :
            /\ attempts' = attempts \cup {<<p, o, r>>}
            /\ queue' = [queue EXCEPT ![m] = @ \cup Sent(p, o, r)]
      BY <2>7 DEF PollRecord
    <3>3. r \in Results /\ Sent(p, o, r) \in SUBSET OutputSet
      BY <3>1, ResultsOfType, OutputsType DEF OutputSet, Sent
    <3>4. attempts' \in SUBSET (Partitions \X Nat \X Results)
      BY <3>1, <3>2, <3>3 DEF TypeOK
    <3>5. queue' \in [Members -> SUBSET OutputSet]
      BY <3>2, <3>3 DEF TypeOK
    <3>6. polled' \in [Members -> 0..MaxBatch] /\ position' \in [Members -> [Partitions -> Nat]]
      BY <2>7, <3>1 DEF PollRecord, TypeOK
    <3>7. /\ done' \in [Members -> [Partitions -> Nat]]
          /\ \A q \in Partitions, n \in Members : done'[n][q] <= LogEnd[q]
      BY <2>7, <3>1 DEF PollRecord, TypeOK
    <3> QED BY <2>7, <3>4, <3>5, <3>6, <3>7 DEF PollRecord, TypeOK, brokerVars
  <2>8. CASE PollError(m)
    <3>1. CASE Abort(m) /\ UNCHANGED committed
      <4>1. Die(m) /\ Release(m)
        BY <3>1 DEF Abort
      <4>2. /\ committed' \in [Partitions -> Nat]
            /\ \A p \in Partitions : committed'[p] <= LogEnd[p]
            /\ faults' \in Nat
        BY <2>8, <3>1 DEF PollError, Fault, TypeOK
      <4> QED BY <4>1, <4>2, AbortType
    <3>2. CASE /\ polled' = [polled EXCEPT ![m] = @ + 1]
               /\ UNCHANGED <<brokerVars, pc, assigned, position, done, queue, failed, attempts, returns>>
      <4>1. polled' \in [Members -> 0..MaxBatch] /\ faults' \in Nat
        BY <2>8, <3>2 DEF PollError, Fault, TypeOK
      <4> QED BY <3>2, <4>1 DEF TypeOK, brokerVars
    <3> QED BY <2>8, <3>1, <3>2 DEF PollError
  <2>9. CASE EndBatch(m)
    BY <2>9 DEF EndBatch, TypeOK, brokerVars, batchVars
  <2>10. ASSUME NEW x \in queue[m], Deliver(m, x) PROVE TypeOK'
    BY <2>10 DEF Deliver, TypeOK
  <2>11. ASSUME NEW x \in queue[m], Reject(m, x) PROVE TypeOK'
    BY <2>11 DEF Reject, Fault, TypeOK
  <2>12. CASE FlushOk(m)
    <3>1. CASE \E p \in Partitions : done[m][p] > 0
      BY <2>12, <3>1 DEF FlushOk, TypeOK, brokerVars, batchVars
    <3>2. CASE ~ \E p \in Partitions : done[m][p] > 0
      BY <2>12, <3>2, FreshBatchType DEF FlushOk, TypeOK, brokerVars
    <3> QED BY <3>1, <3>2
  <2>13. CASE FlushFails(m)
    <3>1. Die(m) /\ Release(m)
      BY <2>13 DEF FlushFails, Abort
    <3>2. /\ committed' \in [Partitions -> Nat]
          /\ \A p \in Partitions : committed'[p] <= LogEnd[p]
          /\ faults' \in Nat
      BY <2>13 DEF FlushFails, Fault, TypeOK
    <3> QED BY <3>1, <3>2, AbortType
  <2>14. CASE Commit(m)
    BY <2>14, FreshBatchType, CommitOffsetsType DEF Commit, TypeOK
  <2>15. CASE CommitFails(m)
    <3>1. Die(m) /\ Release(m)
      BY <2>15 DEF CommitFails, Abort
    <3>2. /\ committed' \in [Partitions -> Nat]
          /\ \A p \in Partitions : committed'[p] <= LogEnd[p]
          /\ faults' \in Nat
      <4>1. CASE CommitOffsets(m)
        <5>1. faults' \in Nat
          BY <2>15 DEF CommitFails, Fault, TypeOK
        <5> QED BY <4>1, <5>1, CommitOffsetsType
      <4>2. CASE UNCHANGED committed
        BY <2>15, <4>2 DEF CommitFails, Fault, TypeOK
      <4> QED BY <2>15, <4>1, <4>2 DEF CommitFails
    <3> QED BY <3>1, <3>2, AbortType
  <2> QED
    BY <2>1, <2>2, <2>3, <2>4, <2>5, <2>6, <2>7, <2>8, <2>9, <2>10, <2>11, <2>12, <2>13,
       <2>14, <2>15 DEF MemberStep
<1> QED BY <1>1, <1>2

\* Every reachable state is well typed; in particular no commit goes past the end of a log.
THEOREM TypeCorrect == Spec => []TypeOK
  BY TypeInit, TypeStep, PTL DEF Spec

-----------------------------------------------------------------------------
(* At-least-once.                                                          *)

\* Handlings and stored outputs are never taken back.
LEMMA Monotone ==
  ASSUME TypeOK, [Next]_vars
  PROVE  attempts \subseteq attempts' /\ broker \subseteq broker'
<1>1. CASE UNCHANGED vars
  BY <1>1 DEF vars, brokerVars
<1>2. CASE Next
  <2> PICK m \in Members : MemberStep(m)
    BY <1>2 DEF Next
  <2>1. Die(m) => attempts \subseteq attempts' /\ broker \subseteq broker'
    BY DEF Die
  <2>2. Start(m) \/ Expire(m) \/ Rejoin(m) \/ Crash(m)
          => attempts \subseteq attempts' /\ broker \subseteq broker'
    BY <2>1 DEF Start, Expire, Rejoin, Crash
  <2>3. ASSUME NEW p \in Partitions, Assign(m, p) \/ Revoke(m, p) \/ PollRecord(m, p)
        PROVE  attempts \subseteq attempts' /\ broker \subseteq broker'
    BY <2>3 DEF Assign, Revoke, PollRecord, brokerVars
  <2>4. ASSUME NEW x \in queue[m], Deliver(m, x) \/ Reject(m, x)
        PROVE  attempts \subseteq attempts' /\ broker \subseteq broker'
    BY <2>4 DEF Deliver, Reject
  <2>5. PollError(m) \/ EndBatch(m) \/ FlushOk(m) \/ FlushFails(m) \/ Commit(m) \/ CommitFails(m)
          => attempts \subseteq attempts' /\ broker \subseteq broker'
    BY <2>1 DEF PollError, EndBatch, FlushOk, FlushFails, Commit, CommitFails, Abort, brokerVars
  <2> QED BY <2>2, <2>3, <2>4, <2>5 DEF MemberStep
<1> QED BY <1>1, <1>2

\* A record once settled stays settled.
LEMMA SettledStable ==
  ASSUME NEW p, NEW o, TypeOK, [Next]_vars, Settled(p, o)
  PROVE  Settled(p, o)'
  BY Monotone DEF Settled

\* Coverage survives as long as no queued output is dropped.
LEMMA CoveredStable ==
  ASSUME NEW m, NEW p, NEW o, Covered(m, p, o),
         attempts \subseteq attempts', broker \cup queue[m] \subseteq broker' \cup queue'[m]
  PROVE  Covered(m, p, o)'
  BY DEF Covered

\* The part of the state that concerns one member and a step of another.
LEMMA OtherMember ==
  ASSUME TypeOK, NEW m \in Members, NEW n \in Members \ {m}, MemberStep(m)
  PROVE  /\ pc'[n] = pc[n] /\ queue'[n] = queue[n] /\ failed'[n] = failed[n]
         /\ done'[n] = done[n] /\ assigned'[n] = assigned[n] /\ position'[n] = position[n]
<1> DEFINE Same == /\ pc'[n] = pc[n] /\ queue'[n] = queue[n] /\ failed'[n] = failed[n]
                   /\ done'[n] = done[n] /\ assigned'[n] = assigned[n]
                   /\ position'[n] = position[n]
<1>1. FreshBatch(m) => /\ queue'[n] = queue[n] /\ failed'[n] = failed[n]
                       /\ done'[n] = done[n]
  BY DEF FreshBatch, TypeOK
<1>2. Die(m) => Same
  BY <1>1 DEF Die, TypeOK
<1>3. Start(m) \/ Expire(m) \/ Rejoin(m) \/ Crash(m) => Same
  BY <1>2 DEF Start, Expire, Rejoin, Crash, TypeOK, batchVars
<1>4. ASSUME NEW p \in Partitions, Assign(m, p) \/ Revoke(m, p) \/ PollRecord(m, p)
      PROVE  Same
  BY <1>4 DEF Assign, Revoke, PollRecord, TypeOK, batchVars
<1>5. ASSUME NEW x \in queue[m], Deliver(m, x) \/ Reject(m, x)
      PROVE  Same
  BY <1>5 DEF Deliver, Reject, TypeOK
<1>6. PollError(m) \/ EndBatch(m) => Same
  BY <1>2 DEF PollError, EndBatch, Abort, TypeOK, batchVars
<1>7. FlushOk(m) \/ FlushFails(m) => Same
  BY <1>1, <1>2 DEF FlushOk, FlushFails, Abort, TypeOK, batchVars
<1>8. Commit(m) \/ CommitFails(m) => Same
  BY <1>1, <1>2 DEF Commit, CommitFails, Abort, TypeOK
<1> QED BY <1>3, <1>4, <1>5, <1>6, <1>7, <1>8 DEF MemberStep

\* A member that is down, or starts a batch, has nothing to cover.
LEMMA DeadMemberCovered ==
  ASSUME NEW m \in Members, TypeOK, Die(m)
  PROVE  BatchCovered(m)' /\ FlushedBeforeCommit(m)'
<1>1. /\ pc'[m] = "down" /\ assigned'[m] = {} /\ ~failed'[m]
      /\ \A p \in Partitions : done'[m][p] = 0
  BY DEF Die, FreshBatch, TypeOK
<1>2. FlushedBeforeCommit(m)'
  BY <1>1 DEF FlushedBeforeCommit
<1>3. BatchCovered(m)'
  BY <1>1 DEF BatchCovered
<1> QED BY <1>2, <1>3

\* A step that keeps m's offsets and flag, and drops no output, keeps m covered.
LEMMA SameOffsetsCovered ==
  ASSUME NEW m \in Members, BatchCovered(m),
         attempts \subseteq attempts', broker \cup queue[m] \subseteq broker' \cup queue'[m],
         failed'[m] = failed[m], done'[m] = done[m], position'[m] = position[m],
         assigned'[m] \subseteq assigned[m]
  PROVE  BatchCovered(m)'
  BY CoveredStable DEF BatchCovered

\* The batch of a flushed member gives way to a fresh one: what was read stays covered.
LEMMA FreshBatchCovered ==
  ASSUME NEW m \in Members, TypeOK, BatchCovered(m), FreshBatch(m),
         queue[m] = {}, ~failed[m], UNCHANGED <<attempts, broker, assigned, position>>
  PROVE  BatchCovered(m)'
<1>1. queue'[m] = {} /\ ~failed'[m] /\ \A p \in Partitions : done'[m][p] = 0
  BY DEF FreshBatch, TypeOK
<1>2. \A p \in Partitions, o \in Nat : Covered(m, p, o) => Covered(m, p, o)'
  BY <1>1 DEF Covered
<1>3. ASSUME NEW p \in Partitions, p \in assigned'[m], NEW o \in 0..(position'[m][p] - 1)
      PROVE  Covered(m, p, o)'
  BY <1>2, <1>3 DEF BatchCovered, TypeOK
<1> QED BY <1>1, <1>3 DEF BatchCovered

\* Polling one record: its own handling covers the offset that is added.
LEMMA PollRecordCovered ==
  ASSUME NEW m \in Members, NEW p \in Partitions, TypeOK, BatchCovered(m), PollRecord(m, p)
  PROVE  BatchCovered(m)'
<1> PICK o \in Nat : o = position[m][p]
  BY DEF TypeOK
<1>1. UNCHANGED <<broker, assigned, failed>>
  BY DEF PollRecord, brokerVars
<1>2. PICK r \in ResultsOf(p, o) :
        /\ attempts' = attempts \cup {<<p, o, r>>}
        /\ queue' = [queue EXCEPT ![m] = @ \cup Sent(p, o, r)]
  BY DEF PollRecord
<1>3. queue'[m] = queue[m] \cup Sent(p, o, r)
  BY <1>2 DEF TypeOK
<1>4. Covered(m, p, o)'
  BY <1>2, <1>3, ResultsOfType DEF Covered, Sent
<1>5. \A q, n : Covered(m, q, n) => Covered(m, q, n)'
  <2>1. attempts \subseteq attempts' /\ broker \cup queue[m] \subseteq broker' \cup queue'[m]
    BY <1>1, <1>2, <1>3
  <2> QED BY <2>1 DEF Covered
<1>6. /\ position'[m] = [position[m] EXCEPT ![p] = o + 1]
      /\ done'[m] = [done[m] EXCEPT ![p] = IF @ > o + 1 THEN @ ELSE o + 1]
  BY DEF PollRecord, TypeOK
<1>7. ASSUME ~failed[m], NEW q \in Partitions, q \in assigned[m],
             NEW n \in 0..(position'[m][q] - 1)
      PROVE  Covered(m, q, n)'
  <2>1. CASE q = p /\ n = o
    BY <2>1, <1>4
  <2>2. CASE ~(q = p /\ n = o)
    <3>1. n \in 0..(position[m][q] - 1)
      <4>1. position'[m][q] = IF q = p THEN o + 1 ELSE position[m][q]
        BY <1>6 DEF TypeOK
      <4> QED BY <1>1, <2>2, <4>1, <1>7
    <3> QED BY <1>5, <1>7, <3>1 DEF BatchCovered
  <2> QED BY <2>1, <2>2
<1>8. ASSUME ~failed[m], NEW q \in Partitions, NEW n \in 0..(done'[m][q] - 1)
      PROVE  Covered(m, q, n)'
  <2>1. CASE n \in 0..(done[m][q] - 1)
    BY <1>5, <1>8, <2>1 DEF BatchCovered
  <2>2. CASE n \notin 0..(done[m][q] - 1)
    <3>1. done[m][q] \in Nat /\ position'[m][p] = o + 1
      BY <1>6 DEF TypeOK
    <3>2. done'[m][q] = IF q = p THEN IF done[m][p] > o + 1 THEN done[m][p] ELSE o + 1
                                 ELSE done[m][q]
      BY <1>6 DEF TypeOK
    <3>3. q = p /\ n \in 0..o
      BY <1>1, <1>8, <2>2, <3>1, <3>2
    <3>4. p \in assigned[m] /\ n \in 0..(position'[m][p] - 1)
      BY <3>1, <3>3, <1>1 DEF PollRecord
    <3> QED BY <1>7, <1>8, <3>3, <3>4
  <2> QED BY <2>1, <2>2
<1> QED BY <1>1, <1>7, <1>8 DEF BatchCovered

\* The inductive invariant holds initially.
LEMMA BusInit == Init => BusInv
  BY DEF Init, BusInv, CommittedIsSettled, BatchCovered, FlushedBeforeCommit

\* Each step of a member keeps that member covered.
LEMMA OwnStepCovered ==
  ASSUME TypeOK, CommittedIsSettled,
         NEW m \in Members, MemberStep(m), BatchCovered(m), FlushedBeforeCommit(m)
  PROVE  BatchCovered(m)' /\ FlushedBeforeCommit(m)'
<1> DEFINE Good == BatchCovered(m)' /\ FlushedBeforeCommit(m)'
<1>1. Die(m) => Good
  BY DeadMemberCovered
<1>2. CASE Start(m) \/ Expire(m)
  BY <1>2 DEF Start, Expire, TypeOK, batchVars, BatchCovered, FlushedBeforeCommit, Covered
<1>3. CASE Rejoin(m)
  BY <1>3 DEF Rejoin, TypeOK, batchVars, BatchCovered, FlushedBeforeCommit, Covered
<1>4. CASE Crash(m) \/ FlushFails(m) \/ CommitFails(m)
  BY <1>1, <1>4 DEF Crash, FlushFails, CommitFails, Abort
<1>5. CASE PollError(m)
  <2>1. CASE Abort(m)
    BY <1>1, <2>1 DEF Abort
  <2>2. CASE ~Abort(m)
    BY <1>5, <2>2 DEF PollError, brokerVars, BatchCovered, FlushedBeforeCommit, Covered
  <2> QED BY <2>1, <2>2
<1>13. ASSUME NEW p \in Partitions, Assign(m, p) PROVE Good
  <2>1. /\ UNCHANGED <<broker, attempts, queue, failed, done, pc>>
        /\ assigned'[m] = assigned[m] \cup {p}
        /\ position'[m] = [position[m] EXCEPT ![p] = committed[p]]
    BY <1>13 DEF Assign, TypeOK, batchVars
  <2>2. \A q, n : Covered(m, q, n) => Covered(m, q, n)'
    BY <2>1 DEF Covered
  <2>3. \A n \in 0..(committed[p] - 1) : Covered(m, p, n)
    BY DEF CommittedIsSettled, Settled, Covered
  <2>4. ASSUME ~failed[m], NEW q \in Partitions, q \in assigned'[m],
               NEW n \in 0..(position'[m][q] - 1)
        PROVE  Covered(m, q, n)
    <3>1. CASE q = p
      BY <2>1, <2>3, <2>4, <3>1 DEF TypeOK
    <3>2. CASE q # p
      BY <2>1, <2>4, <3>2 DEF TypeOK, BatchCovered
    <3> QED BY <3>1, <3>2
  <2>5. BatchCovered(m)'
    BY <2>1, <2>2, <2>4 DEF BatchCovered
  <2> QED BY <1>13, <2>1, <2>5 DEF Assign, FlushedBeforeCommit
<1>6. ASSUME NEW p \in Partitions, Revoke(m, p) PROVE Good
  BY <1>6 DEF Revoke, TypeOK, batchVars, BatchCovered, FlushedBeforeCommit, Covered
<1>7. ASSUME NEW p \in Partitions, PollRecord(m, p) PROVE Good
  BY <1>7, PollRecordCovered DEF PollRecord, FlushedBeforeCommit, TypeOK
<1>8. CASE EndBatch(m)
  BY <1>8 DEF EndBatch, TypeOK, brokerVars, batchVars, BatchCovered, FlushedBeforeCommit, Covered
<1>9. ASSUME NEW x \in queue[m], Deliver(m, x) PROVE Good
  <2>1. queue'[m] = queue[m] \ {x} /\ UNCHANGED <<attempts, failed, done, position, assigned, pc>>
    BY <1>9 DEF Deliver, TypeOK
  <2>2. broker \cup queue[m] \subseteq broker' \cup queue'[m]
    BY <1>9, <2>1 DEF Deliver
  <2>3. BatchCovered(m)'
    BY <2>1, <2>2, SameOffsetsCovered
  <2> QED BY <2>1, <2>3 DEF FlushedBeforeCommit
<1>10. ASSUME NEW x \in queue[m], Reject(m, x) PROVE Good
  BY <1>10 DEF Reject, TypeOK, BatchCovered, FlushedBeforeCommit
<1>11. CASE FlushOk(m)
  <2>1. queue[m] = {} /\ ~failed[m] /\ UNCHANGED <<attempts, broker, assigned, position>>
    BY <1>11 DEF FlushOk, brokerVars
  <2>2. CASE \E p \in Partitions : done[m][p] > 0
    BY <1>11, <2>1, <2>2 DEF FlushOk, batchVars, BatchCovered, FlushedBeforeCommit, Covered
  <2>3. CASE ~ \E p \in Partitions : done[m][p] > 0
    <3>1. FreshBatch(m) /\ pc'[m] = "batch"
      BY <1>11, <2>3 DEF FlushOk, TypeOK
    <3> QED BY <2>1, <3>1, FreshBatchCovered DEF FlushedBeforeCommit
  <2> QED BY <2>2, <2>3
<1>12. CASE Commit(m)
  <2>1. queue[m] = {} /\ ~failed[m]
    BY <1>12 DEF Commit, FlushedBeforeCommit
  <2>2. /\ FreshBatch(m) /\ pc'[m] = "batch"
        /\ UNCHANGED <<attempts, broker, assigned, position>>
    BY <1>12 DEF Commit, TypeOK
  <2> QED BY <2>1, <2>2, FreshBatchCovered DEF FlushedBeforeCommit
<1> QED BY <1>2, <1>3, <1>4, <1>5, <1>6, <1>7, <1>8, <1>9, <1>10, <1>11, <1>12,
           <1>13 DEF MemberStep

\* A commit only covers what its member had flushed.
LEMMA CommitSettled ==
  ASSUME TypeOK, CommittedIsSettled, NEW m \in Members,
         BatchCovered(m), queue[m] = {}, ~failed[m], CommitOffsets(m)
  PROVE  \A p \in Partitions : \A o \in 0..(committed'[p] - 1) : Settled(p, o)
<1> SUFFICES ASSUME NEW p \in Partitions, NEW o \in 0..(committed'[p] - 1) PROVE Settled(p, o)
  OBVIOUS
<1>1. committed'[p] = IF done[m][p] > 0 THEN done[m][p] ELSE committed[p]
  BY DEF CommitOffsets
<1>2. CASE done[m][p] > 0
  <2>1. Covered(m, p, o)
    BY <1>1, <1>2 DEF BatchCovered
  <2> QED BY <2>1 DEF Covered, Settled
<1>3. CASE ~(done[m][p] > 0)
  BY <1>1, <1>3 DEF CommittedIsSettled
<1> QED BY <1>2, <1>3

\* A step changes the committed offsets only from a flushed batch.
LEMMA CommitStep ==
  ASSUME TypeOK, BusInv, [Next]_vars
  PROVE  \/ UNCHANGED committed
         \/ \E m \in Members : /\ queue[m] = {} /\ ~failed[m] /\ CommitOffsets(m)
                               /\ UNCHANGED <<attempts, broker>>
<1>1. CASE UNCHANGED vars
  BY <1>1 DEF vars, brokerVars
<1>2. CASE Next
  <2> PICK m \in Members : MemberStep(m)
    BY <1>2 DEF Next
  <2>1. CASE Commit(m)
    BY <2>1 DEF Commit, BusInv, FlushedBeforeCommit
  <2>2. CASE CommitFails(m)
    <3>1. queue[m] = {} /\ ~failed[m]
      BY <2>2 DEF CommitFails, BusInv, FlushedBeforeCommit
    <3>2. UNCHANGED <<attempts, broker>>
      BY <2>2, <3>1 DEF CommitFails, Abort, Die
    <3> QED BY <2>2, <3>1, <3>2 DEF CommitFails
  <2>3. Start(m) \/ Expire(m) \/ Rejoin(m) \/ Crash(m) => UNCHANGED committed
    BY DEF Start, Expire, Rejoin, Crash
  <2>4. ASSUME NEW p \in Partitions, Assign(m, p) \/ Revoke(m, p) \/ PollRecord(m, p)
        PROVE  UNCHANGED committed
    BY <2>4 DEF Assign, Revoke, PollRecord, brokerVars
  <2>5. ASSUME NEW x \in queue[m], Deliver(m, x) \/ Reject(m, x)
        PROVE  UNCHANGED committed
    BY <2>5 DEF Deliver, Reject
  <2>6. PollError(m) \/ EndBatch(m) \/ FlushOk(m) \/ FlushFails(m) => UNCHANGED committed
    BY DEF PollError, EndBatch, FlushOk, FlushFails, brokerVars
  <2> QED BY <2>1, <2>2, <2>3, <2>4, <2>5, <2>6 DEF MemberStep
<1> QED BY <1>1, <1>2

\* Every step keeps the inductive invariant.
LEMMA BusStep == TypeOK /\ BusInv /\ [Next]_vars => BusInv'
<1> SUFFICES ASSUME TypeOK, BusInv, [Next]_vars PROVE BusInv'
  OBVIOUS
<1>1. \A p \in Partitions : \A o \in 0..(committed'[p] - 1) : Settled(p, o)
  BY CommitStep, CommitSettled DEF BusInv, CommittedIsSettled
<1>2. CommittedIsSettled'
  BY <1>1, SettledStable DEF CommittedIsSettled
<1>3. ASSUME NEW n \in Members PROVE BatchCovered(n)' /\ FlushedBeforeCommit(n)'
  <2>1. CASE UNCHANGED vars
    BY <2>1 DEF vars, brokerVars, batchVars, BusInv, BatchCovered, FlushedBeforeCommit, Covered
  <2>2. CASE Next
    <3> PICK m \in Members : MemberStep(m)
      BY <2>2 DEF Next
    <3>1. CASE m = n
      BY <3>1, OwnStepCovered DEF BusInv
    <3>2. CASE m # n
      <4>1. /\ pc'[n] = pc[n] /\ queue'[n] = queue[n] /\ failed'[n] = failed[n]
            /\ done'[n] = done[n] /\ assigned'[n] = assigned[n]
            /\ position'[n] = position[n]
        BY <3>2, OtherMember
      <4>2. BatchCovered(n)'
        BY <4>1, Monotone, SameOffsetsCovered DEF BusInv
      <4> QED BY <4>1, <4>2 DEF BusInv, FlushedBeforeCommit
    <3> QED BY <3>1, <3>2
  <2> QED BY <2>1, <2>2
<1> QED BY <1>2, <1>3 DEF BusInv

\* The invariant behind at-least-once, with everything it rests on.
THEOREM BusInvariant == Spec => []BusInv
<1>1. Spec => [](TypeOK /\ BusInv)
  BY TypeInit, BusInit, TypeStep, BusStep, PTL DEF Spec
<1> QED BY <1>1, PTL

\* At-least-once, for any group, log and batch size: a committed record was handled and
\* its outputs are stored, whatever crashed, was rejected or was rebalanced on the way.
THEOREM AtLeastOnce == Spec => []CommittedIsSettled
<1>1. BusInv => CommittedIsSettled
  BY DEF BusInv
<1> QED BY <1>1, BusInvariant, PTL

-----------------------------------------------------------------------------
(* The bus implements the delivery ledger.                                 *)

\* An initial state of the bus maps to an initial state of the ledger.
LEMMA LedgerInit == Init => Ledger!LInit
  BY DEF Init, Ledger!LInit, Settled

\* A step of the bus settles records, or moves offsets, or changes nothing the ledger sees.
LEMMA LedgerStep ==
  TypeOK /\ TypeOK' /\ BusInv /\ [Next]_vars => [Ledger!LNext]_(Ledger!ledgerVars)
<1> SUFFICES ASSUME TypeOK, TypeOK', BusInv, [Next]_vars
             PROVE  [Ledger!LNext]_(Ledger!ledgerVars)
  OBVIOUS
<1>1. CASE UNCHANGED committed
  <2>1. \A p \in Partitions : \A o \in Offsets(p) : Settled(p, o) => Settled(p, o)'
    BY SettledStable
  <2>2. Ledger!Settle
    BY <1>1, <2>1 DEF Ledger!Settle, Ledger!Offsets, Offsets
  <2> QED BY <2>2 DEF Ledger!LNext
<1>2. CASE ~ UNCHANGED committed
  <2> PICK m \in Members : /\ queue[m] = {} /\ ~failed[m] /\ CommitOffsets(m)
                           /\ UNCHANGED <<attempts, broker>>
    BY <1>2, CommitStep
  <2>1. \A p \in Partitions : \A o \in 0..(committed'[p] - 1) : Settled(p, o)
    BY CommitSettled DEF BusInv
  <2>2. \A p \in Partitions : committed'[p] \in Nat /\ LogEnd[p] \in Nat /\ committed'[p] <= LogEnd[p]
    BY DEF TypeOK
  <2>3. \A p \in Partitions :
          0..(committed'[p] - 1) \subseteq {o \in Offsets(p) : Settled(p, o)}
    BY <2>1, <2>2 DEF Offsets
  <2>4. \A p, o : Settled(p, o)' = Settled(p, o)
    BY DEF Settled
  <2>5. [p \in Partitions |-> {o \in Offsets(p) : Settled(p, o)'}] =
        [p \in Partitions |-> {o \in Offsets(p) : Settled(p, o)}]
    BY <2>4
  <2>6. Ledger!Advance
    BY <2>3, <2>5 DEF Ledger!Advance, TypeOK
  <2> QED BY <2>6 DEF Ledger!LNext
<1> QED BY <1>1, <1>2

\* The consume loop with its crashes, rejected deliveries and rebalances implements the
\* ledger: records only become settled, commits only name settled records.
THEOREM Refinement == Spec => ImplementsLedger
<1>1. Spec => []TypeOK /\ []BusInv /\ [][Next]_vars
  BY TypeCorrect, BusInvariant, PTL DEF Spec
<1>2. Spec => Ledger!LInit
  BY LedgerInit, PTL DEF Spec
<1> QED BY <1>1, <1>2, LedgerStep, PTL DEF ImplementsLedger, Ledger!LSpec
-----------------------------------------------------------------------------
(* How far a restart goes back.                                            *)

\* How far the position may be ahead of the commit between two batches, after n returns; how
\* far it may be behind is Ahead(n + 1).
Ahead(n) == MaxBatch * (n \div 2)

\* Of the partition p of m: done is what the next commit makes of the committed offset.
ReplayInv(m, p) ==
  /\ p \in assigned[m] =>
       LET next == IF done[m][p] > 0 THEN done[m][p] ELSE committed[p] IN
       /\ position[m][p] <= next + Ahead(returns[p])
       /\ next <= position[m][p] + Ahead(returns[p] + 1)
       /\ position[m][p] <= committed[p] + Ahead(returns[p]) + polled[m]
       /\ committed[p] <= position[m][p] + Ahead(returns[p] + 1)
  /\ done[m][p] > 0 =>
       /\ done[m][p] <= committed[p] + Ahead(returns[p]) + polled[m]
       /\ committed[p] < done[m][p] + Ahead(returns[p] + 1)

\* Each return adds to what may be ahead what may be behind, and a batch to that.
LEMMA AheadFacts ==
  ASSUME NEW n \in Nat
  PROVE  /\ Ahead(n) \in Nat /\ Ahead(0) = 0 /\ Ahead(1) = 0
         /\ Ahead(n) <= Ahead(n + 1) /\ Ahead(n + 2) = Ahead(n) + MaxBatch
         /\ MaxBatch * (1 + n \div 2) = MaxBatch + Ahead(n)
<1> DEFINE h == n \div 2
           i == (n + 1) \div 2
<1>1. h \in Nat /\ i \in Nat /\ h <= i /\ (n + 2) \div 2 = h + 1 /\ 0 \div 2 = 0 /\ 1 \div 2 = 0
  OBVIOUS
<1> HIDE DEF h, i
<1>2. MaxBatch \in Nat
  OBVIOUS
<1>3. MaxBatch * h \in Nat /\ MaxBatch * i \in Nat /\ MaxBatch * (h + 1) = MaxBatch * h + MaxBatch
  BY <1>1, <1>2
<1>4. PICK d \in Nat : i = h + d
  BY <1>1
<1>5. MaxBatch * i = MaxBatch * h + MaxBatch * d /\ MaxBatch * d >= 0
  BY <1>1, <1>2, <1>4
<1>6. /\ Ahead(n) = MaxBatch * h /\ Ahead(n + 1) = MaxBatch * i
      /\ Ahead(n + 2) = MaxBatch * (h + 1) /\ Ahead(0) = MaxBatch * 0 /\ Ahead(1) = MaxBatch * 0
  BY <1>1 DEF Ahead, h, i
<1>7. MaxBatch * (1 + n \div 2) = MaxBatch * h + MaxBatch
  BY <1>1, <1>3 DEF h
<1> QED BY <1>2, <1>3, <1>5, <1>6, <1>7

\* A member that has died has read nothing.
LEMMA ReplayDead ==
  ASSUME TypeOK, NEW m \in Members, NEW p \in Partitions, Die(m)
  PROVE  ReplayInv(m, p)'
<1>1. p \notin assigned'[m] /\ done'[m][p] = 0
  BY DEF Die, FreshBatch, TypeOK
<1> QED BY <1>1 DEF ReplayInv

\* A batch that ends without a commit had read nothing; one that commits makes done the commit.
LEMMA ReplayFresh ==
  ASSUME TypeOK, NEW m \in Members, NEW p \in Partitions, ReplayInv(m, p), FreshBatch(m),
         UNCHANGED <<assigned, position, returns>>,
         committed'[p] = IF done[m][p] > 0 THEN done[m][p] ELSE committed[p]
  PROVE  ReplayInv(m, p)'
<1>1. done'[m][p] = 0 /\ polled'[m] = 0
  BY DEF FreshBatch, TypeOK
<1>2. /\ committed[p] \in Nat /\ position[m][p] \in Nat /\ done[m][p] \in Nat /\ returns[p] \in Nat
      /\ position'[m][p] = position[m][p] /\ assigned'[m] = assigned[m] /\ returns'[p] = returns[p]
  BY DEF TypeOK
<1>3. Ahead(returns[p]) \in Nat
  BY <1>2, AheadFacts
<1> QED BY <1>1, <1>2, <1>3 DEF ReplayInv

\* A record more: done is what comes after it, or what it was.
LEMMA ReplayPoll ==
  ASSUME TypeOK, NEW m \in Members, NEW p \in Partitions, NEW q \in Partitions, ReplayInv(m, p),
         PollRecord(m, q)
  PROVE  ReplayInv(m, p)'
<1>1. /\ committed[p] \in Nat /\ position[m][p] \in Nat /\ done[m][p] \in Nat /\ returns[p] \in Nat
      /\ polled[m] \in Nat
  BY DEF TypeOK
<1>2. /\ Ahead(returns[p]) \in Nat /\ Ahead(returns[p] + 1) \in Nat
      /\ Ahead(returns[p]) <= Ahead(returns[p] + 1)
  <2>1. \A n \in Nat : Ahead(n) \in Nat /\ Ahead(n) <= Ahead(n + 1)
    BY AheadFacts
  <2>2. returns[p] + 1 \in Nat
    BY <1>1
  <2> QED BY <1>1, <2>1, <2>2
<1>3. /\ q \in assigned[m] /\ committed'[p] = committed[p] /\ assigned'[m] = assigned[m]
      /\ returns'[p] = returns[p] /\ polled'[m] = polled[m] + 1
  BY DEF PollRecord, brokerVars, TypeOK
<1>4. CASE p = q
  <2>1. /\ position'[m][p] = position[m][p] + 1
        /\ done'[m][p] = IF done[m][p] > position[m][p] + 1 THEN done[m][p] ELSE position[m][p] + 1
    BY <1>4 DEF PollRecord, TypeOK
  <2>2. p \in assigned[m]
    BY <1>3, <1>4
  <2> QED BY <1>1, <1>2, <1>3, <2>1, <2>2 DEF ReplayInv
<1>5. CASE p # q
  <2>1. position'[m][p] = position[m][p] /\ done'[m][p] = done[m][p]
    BY <1>5 DEF PollRecord, TypeOK
  <2> QED BY <1>1, <1>2, <1>3, <2>1 DEF ReplayInv
<1> QED BY <1>4, <1>5

\* An assignment puts the position at the commit, with what the batch has done left as it is.
LEMMA ReplayAssign ==
  ASSUME TypeOK, NEW m \in Members, NEW p \in Partitions, NEW q \in Partitions, ReplayInv(m, p),
         Assign(m, q)
  PROVE  ReplayInv(m, p)'
<1>1. /\ committed[p] \in Nat /\ position[m][p] \in Nat /\ done[m][p] \in Nat /\ returns[p] \in Nat
      /\ polled[m] \in 0..MaxBatch
  BY DEF TypeOK
<1>2. /\ Ahead(returns[p]) \in Nat /\ Ahead(returns[p] + 1) \in Nat
      /\ Ahead(returns[p]) <= Ahead(returns[p] + 1)
      /\ Ahead(returns[p] + 1) <= Ahead(returns[p] + 2)
      /\ Ahead(returns[p] + 2) = Ahead(returns[p]) + MaxBatch /\ Ahead(0) = 0 /\ Ahead(1) = 0
  <2>1. \A n \in Nat : /\ Ahead(n) \in Nat /\ Ahead(n) <= Ahead(n + 1)
                       /\ Ahead(n + 2) = Ahead(n) + MaxBatch /\ Ahead(0) = 0 /\ Ahead(1) = 0
    BY AheadFacts
  <2>2. returns[p] + 1 \in Nat /\ (returns[p] + 1) + 1 = returns[p] + 2
    BY <1>1
  <2>3. Ahead(returns[p] + 1) <= Ahead((returns[p] + 1) + 1) /\ Ahead(returns[p] + 1) \in Nat
    BY <2>1, <2>2
  <2> QED BY <1>1, <2>1, <2>2, <2>3
<1>3. /\ committed'[p] = committed[p] /\ done'[m][p] = done[m][p] /\ polled'[m] = polled[m]
  BY DEF Assign, batchVars
<1>4. CASE p = q
  <2>1. /\ position'[m][p] = committed[p]
        /\ returns'[p] = IF done[m][p] > 0 THEN returns[p] + 1 ELSE 0
    BY <1>4 DEF Assign, TypeOK
  <2>2. CASE done[m][p] > 0
    <3>1. returns'[p] = returns[p] + 1 /\ Ahead(returns'[p] + 1) = Ahead(returns[p]) + MaxBatch
      BY <1>1, <1>2, <2>1, <2>2
    <3>2. Ahead(returns'[p]) = Ahead(returns[p] + 1)
      BY <3>1
    <3>3. /\ done[m][p] <= committed[p] + Ahead(returns[p]) + polled[m]
          /\ committed[p] < done[m][p] + Ahead(returns[p] + 1)
      BY <2>2 DEF ReplayInv
    <3>4. /\ committed[p] <= done[m][p] + Ahead(returns[p] + 1)
          /\ done[m][p] <= committed[p] + (Ahead(returns[p]) + MaxBatch)
          /\ committed[p] <= committed[p] + Ahead(returns[p] + 1) + polled[m]
          /\ committed[p] <= committed[p] + (Ahead(returns[p]) + MaxBatch)
          /\ done[m][p] <= committed[p] + Ahead(returns[p] + 1) + polled[m]
          /\ committed[p] < done[m][p] + (Ahead(returns[p]) + MaxBatch)
      BY <1>1, <1>2, <3>3
    <3> QED BY <1>3, <2>1, <2>2, <3>1, <3>2, <3>4 DEF ReplayInv
  <2>3. CASE ~(done[m][p] > 0)
    <3>1. Ahead(returns'[p]) = 0 /\ Ahead(returns'[p] + 1) = 0
      BY <1>2, <2>1, <2>3
    <3> QED BY <1>1, <1>3, <2>1, <2>3, <3>1 DEF ReplayInv
  <2> QED BY <2>2, <2>3
<1>5. CASE p # q
  <2>1. /\ position'[m][p] = position[m][p] /\ returns'[p] = returns[p]
        /\ p \in assigned'[m] <=> p \in assigned[m]
    BY <1>5 DEF Assign, TypeOK
  <2> QED BY <1>3, <2>1 DEF ReplayInv
<1> QED BY <1>4, <1>5

\* A step that leaves the batch and the commit as they are, and assigns nothing.
LEMMA ReplaySame ==
  ASSUME NEW m \in Members, NEW p \in Partitions, ReplayInv(m, p), TypeOK,
         UNCHANGED <<committed, position, done, returns>>,
         assigned'[m] \subseteq assigned[m], polled'[m] \in Nat, polled'[m] >= polled[m]
  PROVE  ReplayInv(m, p)'
<1>1. /\ committed[p] \in Nat /\ position[m][p] \in Nat /\ done[m][p] \in Nat /\ returns[p] \in Nat
      /\ polled[m] \in Nat
  BY DEF TypeOK
<1>2. Ahead(returns[p]) \in Nat
  BY <1>1, AheadFacts
<1> QED BY <1>1, <1>2 DEF ReplayInv

\* Every step of the only member keeps the bound of its partitions.
LEMMA ReplayStep ==
  ASSUME NEW m \in Members, Members = {m}, NEW p \in Partitions, TypeOK, ReplayInv(m, p), [Next]_vars
  PROVE  ReplayInv(m, p)'
<1>1. polled[m] \in Nat
  BY DEF TypeOK
<1>2. CASE UNCHANGED vars
  BY <1>1, <1>2, ReplaySame DEF vars, brokerVars, batchVars
<1>3. CASE Next
  <2> MemberStep(m)
    BY <1>3 DEF Next
  <2>1. Die(m) => ReplayInv(m, p)'
    BY ReplayDead
  <2>2. CASE Start(m) \/ Expire(m) \/ EndBatch(m)
    BY <1>1, <2>2, ReplaySame DEF Start, Expire, EndBatch, brokerVars, batchVars
  <2>3. CASE Rejoin(m)
    <3>1. assigned'[m] \subseteq assigned[m]
      BY <2>3 DEF Rejoin, TypeOK
    <3> QED BY <1>1, <2>3, <3>1, ReplaySame DEF Rejoin, batchVars
  <2>4. ASSUME NEW q \in Partitions, Revoke(m, q) PROVE ReplayInv(m, p)'
    <3>1. assigned'[m] \subseteq assigned[m]
      BY <2>4 DEF Revoke, TypeOK
    <3> QED BY <1>1, <2>4, <3>1, ReplaySame DEF Revoke, batchVars
  <2>5. CASE Crash(m) \/ FlushFails(m) \/ CommitFails(m)
    BY <2>1, <2>5 DEF Crash, FlushFails, CommitFails, Abort
  <2>6. CASE PollError(m)
    <3>1. CASE Abort(m)
      BY <2>1, <3>1 DEF Abort
    <3>2. CASE /\ polled' = [polled EXCEPT ![m] = @ + 1]
               /\ UNCHANGED <<brokerVars, pc, assigned, position, done, queue, failed, attempts, returns>>
      <4>1. polled'[m] = polled[m] + 1
        BY <3>2 DEF TypeOK
      <4> QED BY <1>1, <3>2, <4>1, ReplaySame DEF brokerVars
    <3> QED BY <2>6, <3>1, <3>2 DEF PollError
  <2>7. ASSUME NEW x \in queue[m], Deliver(m, x) \/ Reject(m, x) PROVE ReplayInv(m, p)'
    BY <1>1, <2>7, ReplaySame DEF Deliver, Reject
  <2>8. CASE FlushOk(m)
    <3>1. CASE \E q \in Partitions : done[m][q] > 0
      BY <1>1, <2>8, <3>1, ReplaySame DEF FlushOk, brokerVars, batchVars
    <3>2. CASE ~ \E q \in Partitions : done[m][q] > 0
      BY <2>8, <3>2, ReplayFresh DEF FlushOk, brokerVars
    <3> QED BY <3>1, <3>2
  <2>9. CASE Commit(m)
    <3>1. committed'[p] = IF done[m][p] > 0 THEN done[m][p] ELSE committed[p]
      BY <2>9 DEF Commit, CommitOffsets
    <3> QED BY <2>9, <3>1, ReplayFresh DEF Commit
  <2> QED
    BY <2>2, <2>3, <2>4, <2>5, <2>6, <2>7, <2>8, <2>9, ReplayAssign, ReplayPoll DEF MemberStep
<1> QED BY <1>2, <1>3

\* What a restart of the only member of a group replays is bounded by the batch.
THEOREM ReplayIsBounded == Spec => []ReplayBounded
<1> DEFINE Inv == \A m \in Members : Members = {m} => \A p \in Partitions : ReplayInv(m, p)
<1>1. Init => Inv
  <2> SUFFICES ASSUME Init, NEW m \in Members, NEW p \in Partitions PROVE ReplayInv(m, p)
    OBVIOUS
  <2>1. assigned[m] = {} /\ done[m][p] = 0
    BY DEF Init
  <2> QED BY <2>1 DEF ReplayInv
<1>2. TypeOK /\ Inv /\ [Next]_vars => Inv'
  BY ReplayStep
<1>3. TypeOK /\ Inv => ReplayBounded
  <2> SUFFICES ASSUME TypeOK, Inv, NEW m \in Members, Members = {m}, NEW p \in assigned[m]
               PROVE  position[m][p] <= committed[p] + MaxBatch * (1 + returns[p] \div 2)
    BY DEF ReplayBounded
  <2>1. p \in Partitions /\ ReplayInv(m, p)
    BY DEF TypeOK
  <2>2. /\ committed[p] \in Nat /\ position[m][p] \in Nat /\ returns[p] \in Nat
        /\ polled[m] \in 0..MaxBatch
    BY <2>1 DEF TypeOK
  <2>3. position[m][p] <= committed[p] + Ahead(returns[p]) + polled[m]
    BY <2>1 DEF ReplayInv
  <2>4. Ahead(returns[p]) \in Nat /\ MaxBatch * (1 + returns[p] \div 2) = MaxBatch + Ahead(returns[p])
    BY <2>2, AheadFacts
  <2> HIDE DEF Inv
  <2> QED BY <2>2, <2>3, <2>4
<1> QED BY <1>1, <1>2, <1>3, TypeCorrect, PTL DEF Spec
=============================================================================
