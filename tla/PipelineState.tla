---------------------------- MODULE PipelineState ----------------------------
(***************************************************************************)
(* P3 (services/p3-orchestrator): the consumer thread counts the events of *)
(* each (domain, stage), forgetting ids it has seen long ago; the          *)
(* publisher thread, with a Kafka client of its own, drains what changed   *)
(* every window and publishes one stage.completed for each pair.  The bus  *)
(* is reduced to offsets committed between two handlers and a replay after *)
(* a restart (EventBus); a producer's replay repeats an id further on.     *)
(***************************************************************************)
EXTENDS Integers, Sequences, FiniteSets

CONSTANTS Pairs,        \* (domain, stage)
          Log,          \* the records P3 consumes: [id, pair], in order
          SeenCap,      \* SEEN_EVENT_CAP = 10000
          MaxFaults     \* bound on restarts, failed publishes and failed connects

ASSUME PipelineAssumption ==
  /\ Len(Log) \in Nat /\ DOMAIN Log = 1..Len(Log)
  /\ \A i \in DOMAIN Log : Log[i].pair \in Pairs
  /\ SeenCap \in Nat \ {0}
  /\ MaxFaults \in Nat

VARIABLES
  pos,          \* records handled
  committed,    \* records committed
  counts,       \* _counts
  published,    \* _published
  seen,         \* _seen, oldest first
  lastEvent,    \* _last_event_at: offset of the last event counted, 0 when none
  publisher,    \* the publisher thread: "connecting", "sleeping", "publishing" or "dead"
  changes,      \* changes[k]: events drained and not yet handed to publish()
  \* history of this incarnation, and bound
  counted,      \* ids counted, in order
  reported,     \* reported[k]: events in the stage.completed the broker stored
  lost,         \* lost[k]: events in the stage.completed it did not
  \* history of those before, and bound
  reportedBefore,       \* reportedBefore[k]: events in the stage.completed stored by then
  replayed,     \* replayed[k]: events of k handled and not committed when a process ended
  faults

consumerVars == <<pos, counts, seen, lastEvent, counted>>
pastVars == <<reportedBefore, replayed>>
vars == <<consumerVars, committed, published, publisher, changes, reported, lost, pastVars,
          faults>>

Zero == [k \in Pairs |-> 0]

-----------------------------------------------------------------------------
Init ==
  /\ pos = 0 /\ committed = 0
  /\ counts = Zero /\ published = Zero /\ lastEvent = Zero
  /\ seen = <<>> /\ counted = <<>>
  /\ publisher = "connecting" /\ changes = Zero
  /\ reported = Zero /\ lost = Zero
  /\ reportedBefore = Zero /\ replayed = Zero
  /\ faults = 0

Fault == faults < MaxFaults /\ faults' = faults + 1

-----------------------------------------------------------------------------
(* The consumer thread: PipelineState.record.                              *)

Contains(s, x) == \E i \in DOMAIN s : s[i] = x

\* Faulty variant of Remember: nothing is ever forgotten.
RememberForever(id) == seen' = Append(seen, id)

\* The id goes in, the oldest one out when there are too many.
Remember(id) ==
  LET s == Append(seen, id) IN seen' = IF Len(s) > SeenCap THEN Tail(s) ELSE s

\* The handler of one record, under the lock: counted, or ignored as a duplicate.
Record ==
  /\ pos < Len(Log)
  /\ pos' = pos + 1
  /\ LET id == Log[pos + 1].id
         k == Log[pos + 1].pair IN
     IF Contains(seen, id)
     THEN UNCHANGED <<counts, seen, lastEvent, counted>>
     ELSE /\ Remember(id)
          /\ counts' = [counts EXCEPT ![k] = @ + 1]
          /\ lastEvent' = [lastEvent EXCEPT ![k] = pos + 1]
          /\ counted' = Append(counted, id)
  /\ UNCHANGED <<committed, published, publisher, changes, reported, lost, pastVars, faults>>

\* The end of a batch.
Commit ==
  /\ committed # pos
  /\ committed' = pos
  /\ UNCHANGED <<consumerVars, published, publisher, changes, reported, lost, pastVars, faults>>

EventsOf(k, first, last) == {i \in first..last : Log[i].pair = k}

\* The process ends, in the middle of anything, and is started again with empty memory.
Restart ==
  /\ Fault
  /\ reportedBefore' = [k \in Pairs |-> reportedBefore[k] + reported[k]]
  /\ replayed' = [k \in Pairs |-> replayed[k] + Cardinality(EventsOf(k, committed + 1, pos))]
  /\ pos' = committed
  /\ counts' = Zero /\ published' = Zero /\ lastEvent' = Zero
  /\ seen' = <<>> /\ counted' = <<>>
  /\ publisher' = "connecting" /\ changes' = Zero
  /\ reported' = Zero /\ lost' = Zero
  /\ UNCHANGED committed

-----------------------------------------------------------------------------
(* The publisher thread: run_publisher, _publish_changes.                  *)

\* connect() succeeds; or it gives up after its retries, which ends this thread alone.
Connect ==
  /\ publisher = "connecting"
  /\ \/ publisher' = "sleeping" /\ UNCHANGED faults
     \/ publisher' = "dead" /\ Fault
  /\ UNCHANGED <<consumerVars, committed, published, changes, reported, lost, pastVars>>

\* Faulty variant of Drain: a single new event is not worth a message.
DrainMany ==
  /\ publisher = "sleeping"
  /\ \E k \in Pairs : counts[k] > published[k] + 1
  /\ changes' = [k \in Pairs |-> IF counts[k] > published[k] + 1 THEN counts[k] - published[k] ELSE 0]
  /\ published' = [k \in Pairs |-> IF counts[k] > published[k] + 1 THEN counts[k] ELSE published[k]]
  /\ publisher' = "publishing"
  /\ UNCHANGED <<consumerVars, committed, reported, lost, pastVars, faults>>

\* drain_changes, under the lock, at the end of a window; without changes it does nothing.
Drain ==
  /\ publisher = "sleeping"
  /\ \E k \in Pairs : counts[k] > published[k]
  /\ changes' = [k \in Pairs |-> counts[k] - published[k]]
  /\ published' = counts
  /\ publisher' = "publishing"
  /\ UNCHANGED <<consumerVars, committed, reported, lost, pastVars, faults>>

\* The publish of k is over; after the last one the thread sleeps again.
Published(k) ==
  /\ changes' = [changes EXCEPT ![k] = 0]
  /\ publisher' = IF \A j \in Pairs \ {k} : changes[j] = 0 THEN "sleeping" ELSE publisher

\* Faulty variant of Publish: a failed publish is put back for the next window.
PublishAgain(k) ==
  /\ publisher = "publishing" /\ changes[k] > 0
  /\ Published(k)
  /\ \/ reported' = [reported EXCEPT ![k] = @ + changes[k]] /\ UNCHANGED <<published, lost, faults>>
     \/ /\ Fault
        /\ published' = [published EXCEPT ![k] = @ - changes[k]]
        /\ \/ reported' = [reported EXCEPT ![k] = @ + changes[k]] /\ UNCHANGED lost
           \/ UNCHANGED <<reported, lost>>
  /\ UNCHANGED <<consumerVars, committed, pastVars>>

\* publish(): stored and confirmed; or a DeliveryError, only logged, after which the message
\* may have been stored all the same.
Publish(k) ==
  /\ publisher = "publishing" /\ changes[k] > 0
  /\ Published(k)
  /\ \/ reported' = [reported EXCEPT ![k] = @ + changes[k]] /\ UNCHANGED <<lost, faults>>
     \/ /\ Fault
        /\ \/ reported' = [reported EXCEPT ![k] = @ + changes[k]] /\ UNCHANGED lost
           \/ lost' = [lost EXCEPT ![k] = @ + changes[k]] /\ UNCHANGED reported
  /\ UNCHANGED <<consumerVars, committed, published, pastVars>>

-----------------------------------------------------------------------------
Next ==
  \/ Record \/ Commit \/ Restart
  \/ Connect \/ Drain
  \/ \E k \in Pairs : Publish(k)

Spec == Init /\ [][Next]_vars

\* Both threads run; the connection and each publish come to an end.
Fairness ==
  /\ WF_vars(Record) /\ WF_vars(Connect) /\ WF_vars(Drain)
  /\ \A k \in Pairs : WF_vars(Publish(k))

FairSpec == Spec /\ Fairness

-----------------------------------------------------------------------------
(* Properties *)

\* Types; the ids never outgrow their cap, and the publisher publishes while it has changes.
TypeOK ==
  /\ pos \in 0..Len(Log) /\ committed \in 0..pos
  /\ counts \in [Pairs -> Nat] /\ published \in [Pairs -> Nat]
  /\ lastEvent \in [Pairs -> 0..pos]
  /\ Len(seen) <= SeenCap
  /\ publisher \in {"connecting", "sleeping", "publishing", "dead"}
  /\ changes \in [Pairs -> Nat]
  /\ publisher = "publishing" <=> \E k \in Pairs : changes[k] > 0
  /\ reported \in [Pairs -> Nat] /\ lost \in [Pairs -> Nat]
  /\ reportedBefore \in [Pairs -> Nat] /\ replayed \in [Pairs -> Nat]
  /\ faults \in 0..MaxFaults

\* An id seen again is counted again only when SeenCap other events were counted in
\* between: the redelivery of a batch never inflates a stage.
CountedTwiceOnlyBeyondCap ==
  \A i, j \in DOMAIN counted : i < j /\ counted[i] = counted[j] => j - i > SeenCap

\* However records arrive while the publisher drains and publishes, every event counted is
\* either not drained yet, about to be published, or in exactly one stage.completed.
EachEventInOneWindow ==
  \A k \in Pairs :
    counts[k] = reported[k] + lost[k] + changes[k] + (counts[k] - published[k])

\* Over all incarnations, also when a message is stored though its publish failed, what the
\* windows of a stage report is at most its events once each, and once more for each time
\* that a process ended before it committed them.
ReportedAgainOnlyIfReplayed ==
  \A k \in Pairs :
    reportedBefore[k] + reported[k] <= Cardinality(EventsOf(k, 1, pos)) + replayed[k]

\* A stage is neither inflated nor left out: redelivered ids, windows and restarts.
WindowsAddUp == CountedTwiceOnlyBeyondCap /\ EachEventInOneWindow /\ ReportedAgainOnlyIfReplayed

\* Every event handled ends in a stage.completed, unless its publish failed or the
\* publisher never got its connection.
EveryEventReported ==
  \A k \in Pairs : <>[](counts[k] = reported[k] + lost[k] \/ publisher = "dead")
=============================================================================
