---------------------------- MODULE RuleManagement ----------------------------
(***************************************************************************)
(* Rule management, from the HTTP request to the rules a detector matches  *)
(* with: RuleApiServer (request threads, mutationLock), RuleStoreService-  *)
(* Impl (rules.json), KafkaRuleChangePublisher (one producer, FIFO), the   *)
(* compacted topic rules.changed, and in every detector the thread of      *)
(* RuleChangeSubscriber beside KafkaPipeline.run, which waits for it.      *)
(*                                                                         *)
(* A document is its set of rule ids and a version: the number of          *)
(* mutations it went through, which stands for the content of the rules.   *)
(***************************************************************************)
EXTENDS Integers, Sequences

CONSTANTS Clients,      \* concurrent HTTP requests
          Ids,          \* rule ids
          DefaultIds,   \* ids of default-rules.yaml
          Detectors,    \* processes of role detection
          MaxRequests,  \* bound on the requests of a behaviour
          MaxFaults,    \* bound on crashes, timeouts, I/O and broker errors
          NoClient      \* holder of a free lock

ASSUME RuleAssumption ==
  /\ DefaultIds \subseteq Ids /\ DefaultIds # {}
  /\ MaxRequests \in Nat /\ MaxFaults \in Nat
  /\ NoClient \notin Clients

VARIABLES
  \* rule-api
  disk,         \* rules.json; ids = {} when there is no file yet
  api,          \* "down", "starting", "announcing" (first snapshot sent) or "up"
  current,      \* RuleStoreServiceImpl.current
  lock,         \* holder of mutationLock
  outbox,       \* versions in the producer's buffer, in the order of send()
  \* the request threads, and what their clients were answered
  pc,           \* "idle", "queued", "saved" or "sent"
  op,           \* the mutation asked for
  mine,         \* version it saved
  answer,       \* "none", "ok" (2xx), "refused" (400, 404), "failed" (500), "unpublished" (502)
  \* rules.changed
  log,          \* versions, by offset
  compacted,    \* offsets the compaction removed
  \* the detectors
  detector,     \* "down", "waiting" (awaitCaughtUp) or "serving"
  reader,       \* the subscriber thread: "reading" or "dead"
  pos,          \* its consumer's position
  endOffset,    \* end of the topic when it started
  engine,       \* version of the rules the engine matches with; 0 is the JAR's default
  \* history and bounds
  since,        \* newest version on the topic when the detector started
  timedOut,     \* the wait ended by its timeout
  retry,        \* the request repeats one answered 502, with nothing changed in between
  requests, faults

apiVars == <<disk, api, current, lock, outbox>>
clientVars == <<pc, op, mine, answer, retry, requests>>
detectorVars == <<detector, reader, pos, endOffset, engine, since, timedOut>>
vars == <<apiVars, clientVars, log, compacted, detectorVars, faults>>

NoFile == [ver |-> 0, ids |-> {}]
Default == [ver |-> 0, ids |-> DefaultIds]
Mutations == [kind : {"POST", "PUT", "DELETE"}, id : Ids]

InLog(v) == \E i \in DOMAIN log : log[i] = v
InOutbox(v) == \E i \in DOMAIN outbox : outbox[i] = v

\* The newest snapshot a reader of the topic would see.
Newest == IF log = <<>> THEN 0 ELSE log[Len(log)]

-----------------------------------------------------------------------------
Init ==
  /\ disk = NoFile /\ api = "down" /\ current = NoFile
  /\ lock = NoClient /\ outbox = <<>>
  /\ pc = [c \in Clients |-> "idle"]
  /\ op \in [Clients -> {[kind |-> "PUT", id |-> CHOOSE i \in DefaultIds : TRUE]}]
  /\ mine = [c \in Clients |-> 0]
  /\ answer = [c \in Clients |-> "none"]
  /\ log = <<>> /\ compacted = {}
  /\ detector = [d \in Detectors |-> "down"]
  /\ reader = [d \in Detectors |-> "dead"]
  /\ pos = [d \in Detectors |-> 0]
  /\ endOffset = [d \in Detectors |-> 0]
  /\ engine = [d \in Detectors |-> 0]
  /\ since = [d \in Detectors |-> 0]
  /\ timedOut = [d \in Detectors |-> FALSE]
  /\ retry = [c \in Clients |-> FALSE]
  /\ requests = 0 /\ faults = 0

Fault == faults < MaxFaults /\ faults' = faults + 1

-----------------------------------------------------------------------------
(* rule-api: start, stop, producer.                                        *)

\* Constructor and run(): load rules.json, or write the default, then publish it.
StartApi ==
  /\ api = "down"
  /\ api' = "announcing"
  /\ LET document == IF disk.ids = {} THEN Default ELSE disk IN
     /\ disk' = document /\ current' = document
     /\ outbox' = <<document.ver>>
  /\ UNCHANGED <<lock, clientVars, log, compacted, detectorVars, faults>>

\* The snapshot of the start is confirmed: server.start().
Announced ==
  /\ api = "announcing" /\ outbox = <<>>
  /\ api' = "up"
  /\ UNCHANGED <<disk, current, lock, outbox, clientVars, log, compacted, detectorVars, faults>>

\* The process ends, by a crash or because its first publish failed.  The producer's
\* buffer may be partly stored; the requests under way get no answer.
StopApi ==
  /\ api # "down"
  /\ Fault
  /\ \E n \in 0..Len(outbox) : log' = log \o SubSeq(outbox, 1, n)
  /\ api' = "down" /\ current' = NoFile /\ lock' = NoClient /\ outbox' = <<>>
  /\ pc' = [c \in Clients |-> "idle"]
  /\ retry' = [c \in Clients |-> FALSE]
  /\ UNCHANGED <<disk, op, mine, answer, requests, compacted, detectorVars>>

\* The broker stores the oldest record of the producer (idempotent: in order, once).
Store ==
  /\ outbox # <<>>
  /\ log' = Append(log, Head(outbox))
  /\ outbox' = Tail(outbox)
  /\ UNCHANGED <<disk, api, current, lock, clientVars, compacted, detectorVars, faults>>

\* delivery.timeout.ms: the producer gives the oldest record up.
GiveUp ==
  /\ outbox # <<>> /\ api = "up"
  /\ Fault
  /\ outbox' = Tail(outbox)
  /\ UNCHANGED <<disk, api, current, lock, clientVars, log, compacted, detectorVars>>

\* cleanup.policy=compact, one key: any record but the last may go.
Compact(i) ==
  /\ i \in DOMAIN log /\ i < Len(log) /\ i \notin compacted
  /\ compacted' = compacted \cup {i}
  /\ UNCHANGED <<apiVars, clientVars, log, detectorVars, faults>>

-----------------------------------------------------------------------------
(* rule-api: one request thread.                                           *)

\* RuleApiServer.rules: a well-formed POST, PUT or DELETE arrives.
Request(c, o) ==
  /\ api = "up" /\ pc[c] = "idle" /\ requests < MaxRequests
  /\ pc' = [pc EXCEPT ![c] = "queued"]
  /\ op' = [op EXCEPT ![c] = o]
  /\ retry' = [retry EXCEPT ![c] =
                 o = op[c] /\ answer[c] = "unpublished" /\ mine[c] = current.ver]
  /\ answer' = [answer EXCEPT ![c] = "none"]
  /\ requests' = requests + 1
  /\ UNCHANGED <<apiVars, mine, log, compacted, detectorVars, faults>>

\* Faulty variant of Rejected: the last rule may go.
RejectedButLast(o) ==
  \/ o.kind = "POST" /\ o.id \in current.ids
  \/ o.kind = "DELETE" /\ o.id \notin current.ids

\* What the mutation finds wrong: POST of a known id, DELETE of an unknown one or of
\* the last rule (validateAll).
Rejected(o) ==
  \/ o.kind = "POST" /\ o.id \in current.ids
  \/ o.kind = "DELETE" /\ (o.id \notin current.ids \/ current.ids = {o.id})

Mutated(o) ==
  [ver |-> current.ver + 1,
   ids |-> IF o.kind = "DELETE" THEN current.ids \ {o.id} ELSE current.ids \cup {o.id}]

\* The thread leaves mutate() and answers.
Answer(c, a) ==
  /\ pc' = [pc EXCEPT ![c] = "idle"]
  /\ answer' = [answer EXCEPT ![c] = a]
  /\ lock' = NoClient
  /\ UNCHANGED <<op, mine, retry, requests>>

\* Refused under the lock, nothing is written; or rules.json cannot be written (500).
Refuse(c) ==
  /\ api = "up" /\ pc[c] = "queued" /\ lock = NoClient
  /\ \/ Rejected(op[c]) /\ Answer(c, "refused") /\ UNCHANGED faults
     \/ ~Rejected(op[c]) /\ Fault /\ Answer(c, "failed")
  /\ UNCHANGED <<disk, api, current, outbox, log, compacted, detectorVars>>

\* Faulty variant of Save: the mutation is not under mutationLock.
SaveUnlocked(c) ==
  /\ api = "up" /\ pc[c] = "queued"
  /\ ~Rejected(op[c])
  /\ disk' = Mutated(op[c]) /\ current' = Mutated(op[c])
  /\ mine' = [mine EXCEPT ![c] = Mutated(op[c]).ver]
  /\ pc' = [pc EXCEPT ![c] = "saved"]
  /\ UNCHANGED <<api, lock, outbox, op, answer, retry, requests, log, compacted, detectorVars,
                 faults>>

\* mutate(): take the lock, check, write rules.json by an atomic rename, then current.
Save(c) ==
  /\ api = "up" /\ pc[c] = "queued" /\ lock = NoClient
  /\ ~Rejected(op[c])
  /\ lock' = c
  /\ disk' = Mutated(op[c]) /\ current' = Mutated(op[c])
  /\ mine' = [mine EXCEPT ![c] = Mutated(op[c]).ver]
  /\ pc' = [pc EXCEPT ![c] = "saved"]
  /\ UNCHANGED <<api, outbox, op, answer, retry, requests, log, compacted, detectorVars, faults>>

\* producer.send() of the saved document.
Send(c) ==
  /\ pc[c] = "saved"
  /\ outbox' = Append(outbox, mine[c])
  /\ pc' = [pc EXCEPT ![c] = "sent"]
  /\ UNCHANGED <<disk, api, current, lock, op, mine, answer, retry, requests, log, compacted,
                 detectorVars, faults>>

\* Faulty variant of Published: the thread does not wait for the broker.
PublishedUnconfirmed(c) ==
  /\ pc[c] = "sent"
  /\ Answer(c, "ok")
  /\ UNCHANGED <<disk, api, current, outbox, log, compacted, detectorVars, faults>>

\* get(30 s) returns: 200 or 201.
Published(c) ==
  /\ pc[c] = "sent" /\ InLog(mine[c])
  /\ Answer(c, "ok")
  /\ UNCHANGED <<disk, api, current, outbox, log, compacted, detectorVars, faults>>

\* get(30 s) throws: the producer gave up, or has not heard from the broker yet, in which
\* case the record may still be stored later.  502, the rule stays saved.
PublishFails(c) ==
  /\ pc[c] = "sent"
  /\ IF InLog(mine[c]) \/ InOutbox(mine[c]) THEN Fault ELSE UNCHANGED faults
  /\ Answer(c, "unpublished")
  /\ UNCHANGED <<disk, api, current, outbox, log, compacted, detectorVars>>

-----------------------------------------------------------------------------
(* A detector: RuleChangeSubscriber.consume and KafkaPipeline.run.         *)

\* The engine starts with the JAR's rules, the subscriber at the beginning of the topic.
\* endOffsets() throws when the broker cannot be reached: the thread ends there.
StartDetector(d) ==
  /\ detector[d] = "down"
  /\ detector' = [detector EXCEPT ![d] = "waiting"]
  /\ \/ reader' = [reader EXCEPT ![d] = "reading"] /\ UNCHANGED faults
     \/ reader' = [reader EXCEPT ![d] = "dead"] /\ Fault
  /\ pos' = [pos EXCEPT ![d] = 0]
  /\ endOffset' = [endOffset EXCEPT ![d] = Len(log)]
  /\ engine' = [engine EXCEPT ![d] = 0]
  /\ since' = [since EXCEPT ![d] = Newest]
  /\ timedOut' = [timedOut EXCEPT ![d] = FALSE]
  /\ UNCHANGED <<apiVars, clientVars, log, compacted>>

StopDetector(d) ==
  /\ detector[d] # "down"
  /\ Fault
  /\ detector' = [detector EXCEPT ![d] = "down"]
  /\ reader' = [reader EXCEPT ![d] = "dead"]
  /\ UNCHANGED <<apiVars, clientVars, log, compacted, pos, endOffset, engine, since, timedOut>>

\* Faulty variant of ReadSnapshot: the thread stops reading once the topic is caught up.
ReadSnapshotAtStart(d) ==
  /\ reader[d] = "reading" /\ detector[d] = "waiting"
  /\ \E i \in DOMAIN log :
       /\ i > pos[d] /\ i \notin compacted
       /\ \A j \in DOMAIN log : pos[d] < j /\ j < i => j \in compacted
       /\ pos' = [pos EXCEPT ![d] = i]
       /\ engine' = [engine EXCEPT ![d] = log[i]]
  /\ UNCHANGED <<apiVars, clientVars, log, compacted, detector, reader, endOffset, since,
                 timedOut, faults>>

\* poll() returns the next record that is still there: replaceRules.
ReadSnapshot(d) ==
  /\ reader[d] = "reading"
  /\ \E i \in DOMAIN log :
       /\ i > pos[d] /\ i \notin compacted
       /\ \A j \in DOMAIN log : pos[d] < j /\ j < i => j \in compacted
       /\ pos' = [pos EXCEPT ![d] = i]
       /\ engine' = [engine EXCEPT ![d] = log[i]]
  /\ UNCHANGED <<apiVars, clientVars, log, compacted, detector, reader, endOffset, since,
                 timedOut, faults>>

\* An exception of poll() that is no WakeupException ends the thread, not the process.
ReaderDies(d) ==
  /\ reader[d] = "reading"
  /\ Fault
  /\ reader' = [reader EXCEPT ![d] = "dead"]
  /\ UNCHANGED <<apiVars, clientVars, log, compacted, detector, pos, endOffset, engine, since,
                 timedOut>>

\* Faulty variant of Serve: the latch opens one record early.
ServeOneEarly(d) ==
  /\ detector[d] = "waiting"
  /\ reader[d] = "reading" /\ pos[d] + 1 >= endOffset[d]
  /\ timedOut' = timedOut /\ UNCHANGED faults
  /\ detector' = [detector EXCEPT ![d] = "serving"]
  /\ UNCHANGED <<apiVars, clientVars, log, compacted, reader, pos, endOffset, engine, since>>

\* awaitCaughtUp: records are processed once the subscriber has read up to the end it
\* saw when it started, or after 30 s.
Serve(d) ==
  /\ detector[d] = "waiting"
  /\ \/ reader[d] = "reading" /\ pos[d] >= endOffset[d] /\ UNCHANGED <<timedOut, faults>>
     \/ reader[d] = "reading" /\ pos[d] < endOffset[d] /\ Fault
        /\ timedOut' = [timedOut EXCEPT ![d] = TRUE]
     \/ reader[d] = "dead" /\ timedOut' = [timedOut EXCEPT ![d] = TRUE] /\ UNCHANGED faults
  /\ detector' = [detector EXCEPT ![d] = "serving"]
  /\ UNCHANGED <<apiVars, clientVars, log, compacted, reader, pos, endOffset, engine, since>>

-----------------------------------------------------------------------------
Next ==
  \/ StartApi \/ Announced \/ StopApi \/ Store \/ GiveUp
  \/ \E i \in DOMAIN log : Compact(i)
  \/ \E c \in Clients : \/ \E o \in Mutations : Request(c, o)
                        \/ Refuse(c) \/ Save(c) \/ Send(c) \/ Published(c) \/ PublishFails(c)
  \/ \E d \in Detectors : \/ StartDetector(d) \/ StopDetector(d) \/ Serve(d)
                          \/ ReadSnapshot(d) \/ ReaderDies(d)

Spec == Init /\ [][Next]_vars

\* Docker restarts a stopped process, threads run, the broker answers, polls return.
Fairness ==
  /\ WF_vars(StartApi) /\ WF_vars(Announced) /\ WF_vars(Store)
  /\ \A c \in Clients : /\ WF_vars(Refuse(c) \/ Save(c)) /\ WF_vars(Send(c))
                        /\ WF_vars(Published(c) \/ PublishFails(c))
  /\ \A d \in Detectors : WF_vars(StartDetector(d)) /\ WF_vars(Serve(d)) /\ WF_vars(ReadSnapshot(d))

FairSpec == Spec /\ Fairness

-----------------------------------------------------------------------------
(* Properties *)

Documents == [ver : Nat, ids : SUBSET Ids]

\* Types; a rule set, once there is one, is never empty (validateAll).
TypeOK ==
  /\ disk \in Documents /\ current \in Documents
  /\ api \in {"down", "announcing", "up"}
  /\ api # "down" => current.ids # {} /\ disk = current
  /\ lock \in Clients \cup {NoClient}
  /\ outbox \in Seq(Nat) /\ log \in Seq(Nat)
  /\ pc \in [Clients -> {"idle", "queued", "saved", "sent"}]
  /\ op \in [Clients -> Mutations]
  /\ mine \in [Clients -> Nat]
  /\ answer \in [Clients -> {"none", "ok", "refused", "failed", "unpublished"}]
  /\ compacted \subseteq 1..(Len(log) - 1)
  /\ detector \in [Detectors -> {"down", "waiting", "serving"}]
  /\ reader \in [Detectors -> {"reading", "dead"}]
  /\ pos \in [Detectors -> 0..Len(log)]
  /\ endOffset \in [Detectors -> 0..Len(log)]
  /\ engine \in [Detectors -> Nat] /\ since \in [Detectors -> Nat]
  /\ timedOut \in [Detectors -> BOOLEAN] /\ retry \in [Clients -> BOOLEAN]
  /\ requests \in 0..MaxRequests /\ faults \in 0..MaxFaults

\* RuleApiServer.java:111, "detector luon nhan snapshot moi nhat sau cung": whatever threads
\* mutate at once, sends that time out and arrive later, compaction and restarts of rule-api,
\* a running detector never replaces its rules by an older set.
RulesNeverGoBack ==
  [][\A d \in Detectors :
       detector[d] # "down" /\ detector'[d] # "down" => engine'[d] >= engine[d]]_vars

\* A mutation answered 2xx is on the topic, for good: no later snapshot is older, so every
\* detector that reads the topic to its end has it.
AcknowledgedIsPublished ==
  \A c \in Clients : answer[c] = "ok" => mine[c] <= Newest

\* No detector ever matches with rules that rule-api would not find again on its disk
\* after a crash.
EnforcedIsStored == \A d \in Detectors : engine[d] <= disk.ver

\* Topic, disk and detectors agree: nobody was promised, and nobody enforces, what a crash
\* would take back.
NothingTakenBack == AcknowledgedIsPublished /\ EnforcedIsStored

\* detector/README.md:55: a detector processes no log before it has read every snapshot that
\* was on the topic when it started, unless its wait timed out.
ServesNewestAtStart ==
  \A d \in Detectors : detector[d] = "serving" /\ ~timedOut[d] => engine[d] >= since[d]

\* An acknowledged mutation reaches every detector whose subscriber thread is alive.
AcknowledgedIsEnforced ==
  \A c \in Clients, d \in Detectors, v \in 1..MaxRequests :
    answer[c] = "ok" /\ mine[c] = v
      ~> engine[d] >= v \/ (detector[d] # "down" /\ reader[d] = "dead")

\* RuleApiServer.java:120, "restart rule-api or retry": a retried mutation is accepted.
RetryPublishes == \A c \in Clients : retry[c] => answer[c] # "refused"
=============================================================================
