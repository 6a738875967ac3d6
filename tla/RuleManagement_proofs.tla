------------------------- MODULE RuleManagement_proofs -------------------------
(***************************************************************************)
(* Proofs about RuleManagement, for any number of clients, detectors and   *)
(* rules, any number of requests and faults: a running detector never goes *)
(* back to older rules, nothing acknowledged or enforced is taken back,    *)
(* and a detector that did not time out starts with the newest rules.      *)
(***************************************************************************)
EXTENDS RuleManagement, SequenceTheorems, TLAPS

USE RuleAssumption

-----------------------------------------------------------------------------
(* The inductive invariant.                                                *)

\* mutationLock: one thread between its save and its answer, while rule-api is up; what it
\* saved is what is on disk.
Serialized ==
  /\ api # "up" => \A c \in Clients : pc[c] = "idle"
  /\ api = "down" => outbox = <<>>
  /\ \A c \in Clients : pc[c] \in {"saved", "sent"} <=> lock = c
  /\ \A c \in Clients : pc[c] # "idle" => answer[c] = "none"
  /\ \A c \in Clients : mine[c] <= disk.ver
  /\ \A c \in Clients : lock = c => mine[c] = disk.ver
  /\ disk.ids = {} => disk.ver = 0

\* The topic, then the producer's buffer, then the disk: versions never decrease.
InOrder ==
  /\ \A i, j \in 1..Len(log) : i <= j => log[i] <= log[j]
  /\ \A i, j \in 1..Len(outbox) : i <= j => outbox[i] <= outbox[j]
  /\ \A i \in 1..Len(log), j \in 1..Len(outbox) : log[i] <= outbox[j]
  /\ \A i \in 1..Len(log) : log[i] <= disk.ver
  /\ \A j \in 1..Len(outbox) : outbox[j] <= disk.ver

\* The version a reader has after n records of s.
After(s, n) == IF n = 0 THEN 0 ELSE s[n]

\* A detector matches with the last snapshot it read, and waits for the last one that was
\* there when it started.
ReadersFollow ==
  \A d \in Detectors :
    /\ engine[d] = After(log, pos[d])
    /\ since[d] = After(log, endOffset[d])
    /\ detector[d] = "serving" /\ ~timedOut[d] => pos[d] >= endOffset[d]

RuleInv == TypeOK /\ Serialized /\ InOrder /\ ReadersFollow /\ AcknowledgedIsPublished

-----------------------------------------------------------------------------
(* Types, by the part of the system they are about.                        *)

ApiTypes ==
  /\ disk \in Documents /\ current \in Documents
  /\ api \in {"down", "announcing", "up"}
  /\ api # "down" => current.ids # {} /\ disk = current
  /\ lock \in Clients \cup {NoClient}
  /\ outbox \in Seq(Nat)

ClientTypes ==
  /\ pc \in [Clients -> {"idle", "queued", "saved", "sent"}]
  /\ op \in [Clients -> Mutations]
  /\ mine \in [Clients -> Nat]
  /\ answer \in [Clients -> {"none", "ok", "refused", "failed", "unpublished"}]
  /\ retry \in [Clients -> BOOLEAN]
  /\ requests \in 0..MaxRequests

TopicTypes == log \in Seq(Nat) /\ compacted \subseteq 1..(Len(log) - 1)

DetectorTypes ==
  /\ detector \in [Detectors -> {"down", "waiting", "serving"}]
  /\ reader \in [Detectors -> {"reading", "dead"}]
  /\ pos \in [Detectors -> 0..Len(log)]
  /\ endOffset \in [Detectors -> 0..Len(log)]
  /\ engine \in [Detectors -> Nat] /\ since \in [Detectors -> Nat]
  /\ timedOut \in [Detectors -> BOOLEAN]

\* TypeOK is the conjunction of its parts.
LEMMA TypeParts ==
  TypeOK <=> ApiTypes /\ ClientTypes /\ TopicTypes /\ DetectorTypes /\ faults \in 0..MaxFaults
  BY DEF TypeOK, ApiTypes, ClientTypes, TopicTypes, DetectorTypes

\* The invariant holds at the start.
LEMMA RuleInit == Init => RuleInv
<1> SUFFICES ASSUME Init PROVE RuleInv
  OBVIOUS
<1>1. ApiTypes /\ TopicTypes /\ DetectorTypes /\ faults \in 0..MaxFaults
  BY DEF Init, ApiTypes, TopicTypes, DetectorTypes, Documents, NoFile
<1>2. ClientTypes
  <2>1. (CHOOSE i \in DefaultIds : TRUE) \in Ids
    OBVIOUS
  <2> QED BY <2>1 DEF Init, ClientTypes, Mutations
<1>3. Serialized
  BY DEF Init, Serialized, NoFile
<1>4. InOrder /\ AcknowledgedIsPublished
  BY DEF Init, InOrder, AcknowledgedIsPublished
<1>5. ReadersFollow
  BY DEF Init, ReadersFollow, After
<1> QED BY <1>1, <1>2, <1>3, <1>4, <1>5, TypeParts DEF RuleInv

-----------------------------------------------------------------------------
(* What a step does to the topic.                                          *)

\* log only grows at its end.
Grows ==
  /\ Len(log) <= Len(log')
  /\ \A i \in 1..Len(log) : log'[i] = log[i]

\* The document of a mutation that is not refused: one version up, with a rule left.
LEMMA MutatedType ==
  ASSUME ApiTypes, NEW o \in Mutations, api # "down", ~Rejected(o)
  PROVE  /\ Mutated(o) \in Documents /\ Mutated(o).ids # {}
         /\ Mutated(o).ver = disk.ver + 1
<1>1. /\ current \in Documents /\ current.ids # {} /\ disk = current
      /\ current.ids \subseteq Ids /\ current.ver \in Nat
  BY DEF ApiTypes, Documents
<1>2. o.id \in Ids /\ o.kind \in {"POST", "PUT", "DELETE"}
  BY DEF Mutations
<1>3. CASE o.kind = "DELETE"
  BY <1>1, <1>2, <1>3 DEF Mutated, Documents, Rejected
<1>4. CASE o.kind # "DELETE"
  BY <1>1, <1>2, <1>4 DEF Mutated, Documents
<1> QED BY <1>3, <1>4

\* The disk and the buffer in a step of rule-api, of the broker or of a request thread.
LEMMA ApiStep ==
  ASSUME RuleInv, Next
  PROVE  /\ ApiTypes' /\ disk.ver <= disk'.ver
         /\ disk'.ids = {} => disk'.ver = 0
<1> ApiTypes /\ ClientTypes /\ Serialized
  BY TypeParts DEF RuleInv
<1>0. disk \in Documents /\ disk.ver \in Nat /\ current \in Documents /\ outbox \in Seq(Nat)
  BY DEF ApiTypes, Documents
<1>1. CASE StartApi
  <2>1. CASE disk.ids = {}
    <3>1. /\ disk' = Default /\ current' = Default /\ outbox' = <<0>> /\ api' = "announcing"
          /\ lock' = lock
      BY <1>1, <2>1 DEF StartApi, Default
    <3>2. Default \in Documents /\ Default.ids # {} /\ Default.ver = 0
      BY DEF Default, Documents
    <3> QED BY <1>0, <2>1, <3>1, <3>2 DEF ApiTypes, Serialized
  <2>2. CASE disk.ids # {}
    <3>1. /\ disk' = disk /\ current' = disk /\ outbox' = <<disk.ver>> /\ api' = "announcing"
          /\ lock' = lock
      BY <1>1, <2>2 DEF StartApi
    <3> QED BY <1>0, <2>2, <3>1 DEF ApiTypes, Serialized
  <2> QED BY <2>1, <2>2
<1>2. CASE StopApi
  <2>1. /\ disk' = disk /\ api' = "down" /\ current' = NoFile /\ lock' = NoClient
        /\ outbox' = <<>>
    BY <1>2 DEF StopApi
  <2> QED BY <1>0, <2>1 DEF ApiTypes, Serialized, NoFile, Documents
<1>3. CASE Announced
  BY <1>0, <1>3 DEF Announced, ApiTypes, Serialized
<1>4. CASE Store \/ GiveUp
  <2>1. outbox' = Tail(outbox) /\ outbox # <<>> /\ UNCHANGED <<disk, api, current, lock>>
    BY <1>4 DEF Store, GiveUp
  <2> QED BY <1>0, <2>1 DEF ApiTypes, Serialized
<1>5. ASSUME NEW c \in Clients, Save(c) PROVE ApiTypes' /\ disk.ver <= disk'.ver /\ disk'.ids # {}
  <2>1. /\ api' = "up" /\ lock' = c /\ outbox' = outbox
        /\ disk' = Mutated(op[c]) /\ current' = Mutated(op[c])
        /\ ~Rejected(op[c]) /\ api = "up"
    BY <1>5 DEF Save
  <2>2. op[c] \in Mutations
    BY DEF ClientTypes
  <2>3. disk' \in Documents /\ disk'.ids # {} /\ disk'.ver = disk.ver + 1
    BY <2>1, <2>2, MutatedType
  <2> QED BY <1>0, <2>1, <2>3 DEF ApiTypes
<1>6. ASSUME NEW c \in Clients, Send(c) PROVE ApiTypes' /\ disk' = disk
  <2>1. mine[c] \in Nat
    BY DEF ClientTypes
  <2> QED BY <1>6, <2>1 DEF Send, ApiTypes
<1>7. CASE UNCHANGED <<disk, api, current, outbox>> /\ lock' \in {lock, NoClient}
  BY <1>0, <1>7 DEF ApiTypes, Serialized
<1>8. ASSUME NEW c \in Clients, Refuse(c) \/ Published(c) \/ PublishFails(c)
      PROVE  UNCHANGED <<disk, api, current, outbox>> /\ lock' \in {lock, NoClient}
  BY <1>8 DEF Refuse, Published, PublishFails, Answer
<1>9. ASSUME \/ \E i \in DOMAIN log : Compact(i)
             \/ \E c \in Clients, o \in Mutations : Request(c, o)
             \/ \E d \in Detectors : \/ StartDetector(d) \/ StopDetector(d) \/ Serve(d)
                                     \/ ReadSnapshot(d) \/ ReaderDies(d)
      PROVE  UNCHANGED <<disk, api, current, outbox, lock>>
  BY <1>9 DEF Compact, Request, StartDetector, StopDetector, Serve, ReadSnapshot, ReaderDies,
              apiVars
<1> QED BY <1>0, <1>1, <1>2, <1>3, <1>4, <1>5, <1>6, <1>7, <1>8, <1>9
        DEF Next, Serialized

\* The request threads: the lock is held from save to answer, an answer ends a request.
LEMMA ClientStep ==
  ASSUME RuleInv, Next
  PROVE  ClientTypes' /\ Serialized'
<1> ApiTypes /\ ClientTypes /\ Serialized
  BY TypeParts DEF RuleInv
<1>0. /\ disk \in Documents /\ disk.ver \in Nat /\ current \in Documents /\ outbox \in Seq(Nat)
      /\ disk' \in Documents /\ disk'.ver \in Nat
      /\ disk.ver <= disk'.ver /\ (disk'.ids = {} => disk'.ver = 0)
  BY ApiStep DEF ApiTypes, Documents
<1>1. CASE StartApi \/ Announced \/ Store \/ GiveUp
  <2>1. /\ UNCHANGED <<lock, clientVars>> /\ api' # "down"
        /\ api # "up" => lock = NoClient
    BY <1>1 DEF StartApi, Announced, Store, GiveUp, Serialized, ApiTypes
  <2>2. api' # "up" => api # "up"
    BY <1>1 DEF StartApi, Announced, Store, GiveUp
  <2>3. (\E c \in Clients : lock = c) => disk' = disk
    BY <1>1 DEF StartApi, Announced, Store, GiveUp, Serialized
  <2> QED BY <1>0, <2>1, <2>2, <2>3 DEF ClientTypes, Serialized, clientVars
<1>2. CASE StopApi
  <2>1. /\ pc' = [c \in Clients |-> "idle"] /\ retry' = [c \in Clients |-> FALSE]
        /\ api' = "down" /\ outbox' = <<>> /\ lock' = NoClient
        /\ UNCHANGED <<disk, op, mine, answer, requests>>
    BY <1>2 DEF StopApi
  <2> QED BY <1>0, <2>1 DEF ClientTypes, Serialized
<1>3. ASSUME NEW c \in Clients, NEW o \in Mutations, Request(c, o) PROVE ClientTypes' /\ Serialized'
  <2>1. /\ api = "up" /\ pc[c] = "idle" /\ requests < MaxRequests
        /\ pc' = [pc EXCEPT ![c] = "queued"] /\ op' = [op EXCEPT ![c] = o]
        /\ answer' = [answer EXCEPT ![c] = "none"] /\ requests' = requests + 1
        /\ UNCHANGED <<disk, api, current, lock, outbox, mine>>
    BY <1>3 DEF Request, apiVars
  <2>2. retry' \in [Clients -> BOOLEAN]
    <3> DEFINE b == o = op[c] /\ answer[c] = "unpublished" /\ mine[c] = current.ver
    <3>1. retry' = [retry EXCEPT ![c] = b]
      BY <1>3 DEF Request
    <3>2. CASE b
      <4>1. retry' = [retry EXCEPT ![c] = TRUE]
        BY <3>1, <3>2
      <4> QED BY <4>1 DEF ClientTypes
    <3>3. CASE ~b
      <4>1. retry' = [retry EXCEPT ![c] = FALSE]
        BY <3>1, <3>3
      <4> QED BY <4>1 DEF ClientTypes
    <3> QED BY <3>2, <3>3
  <2>3. ClientTypes'
    <3>1. requests' \in 0..MaxRequests
      BY <2>1 DEF ClientTypes
    <3>2. /\ pc' \in [Clients -> {"idle", "queued", "saved", "sent"}]
          /\ op' \in [Clients -> Mutations]
          /\ mine' \in [Clients -> Nat]
          /\ answer' \in [Clients -> {"none", "ok", "refused", "failed", "unpublished"}]
      BY <2>1 DEF ClientTypes
    <3> QED BY <2>2, <3>1, <3>2 DEF ClientTypes
  <2>4. \A e \in Clients \ {c} : pc'[e] = pc[e] /\ answer'[e] = answer[e]
    BY <2>1 DEF ClientTypes
  <2>5. pc'[c] = "queued" /\ answer'[c] = "none" /\ lock # c
    BY <2>1 DEF ClientTypes, Serialized
  <2> QED BY <2>1, <2>3, <2>4, <2>5 DEF Serialized
<1>4. ASSUME NEW c \in Clients, Save(c) PROVE ClientTypes' /\ Serialized'
  <2>1. /\ api = "up" /\ api' = "up" /\ pc[c] = "queued" /\ lock = NoClient /\ lock' = c
        /\ disk' = Mutated(op[c]) /\ ~Rejected(op[c])
        /\ mine' = [mine EXCEPT ![c] = Mutated(op[c]).ver]
        /\ pc' = [pc EXCEPT ![c] = "saved"]
        /\ UNCHANGED <<outbox, op, answer, retry, requests>>
    BY <1>4 DEF Save
  <2>2. op[c] \in Mutations
    BY DEF ClientTypes
  <2>3. disk'.ver = disk.ver + 1 /\ mine' = [mine EXCEPT ![c] = disk'.ver]
    BY <2>1, <2>2, MutatedType
  <2>4. ClientTypes'
    BY <1>0, <2>1, <2>3 DEF ClientTypes
  <2> QED BY <1>0, <2>1, <2>3, <2>4 DEF ClientTypes, Serialized
<1>5. ASSUME NEW c \in Clients, Send(c) PROVE ClientTypes' /\ Serialized'
  <2>1. /\ pc[c] = "saved" /\ pc' = [pc EXCEPT ![c] = "sent"]
        /\ UNCHANGED <<disk, api, current, lock, op, mine, answer, retry, requests>>
    BY <1>5 DEF Send
  <2>2. ClientTypes'
    BY <2>1 DEF ClientTypes
  <2>3. api = "up" /\ api' = "up"
    BY <2>1 DEF Serialized
  <2> QED BY <1>0, <2>1, <2>2, <2>3 DEF ClientTypes, Serialized
<1>6. ASSUME NEW c \in Clients, Refuse(c) \/ Published(c) \/ PublishFails(c)
      PROVE  ClientTypes' /\ Serialized'
  <2>1. /\ lock \in {c, NoClient} /\ lock' = NoClient /\ pc' = [pc EXCEPT ![c] = "idle"]
        /\ \E a \in {"ok", "refused", "failed", "unpublished"} :
             answer' = [answer EXCEPT ![c] = a]
        /\ UNCHANGED <<disk, api, outbox, op, mine, retry, requests>>
    BY <1>6 DEF Refuse, Published, PublishFails, Answer, Serialized
  <2>2. ClientTypes'
    BY <2>1 DEF ClientTypes
  <2>3. \A e \in Clients \ {c} : pc'[e] = pc[e] /\ answer'[e] = answer[e] /\ lock # e
    BY <2>1 DEF ClientTypes
  <2>4. pc'[c] = "idle"
    BY <2>1 DEF ClientTypes
  <2> QED BY <1>0, <2>1, <2>2, <2>3, <2>4 DEF Serialized
<1>7. ASSUME \/ \E i \in DOMAIN log : Compact(i)
             \/ \E d \in Detectors : \/ StartDetector(d) \/ StopDetector(d) \/ Serve(d)
                                     \/ ReadSnapshot(d) \/ ReaderDies(d)
      PROVE  ClientTypes' /\ Serialized'
  <2>1. UNCHANGED <<disk, api, outbox, lock, clientVars>>
    BY <1>7 DEF Compact, StartDetector, StopDetector, Serve, ReadSnapshot, ReaderDies, apiVars
  <2> QED BY <2>1 DEF ClientTypes, Serialized, clientVars
<1> QED BY <1>1, <1>2, <1>3, <1>4, <1>5, <1>6, <1>7 DEF Next

\* What a step does to the buffer and the topic: the buffer takes the version on disk, loses
\* its oldest record, hands it to the topic, or hands some and loses the others.
LEMMA TopicSteps ==
  ASSUME RuleInv, Next
  PROVE  \/ UNCHANGED <<outbox, log>>
         \/ log' = log /\ outbox' = <<disk'.ver>>
         \/ log' = log /\ outbox' = Append(outbox, disk'.ver)
         \/ log' = log /\ outbox # <<>> /\ outbox' = Tail(outbox)
         \/ outbox # <<>> /\ log' = Append(log, Head(outbox)) /\ outbox' = Tail(outbox)
         \/ /\ \E n \in 0..Len(outbox) : log' = log \o SubSeq(outbox, 1, n)
            /\ outbox' = <<>>
<1> ApiTypes /\ ClientTypes /\ Serialized
  BY TypeParts DEF RuleInv
<1>1. CASE StartApi
  BY <1>1 DEF StartApi
<1>2. ASSUME NEW c \in Clients, Send(c) PROVE log' = log /\ outbox' = Append(outbox, disk'.ver)
  BY <1>2 DEF Send, Serialized
<1>3. CASE Store
  BY <1>3 DEF Store
<1>4. CASE GiveUp
  BY <1>4 DEF GiveUp
<1>5. CASE StopApi
  BY <1>5 DEF StopApi
<1>6. ASSUME \/ Announced \/ \E i \in DOMAIN log : Compact(i)
             \/ \E c \in Clients : \/ \E o \in Mutations : Request(c, o)
                                   \/ Refuse(c) \/ Save(c) \/ Published(c) \/ PublishFails(c)
             \/ \E d \in Detectors : \/ StartDetector(d) \/ StopDetector(d) \/ Serve(d)
                                     \/ ReadSnapshot(d) \/ ReaderDies(d)
      PROVE  UNCHANGED <<outbox, log>>
  BY <1>6 DEF Announced, Compact, Request, Refuse, Save, Published, PublishFails, Answer,
              StartDetector, StopDetector, Serve, ReadSnapshot, ReaderDies, apiVars
<1> QED BY <1>1, <1>2, <1>3, <1>4, <1>5, <1>6 DEF Next

\* Compaction takes any record but the last, and nothing else marks records.
LEMMA CompactedStep ==
  ASSUME RuleInv, Next
  PROVE  compacted' = compacted \/ (log' = log /\ \E i \in DOMAIN log :
                                       i < Len(log) /\ compacted' = compacted \cup {i})
  BY DEF Next, StartApi, StopApi, Store, GiveUp, Announced, Compact, Request, Refuse, Save,
         Send, Published, PublishFails, Answer, StartDetector, StopDetector, Serve,
         ReadSnapshot, ReaderDies, apiVars

\* The topic only grows, in the order of the versions.
LEMMA TopicStep ==
  ASSUME RuleInv, Next
  PROVE  TopicTypes' /\ InOrder' /\ Grows
<1> ApiTypes /\ TopicTypes /\ InOrder
  BY TypeParts DEF RuleInv
<1>0. /\ outbox \in Seq(Nat) /\ log \in Seq(Nat) /\ disk.ver \in Nat /\ disk'.ver \in Nat
      /\ disk.ver <= disk'.ver
  BY ApiStep DEF ApiTypes, Documents, TopicTypes
<1>a. /\ \A i \in 1..Len(log) : log[i] \in Nat /\ log[i] <= disk.ver /\ log[i] <= disk'.ver
      /\ \A j \in 1..Len(outbox) : outbox[j] \in Nat /\ outbox[j] <= disk.ver
                                   /\ outbox[j] <= disk'.ver
      /\ Len(log) \in Nat /\ Len(outbox) \in Nat
  BY <1>0 DEF InOrder
<1>1. log' \in Seq(Nat) /\ InOrder' /\ Grows
  <2>1. CASE UNCHANGED <<outbox, log>>
    BY <1>0, <1>a, <2>1 DEF InOrder, Grows
  <2>2. CASE log' = log /\ outbox' = <<disk'.ver>>
    BY <1>0, <1>a, <2>2 DEF InOrder, Grows
  <2>3. CASE log' = log /\ outbox' = Append(outbox, disk'.ver)
    BY <1>0, <1>a, <2>3, SMTT(30) DEF InOrder, Grows
  <2>4. CASE log' = log /\ outbox # <<>> /\ outbox' = Tail(outbox)
    BY <1>0, <1>a, <2>4 DEF InOrder, Grows
  <2>5. CASE outbox # <<>> /\ log' = Append(log, Head(outbox)) /\ outbox' = Tail(outbox)
    <3>1. /\ Len(outbox') = Len(outbox) - 1 /\ Len(outbox) >= 1
          /\ \A j \in 1..Len(outbox') : outbox'[j] = outbox[j + 1]
      BY <1>0, <2>5
    <3>2. /\ Len(log') = Len(log) + 1 /\ log'[Len(log) + 1] = outbox[1]
          /\ \A i \in 1..Len(log) : log'[i] = log[i]
      BY <1>0, <2>5
    <3>3. log' \in Seq(Nat) /\ Grows
      BY <1>0, <1>a, <2>5, <3>2 DEF Grows
    <3>4. \A i \in 1..Len(log') : i \in 1..Len(log) \/ i = Len(log) + 1
      BY <1>a, <3>2
    <3>5. \A j \in 1..Len(outbox') : j + 1 \in 1..Len(outbox) /\ outbox[1] <= outbox[j + 1]
      BY <1>a, <3>1 DEF InOrder
    <3>6. \A i, j \in 1..Len(log') : i <= j => log'[i] <= log'[j]
      BY <1>a, <3>1, <3>2, <3>4 DEF InOrder
    <3>7. \A i, j \in 1..Len(outbox') : i <= j => outbox'[i] <= outbox'[j]
      BY <1>a, <3>1, <3>5 DEF InOrder
    <3>8. \A i \in 1..Len(log'), j \in 1..Len(outbox') : log'[i] <= outbox'[j]
      BY <1>a, <3>1, <3>2, <3>4, <3>5 DEF InOrder
    <3>9. \A i \in 1..Len(log') : log'[i] <= disk'.ver
      BY <1>a, <3>1, <3>2, <3>4
    <3>a. \A j \in 1..Len(outbox') : outbox'[j] <= disk'.ver
      BY <1>a, <3>1, <3>5
    <3> QED BY <3>3, <3>6, <3>7, <3>8, <3>9, <3>a DEF InOrder
  <2>6. ASSUME NEW n \in 0..Len(outbox), log' = log \o SubSeq(outbox, 1, n), outbox' = <<>>
        PROVE  log' \in Seq(Nat) /\ InOrder' /\ Grows
    <3>1. /\ SubSeq(outbox, 1, n) \in Seq(Nat) /\ Len(SubSeq(outbox, 1, n)) = n
          /\ \A j \in 1..n : SubSeq(outbox, 1, n)[j] = outbox[j]
      BY <1>0, <1>a
    <3>2. /\ log' \in Seq(Nat) /\ Len(log') = Len(log) + n
          /\ \A i \in 1..Len(log) : log'[i] = log[i]
          /\ \A i \in 1..(Len(log) + n) : i > Len(log) => log'[i] = outbox[i - Len(log)]
      BY <1>0, <1>a, <2>6, <3>1
    <3>3. \A i \in 1..Len(log') : \/ i \in 1..Len(log) /\ log'[i] = log[i]
                                  \/ /\ i > Len(log) /\ i - Len(log) \in 1..Len(outbox)
                                     /\ log'[i] = outbox[i - Len(log)]
      BY <1>a, <3>2
    <3>4. ASSUME NEW i \in 1..Len(log'), NEW j \in 1..Len(log'), i <= j
          PROVE  log'[i] <= log'[j]
      <4>1. CASE j \in 1..Len(log)
        <5>1. i \in 1..Len(log)
          BY <1>a, <3>2, <3>4, <4>1
        <5> QED BY <3>2, <3>4, <4>1, <5>1 DEF InOrder
      <4>2. CASE i \in 1..Len(log) /\ j > Len(log)
        <5>1. j - Len(log) \in 1..Len(outbox) /\ log'[j] = outbox[j - Len(log)]
          BY <1>a, <3>3, <4>2
        <5> QED BY <3>2, <4>2, <5>1 DEF InOrder
      <4>3. CASE i > Len(log) /\ j > Len(log)
        <5>1. /\ i - Len(log) \in 1..Len(outbox) /\ log'[i] = outbox[i - Len(log)]
              /\ j - Len(log) \in 1..Len(outbox) /\ log'[j] = outbox[j - Len(log)]
              /\ i - Len(log) <= j - Len(log)
          BY <1>a, <3>3, <3>4, <4>3
        <5> QED BY <5>1 DEF InOrder
      <4> QED BY <1>a, <3>2, <4>1, <4>2, <4>3
    <3>5. \A i \in 1..Len(log') : log'[i] <= disk'.ver
      BY <1>a, <3>3
    <3>6. Len(outbox') = 0 /\ Grows
      BY <1>a, <2>6, <3>2 DEF Grows
    <3> QED BY <3>2, <3>4, <3>5, <3>6 DEF InOrder
  <2> QED BY <2>1, <2>2, <2>3, <2>4, <2>5, <2>6, TopicSteps
<1>2. compacted' \subseteq 1..(Len(log') - 1)
  <2>1. compacted \subseteq 1..(Len(log') - 1)
    BY <1>0, <1>1 DEF Grows, TopicTypes
  <2>2. DOMAIN log = 1..Len(log)
    BY <1>0
  <2>3. ASSUME NEW i \in DOMAIN log, i < Len(log) PROVE i \in 1..(Len(log) - 1)
    BY <1>a, <2>2, <2>3
  <2> QED BY <2>1, <2>3, CompactedStep
<1> QED BY <1>1, <1>2 DEF TopicTypes

\* The newest version of the topic never decreases.
LEMMA NewestGrows ==
  ASSUME RuleInv, Next
  PROVE  Newest <= Newest' /\ Newest \in Nat /\ Newest' \in Nat
<1> TopicTypes /\ InOrder
  BY TypeParts DEF RuleInv
<1>1. log \in Seq(Nat) /\ log' \in Seq(Nat) /\ Grows /\ InOrder'
  BY TopicStep DEF TopicTypes
<1>2. CASE log = <<>>
  BY <1>1, <1>2 DEF Newest
<1>3. CASE log # <<>>
  <2>1. Len(log) \in 1..Len(log') /\ Len(log') \in 1..Len(log') /\ Len(log') \in Nat
    BY <1>1, <1>3 DEF Grows
  <2>2. log'[Len(log)] <= log'[Len(log')] /\ log'[Len(log)] = log[Len(log)]
    BY <1>1, <1>3, <2>1 DEF InOrder, Grows
  <2>3. Newest = log[Len(log)] /\ Newest' = log'[Len(log')]
    BY <1>1, <1>3, <2>1 DEF Newest
  <2> QED BY <1>1, <2>1, <2>2, <2>3
<1> QED BY <1>2, <1>3

\* What was acknowledged stays on the topic.
LEMMA AcknowledgedStep ==
  ASSUME RuleInv, Next
  PROVE  AcknowledgedIsPublished'
<1> ApiTypes /\ ClientTypes /\ TopicTypes /\ Serialized /\ InOrder /\ AcknowledgedIsPublished
  BY TypeParts DEF RuleInv
<1>0. Newest <= Newest' /\ Newest \in Nat /\ Newest' \in Nat
  BY NewestGrows
<1> SUFFICES ASSUME NEW c \in Clients, answer'[c] = "ok" PROVE mine'[c] <= Newest'
  BY DEF AcknowledgedIsPublished
<1>1. mine[c] \in Nat /\ mine'[c] \in Nat
  BY ClientStep DEF ClientTypes
<1>2. CASE answer[c] = "ok" /\ mine'[c] = mine[c]
  BY <1>0, <1>1, <1>2 DEF AcknowledgedIsPublished
<1>3. CASE Published(c)
  <2>1. PICK i \in DOMAIN log : log[i] = mine[c]
    BY <1>3 DEF Published, InLog
  <2>2. mine' = mine
    BY <1>3 DEF Published, Answer
  <2>3. /\ log \in Seq(Nat) /\ i \in 1..Len(log) /\ Len(log) \in 1..Len(log) /\ i <= Len(log)
        /\ log # <<>>
    BY DEF TopicTypes
  <2>4. log[i] <= Newest
    BY <2>3 DEF InOrder, Newest
  <2> QED BY <1>0, <1>1, <2>1, <2>2, <2>4
<1>4. ASSUME ~Published(c) PROVE answer[c] = "ok" /\ mine'[c] = mine[c]
  <2>1. ASSUME NEW e \in Clients, Save(e) PROVE answer[c] = "ok" /\ mine'[c] = mine[c]
    <3>1. answer' = answer /\ pc[e] = "queued" /\ \A b \in Clients \ {e} : mine'[b] = mine[b]
      BY <2>1 DEF Save, ClientTypes
    <3> QED BY <3>1 DEF Serialized
  <2>2. ASSUME NEW e \in Clients, Refuse(e) \/ Published(e) \/ PublishFails(e)
        PROVE  answer[c] = "ok" /\ mine'[c] = mine[c]
    <3>1. CASE e = c
      <4>1. answer' = [answer EXCEPT ![c] = "refused"] \/ answer' = [answer EXCEPT ![c] = "failed"]
            \/ answer' = [answer EXCEPT ![c] = "unpublished"]
        BY <1>4, <2>2, <3>1 DEF Refuse, PublishFails, Answer
      <4> QED BY <4>1 DEF ClientTypes
    <3>2. CASE e # c
      BY <2>2, <3>2 DEF Refuse, Published, PublishFails, Answer, ClientTypes
    <3> QED BY <3>1, <3>2
  <2>3. ASSUME NEW e \in Clients, NEW o \in Mutations, Request(e, o)
        PROVE  answer[c] = "ok" /\ mine'[c] = mine[c]
    BY <2>3 DEF Request, ClientTypes
  <2>4. ASSUME NEW e \in Clients, Send(e) PROVE answer' = answer /\ mine' = mine
    BY <2>4 DEF Send
  <2>5. ASSUME \/ StartApi \/ Announced \/ StopApi \/ Store \/ GiveUp
               \/ \E i \in DOMAIN log : Compact(i)
               \/ \E d \in Detectors : \/ StartDetector(d) \/ StopDetector(d) \/ Serve(d)
                                       \/ ReadSnapshot(d) \/ ReaderDies(d)
        PROVE  answer' = answer /\ mine' = mine
    BY <2>5 DEF StartApi, Announced, StopApi, Store, GiveUp, Compact, StartDetector,
                StopDetector, Serve, ReadSnapshot, ReaderDies, clientVars
  <2> QED BY <2>1, <2>2, <2>3, <2>4, <2>5 DEF Next
<1> QED BY <1>2, <1>3, <1>4

\* What a reader had after n records it has for ever, and more records are newer.
LEMMA AfterFacts ==
  ASSUME RuleInv, Next
  PROVE  /\ \A n \in 0..Len(log) : n \in 0..Len(log') /\ After(log', n) = After(log, n)
         /\ \A n \in 0..Len(log) : After(log, n) \in Nat
         /\ \A m, n \in 0..Len(log) : m <= n => After(log, m) <= After(log, n)
         /\ After(log, Len(log)) = Newest
<1> TopicTypes /\ InOrder
  BY TypeParts DEF RuleInv
<1>1. /\ log \in Seq(Nat) /\ log' \in Seq(Nat) /\ Grows
      /\ Len(log) \in Nat /\ Len(log') \in Nat
  BY TopicStep DEF TopicTypes
<1>2. \A n \in 0..Len(log) : n \in 0..Len(log') /\ After(log', n) = After(log, n)
  BY <1>1 DEF After, Grows
<1>3. \A n \in 0..Len(log) : After(log, n) \in Nat
  BY <1>1 DEF After
<1>4. \A m, n \in 0..Len(log) : m <= n => After(log, m) <= After(log, n)
  BY <1>1, <1>3 DEF After, InOrder
<1>5. After(log, Len(log)) = Newest
  BY <1>1 DEF After, Newest
<1> QED BY <1>2, <1>3, <1>4, <1>5

\* What a step does to detector d: nothing; a start, which notes the end of the topic; a stop;
\* a record read; the end of the wait; or the end of the reader.
LEMMA DetectorSteps ==
  ASSUME RuleInv, Next, NEW d \in Detectors
  PROVE  \/ /\ detector'[d] = detector[d] /\ reader'[d] \in {reader[d], "dead"}
            /\ pos'[d] = pos[d] /\ endOffset'[d] = endOffset[d] /\ engine'[d] = engine[d]
            /\ since'[d] = since[d] /\ timedOut'[d] = timedOut[d]
         \/ /\ detector[d] = "down" /\ detector'[d] = "waiting" /\ pos'[d] = 0
            /\ endOffset'[d] = Len(log) /\ engine'[d] = 0 /\ since'[d] = Newest
         \/ /\ detector'[d] = "down"
            /\ pos'[d] = pos[d] /\ endOffset'[d] = endOffset[d] /\ engine'[d] = engine[d]
            /\ since'[d] = since[d]
         \/ /\ \E i \in DOMAIN log : i > pos[d] /\ pos'[d] = i /\ engine'[d] = log[i]
            /\ detector'[d] = detector[d] /\ endOffset'[d] = endOffset[d]
            /\ since'[d] = since[d] /\ timedOut'[d] = timedOut[d]
         \/ /\ detector'[d] = "serving" /\ (timedOut'[d] \/ pos[d] >= endOffset[d])
            /\ pos'[d] = pos[d] /\ endOffset'[d] = endOffset[d] /\ engine'[d] = engine[d]
            /\ since'[d] = since[d]
<1> DetectorTypes
  BY TypeParts DEF RuleInv
<1>0. /\ detector \in [Detectors -> {"down", "waiting", "serving"}]
      /\ reader \in [Detectors -> {"reading", "dead"}]
      /\ pos \in [Detectors -> 0..Len(log)] /\ endOffset \in [Detectors -> 0..Len(log)]
      /\ engine \in [Detectors -> Nat] /\ since \in [Detectors -> Nat]
      /\ timedOut \in [Detectors -> BOOLEAN]
  BY DEF DetectorTypes
<1>1. ASSUME NEW e \in Detectors, e # d,
             StartDetector(e) \/ StopDetector(e) \/ Serve(e) \/ ReadSnapshot(e) \/ ReaderDies(e)
      PROVE  /\ detector'[d] = detector[d] /\ reader'[d] \in {reader[d], "dead"}
             /\ pos'[d] = pos[d] /\ endOffset'[d] = endOffset[d] /\ engine'[d] = engine[d]
             /\ since'[d] = since[d] /\ timedOut'[d] = timedOut[d]
  <2>1. CASE StartDetector(e)
    BY <1>0, <1>1, <2>1 DEF StartDetector
  <2>2. CASE StopDetector(e)
    BY <1>0, <1>1, <2>2 DEF StopDetector
  <2>3. CASE Serve(e)
    BY <1>0, <1>1, <2>3 DEF Serve
  <2>4. CASE ReadSnapshot(e)
    BY <1>0, <1>1, <2>4 DEF ReadSnapshot
  <2>5. CASE ReaderDies(e)
    BY <1>0, <1>1, <2>5 DEF ReaderDies
  <2> QED BY <1>1, <2>1, <2>2, <2>3, <2>4, <2>5
<1>2. CASE StartDetector(d)
  BY <1>0, <1>2 DEF StartDetector
<1>3. CASE StopDetector(d)
  BY <1>0, <1>3 DEF StopDetector
<1>4. CASE Serve(d)
  <2>1. \/ timedOut' = [timedOut EXCEPT ![d] = TRUE]
        \/ pos[d] >= endOffset[d]
    BY <1>4 DEF Serve
  <2>2. timedOut'[d] \/ pos[d] >= endOffset[d]
    BY <1>0, <2>1
  <2> QED BY <1>0, <1>4, <2>2 DEF Serve
<1>5. CASE ReadSnapshot(d)
  BY <1>0, <1>5 DEF ReadSnapshot
<1>6. CASE ReaderDies(d)
  BY <1>0, <1>6 DEF ReaderDies
<1>7. CASE UNCHANGED detectorVars
  BY <1>7 DEF detectorVars
<1>8. ASSUME \/ StartApi \/ Announced \/ StopApi \/ Store \/ GiveUp
             \/ \E i \in DOMAIN log : Compact(i)
             \/ \E c \in Clients : \/ \E o \in Mutations : Request(c, o)
                                   \/ Refuse(c) \/ Save(c) \/ Send(c) \/ Published(c)
                                   \/ PublishFails(c)
      PROVE  UNCHANGED detectorVars
  BY <1>8 DEF StartApi, Announced, StopApi, Store, GiveUp, Compact, Request, Refuse, Save,
              Send, Published, PublishFails, Answer
<1> QED BY <1>1, <1>2, <1>3, <1>4, <1>5, <1>6, <1>7, <1>8 DEF Next

\* The types of the detectors' state: a topic that grows leaves every position valid.
LEMMA DetectorTypeStep ==
  ASSUME RuleInv, Next
  PROVE  DetectorTypes'
<1> DetectorTypes /\ TopicTypes
  BY TypeParts DEF RuleInv
<1>0. /\ detector \in [Detectors -> {"down", "waiting", "serving"}]
      /\ reader \in [Detectors -> {"reading", "dead"}]
      /\ pos \in [Detectors -> 0..Len(log)] /\ endOffset \in [Detectors -> 0..Len(log)]
      /\ engine \in [Detectors -> Nat] /\ since \in [Detectors -> Nat]
      /\ timedOut \in [Detectors -> BOOLEAN]
  BY DEF DetectorTypes
<1>1. /\ log \in Seq(Nat) /\ Len(log) \in Nat /\ Len(log') \in Nat /\ Len(log) <= Len(log')
      /\ 0..Len(log) \subseteq 0..Len(log')
  BY TopicStep DEF TopicTypes, Grows
<1>2. Newest \in Nat
  BY NewestGrows
<1>3. ASSUME NEW d \in Detectors, StartDetector(d) PROVE DetectorTypes'
  <2>1. Len(log) \in 0..Len(log') /\ 0 \in 0..Len(log')
    BY <1>1
  <2> QED BY <1>0, <1>1, <1>2, <1>3, <2>1 DEF StartDetector, DetectorTypes
<1>4. ASSUME NEW d \in Detectors, StopDetector(d) \/ Serve(d) \/ ReaderDies(d)
      PROVE  DetectorTypes'
  <2>1. UNCHANGED <<pos, endOffset, engine, since>>
    BY <1>4 DEF StopDetector, Serve, ReaderDies
  <2>2. detector' \in [Detectors -> {"down", "waiting", "serving"}]
    BY <1>0, <1>4 DEF StopDetector, Serve, ReaderDies
  <2>3. reader' \in [Detectors -> {"reading", "dead"}]
    BY <1>0, <1>4 DEF StopDetector, Serve, ReaderDies
  <2>4. timedOut' \in [Detectors -> BOOLEAN]
    BY <1>0, <1>4 DEF StopDetector, Serve, ReaderDies
  <2> QED BY <1>0, <1>1, <2>1, <2>2, <2>3, <2>4 DEF DetectorTypes
<1>5. ASSUME NEW d \in Detectors, ReadSnapshot(d) PROVE DetectorTypes'
  <2>1. PICK i \in DOMAIN log : /\ pos' = [pos EXCEPT ![d] = i]
                                /\ engine' = [engine EXCEPT ![d] = log[i]]
    BY <1>5 DEF ReadSnapshot
  <2>2. i \in 0..Len(log) /\ log[i] \in Nat
    BY <1>1
  <2> QED BY <1>0, <1>1, <1>5, <2>1, <2>2 DEF ReadSnapshot, DetectorTypes
<1>6. CASE UNCHANGED detectorVars
  BY <1>0, <1>1, <1>6 DEF detectorVars, DetectorTypes
<1>7. ASSUME \/ StartApi \/ Announced \/ StopApi \/ Store \/ GiveUp
             \/ \E i \in DOMAIN log : Compact(i)
             \/ \E c \in Clients : \/ \E o \in Mutations : Request(c, o)
                                   \/ Refuse(c) \/ Save(c) \/ Send(c) \/ Published(c)
                                   \/ PublishFails(c)
      PROVE  UNCHANGED detectorVars
  BY <1>7 DEF StartApi, Announced, StopApi, Store, GiveUp, Compact, Request, Refuse, Save,
              Send, Published, PublishFails, Answer
<1> QED BY <1>3, <1>4, <1>5, <1>6, <1>7 DEF Next

\* A detector matches with the newest snapshot it has read, and never with an older one
\* than before while it runs.
LEMMA ReaderStep ==
  ASSUME RuleInv, Next, NEW d \in Detectors
  PROVE  /\ engine'[d] = After(log', pos'[d])
         /\ since'[d] = After(log', endOffset'[d])
         /\ detector'[d] = "serving" /\ ~timedOut'[d] => pos'[d] >= endOffset'[d]
         /\ detector[d] # "down" /\ detector'[d] # "down" => engine'[d] >= engine[d]
<1> DetectorTypes /\ TopicTypes /\ ReadersFollow
  BY TypeParts DEF RuleInv
<1>0. /\ pos[d] \in 0..Len(log) /\ endOffset[d] \in 0..Len(log) /\ engine[d] \in Nat
      /\ Len(log) \in Nat /\ 0 \in 0..Len(log) /\ Len(log) \in 0..Len(log)
      /\ DOMAIN log = 1..Len(log)
  BY DEF DetectorTypes, TopicTypes
<1>1. /\ engine[d] = After(log, pos[d]) /\ since[d] = After(log, endOffset[d])
      /\ detector[d] = "serving" /\ ~timedOut[d] => pos[d] >= endOffset[d]
  BY DEF ReadersFollow
<1>2. /\ \A n \in 0..Len(log) : After(log', n) = After(log, n)
      /\ \A n \in 0..Len(log) : After(log, n) \in Nat
      /\ \A m, n \in 0..Len(log) : m <= n => After(log, m) <= After(log, n)
      /\ After(log, Len(log)) = Newest
  BY AfterFacts
<1>3. After(log, 0) = 0
  BY DEF After
<1>4. ASSUME NEW i \in DOMAIN log, i > pos[d], pos'[d] = i, engine'[d] = log[i],
             detector'[d] = detector[d], endOffset'[d] = endOffset[d],
             since'[d] = since[d], timedOut'[d] = timedOut[d]
      PROVE  /\ engine'[d] = After(log', pos'[d])
             /\ since'[d] = After(log', endOffset'[d])
             /\ detector'[d] = "serving" /\ ~timedOut'[d] => pos'[d] >= endOffset'[d]
             /\ engine'[d] >= engine[d]
  <2>1. i \in 0..Len(log) /\ i # 0
    BY <1>0
  <2>2. After(log, i) = log[i]
    BY <2>1 DEF After
  <2>3. engine'[d] = After(log', i)
    BY <1>2, <1>4, <2>1, <2>2
  <2>4. After(log, pos[d]) <= After(log, i)
    BY <1>0, <1>2, <1>4, <2>1
  <2> QED BY <1>0, <1>1, <1>2, <1>4, <2>1, <2>2, <2>3, <2>4
<1> QED BY <1>0, <1>1, <1>2, <1>3, <1>4, DetectorSteps

\* Every step keeps the invariant.
LEMMA RuleStep == RuleInv /\ [Next]_vars => RuleInv'
<1> SUFFICES ASSUME RuleInv, [Next]_vars PROVE RuleInv'
  OBVIOUS
<1>1. CASE UNCHANGED vars
  <2>1. TypeOK' /\ Serialized'
    BY <1>1 DEF vars, apiVars, clientVars, detectorVars, RuleInv, TypeOK, Serialized
  <2>2. InOrder' /\ ReadersFollow' /\ AcknowledgedIsPublished'
    BY <1>1 DEF vars, apiVars, clientVars, detectorVars, RuleInv, InOrder, ReadersFollow,
                AcknowledgedIsPublished, Newest
  <2> QED BY <2>1, <2>2 DEF RuleInv
<1>2. CASE Next
  <2>1. faults' \in 0..MaxFaults
    <3>1. faults' = faults \/ (faults < MaxFaults /\ faults' = faults + 1)
      BY <1>2 DEF Next, Fault, StartApi, StopApi, Store, GiveUp, Announced, Compact, Request,
                  Refuse, Save, Send, Published, PublishFails, StartDetector, StopDetector,
                  Serve, ReadSnapshot, ReaderDies
    <3>2. faults \in 0..MaxFaults
      BY DEF RuleInv, TypeOK
    <3> QED BY <3>1, <3>2
  <2>2. ApiTypes' /\ ClientTypes' /\ TopicTypes' /\ DetectorTypes' /\ Serialized' /\ InOrder'
    BY <1>2, ApiStep, ClientStep, TopicStep, DetectorTypeStep
  <2>3. ReadersFollow'
    BY <1>2, ReaderStep DEF ReadersFollow
  <2>4. TypeOK'
    BY <2>1, <2>2 DEF TypeOK, ApiTypes, ClientTypes, TopicTypes, DetectorTypes
  <2> QED BY <1>2, <2>2, <2>3, <2>4, AcknowledgedStep DEF RuleInv
<1> QED BY <1>1, <1>2

-----------------------------------------------------------------------------
(* Theorems.                                                               *)

\* The inductive invariant holds: mutations are serialized, and versions never decrease from
\* the topic over the producer's buffer to the disk.
THEOREM RuleInvariant == Spec => []RuleInv
  BY RuleInit, RuleStep, PTL DEF Spec

\* TypeOK is an invariant of rule management.
THEOREM TypeCorrect == Spec => []TypeOK
<1>1. RuleInv => TypeOK
  BY DEF RuleInv
<1>2. QED BY <1>1, RuleInvariant, PTL

\* Whatever was answered 2xx is on the topic for good, and no detector matches with rules
\* that a crash of rule-api would lose: across concurrent mutations, sends that time out,
\* compaction and restarts.
THEOREM NothingIsTakenBack == Spec => []NothingTakenBack
<1>1. RuleInv => NothingTakenBack
  <2> SUFFICES ASSUME RuleInv PROVE NothingTakenBack
    OBVIOUS
  <2>1. EnforcedIsStored
    <3> SUFFICES ASSUME NEW d \in Detectors PROVE engine[d] <= disk.ver
      BY DEF EnforcedIsStored
    <3>1. engine[d] = After(log, pos[d]) /\ pos[d] \in 0..Len(log) /\ disk.ver \in Nat
      BY DEF RuleInv, ReadersFollow, TypeOK, Documents
    <3>2. pos[d] # 0 => pos[d] \in 1..Len(log)
      BY <3>1
    <3> QED BY <3>1, <3>2 DEF RuleInv, InOrder, After
  <2> QED BY <2>1 DEF RuleInv, NothingTakenBack
<1>2. QED BY <1>1, RuleInvariant, PTL

\* A detector that processes logs, and did not stop waiting at its timeout, matches with
\* rules at least as new as every snapshot on the topic when it started.
THEOREM StartsWithTheNewest == Spec => []ServesNewestAtStart
<1>1. RuleInv => ServesNewestAtStart
  <2> SUFFICES ASSUME RuleInv, NEW d \in Detectors, detector[d] = "serving", ~timedOut[d]
               PROVE  engine[d] >= since[d]
    BY DEF ServesNewestAtStart
  <2>1. /\ engine[d] = After(log, pos[d]) /\ since[d] = After(log, endOffset[d])
        /\ pos[d] >= endOffset[d]
    BY DEF RuleInv, ReadersFollow
  <2>2. /\ pos[d] \in 0..Len(log) /\ endOffset[d] \in 0..Len(log) /\ log \in Seq(Nat)
        /\ Len(log) \in Nat /\ \A i \in 1..Len(log) : log[i] \in Nat
    BY DEF RuleInv, TypeOK
  <2> QED BY <2>1, <2>2 DEF RuleInv, InOrder, After
<1>2. QED BY <1>1, RuleInvariant, PTL

\* A running detector never replaces its rules by an older set, whatever threads mutate at
\* once, sends that time out and arrive later, compaction and restarts of rule-api.
THEOREM RulesOnlyAdvance == Spec => RulesNeverGoBack
<1>1. RuleInv /\ [Next]_vars =>
        [\A d \in Detectors :
           detector[d] # "down" /\ detector'[d] # "down" => engine'[d] >= engine[d]]_vars
  BY ReaderStep
<1>2. QED BY <1>1, RuleInvariant, PTL DEF Spec, RulesNeverGoBack
=============================================================================
