--------------------------- MODULE Dashboard_proofs ---------------------------
(***************************************************************************)
(* Proofs about Dashboard, for any events, browsers, requests, caps and    *)
(* sizes of queues and batches, and any number of faults: type             *)
(* correctness, exact summaries, exact streams, that what was seen is in   *)
(* the history, and that the statements of one answer add up.              *)
(***************************************************************************)
EXTENDS Dashboard, FiniteSetTheorems, SequenceTheorems, WellFoundedInduction, TLAPS

-----------------------------------------------------------------------------
(* The inductive invariant.                                                *)

Ids == {Log[i].id : i \in DOMAIN Log}
Keys == {Log[i].type : i \in DOMAIN Log}
Counts == [key : Keys, n : Nat]
IsAttack(i) == Log[i].kind = "attack.detected"

\* The types of what the types of the module bound only.
DashboardTypes ==
  /\ queue \in [Browsers -> Seq(DOMAIN Log)] /\ sent \in [Browsers -> Seq(DOMAIN Log)]
  /\ joined \in [Browsers -> Nat] /\ lost \in [Browsers -> SUBSET Nat]

\* The types of the process, its offsets and the table.
BusTypes ==
  /\ pc \in {"down", "poll", "persist", "publish"} /\ history \in BOOLEAN
  /\ start \in 0..committed /\ committed \in 0..pos /\ pos \in 0..Len(Log)
  /\ table \cup unstored \subseteq Ids /\ faults \in 0..MaxFaults

\* The record in hand is not committed, and one that is to be written is an attack.
InHand ==
  /\ pc \in {"persist", "publish"} => committed < pos
  /\ pc = "persist" => IsAttack(pos)

\* The attacks handled, but for the one in hand, are stored, and what is on its way to the
\* browsers or with them was handled.
HandledIsStored ==
  /\ \A i \in 1..pos : IsAttack(i) /\ ~(pc = "persist" /\ i = pos) => Log[i].id \in table \cup unstored
  /\ \A s \in {ready, fanned} : \A n \in DOMAIN s : s[n] <= pos /\ (pc = "persist" => s[n] < pos)

\* The records H by what they are counted as.
Attacks(H, k) == {i \in H : IsAttack(i) /\ Log[i].type = k}
Lines(H, x) == {i \in H : Log[i].kind = "log.enriched" /\ Log[i].minute = x}
Shown(H) == {i \in H : Realtime(Log[i])}

\* The counter c of the records H: each key once and with its number, and all keys, unless
\* it is full.
ExactCounter(c, H) ==
  /\ c \in Seq(Counts) /\ Len(c) <= CounterCap
  /\ \A i, j \in DOMAIN c : c[i].key = c[j].key => i = j
  /\ \A j \in DOMAIN c : c[j].n >= 1 /\ c[j].n = Cardinality(Attacks(H, c[j].key))
  /\ \A i \in H : IsAttack(i) =>
       (\E j \in DOMAIN c : c[j].key = Log[i].type) \/ Len(c) = CounterCap

\* The minutes with requests, and the newest of the minutes A.
Minutes(H) == {x \in 0..(Now - 1) : Lines(H, x) # {}}
Top(A) == {x \in A : Cardinality({y \in A : y > x}) < TrafficMinutes}

ExactTraffic(t, H) == t = [x \in Top(Minutes(H)) |-> Cardinality(Lines(H, x))]

\* The feed r of the records H: their realtime events by how many came later.
Later(S, i) == Cardinality({j \in S : j > i})

ExactRecent(r, S) ==
  /\ r \in Seq(DOMAIN Log)
  /\ Len(r) = IF Cardinality(S) < RecentCap THEN Cardinality(S) ELSE RecentCap
  /\ \A i \in S : Later(S, i) < RecentCap => r[Len(r) - Later(S, i)] = i

\* The records that this process handled, and what it made of them.
Handled == (start + 1)..pos
SummariesAreExact ==
  /\ ExactCounter(counter, Handled) /\ ExactTraffic(traffic, Handled)
  /\ ExactRecent(recent, Shown(Handled))

\* What b is due, and what it got: sent or queued.
Due(b) == {n \in (joined[b] + 1)..Len(fanned) : n \notin lost[b]}
Received(b) == sent[b] \o queue[b]

StreamOfIsExact(b) ==
  IF open[b]
  THEN /\ Len(Received(b)) = Cardinality(Due(b))
       /\ \A n \in Due(b) : Received(b)[Cardinality({m \in Due(b) : m <= n})] = fanned[n]
  ELSE queue[b] = <<>> /\ sent[b] = <<>>

\* Every statement but the last one showed or counted rows that the request selects.
AnswerIsSound ==
  IF request = NoRequest THEN step = 0
  ELSE /\ step \in 0..Len(Statements(request))
       /\ step > 0 /\ step < Len(Statements(request)) => covered \subseteq Matching(request)

DashboardInv ==
  /\ TypeOK /\ DashboardTypes /\ InHand /\ HandledIsStored
  /\ SummariesAreExact
  /\ \A b \in Browsers : StreamOfIsExact(b)
  /\ AnswerIsSound


-----------------------------------------------------------------------------
(* The initial state, and the types.                                       *)

\* At first, and after a crash, a process has handled nothing.
LEMMA NothingHandled ==
  ASSUME NEW n \in Nat
  PROVE  /\ ExactCounter(<<>>, (n + 1)..n) /\ ExactTraffic(EmptyFunction, (n + 1)..n)
         /\ ExactRecent(<<>>, Shown((n + 1)..n))
<1>1. (n + 1)..n = {}
  OBVIOUS
<1>2. Shown({}) = {} /\ Cardinality({}) = 0 /\ Minutes({}) = {}
  BY FS_EmptySet DEF Shown, Minutes, Lines
<1>3. \A T : <<>> \in Seq(T)
  BY EmptySeq
<1>4. CounterCap \in Nat /\ RecentCap \in Nat /\ RecentCap > 0
  BY DashboardAssumption
<1>5. ExactCounter(<<>>, {})
  BY <1>3, <1>4 DEF ExactCounter
<1>6. ExactTraffic(EmptyFunction, {})
  <2>1. Top({}) = {}
    BY DEF Top
  <2> QED BY <1>2, <2>1 DEF ExactTraffic, EmptyFunction
<1>7. ExactRecent(<<>>, {})
  BY <1>2, <1>3, <1>4 DEF ExactRecent
<1> QED BY <1>1, <1>2, <1>5, <1>6, <1>7

\* At first nothing is handled, stored, shown or asked.
LEMMA DashboardInit == Init => DashboardInv
<1> SUFFICES ASSUME Init PROVE DashboardInv
  OBVIOUS
<1>1. TypeOK
  <2>1. <<>> \in Seq(DOMAIN Log)
    BY EmptySeq
  <2>2. /\ MaxFaults \in Nat /\ CounterCap \in Nat /\ RecentCap \in Nat /\ QueueMax \in Nat
        /\ Len(Log) \in Nat
    BY DashboardAssumption
  <2>3. \A b \in Browsers : queue[b] = <<>> /\ sent[b] = <<>> /\ joined[b] = 0 /\ lost[b] = {}
    BY DEF Init
  <2>4. \A b \in Browsers : /\ Len(queue[b]) <= QueueMax
                            /\ joined[b] \in 0..Len(fanned) /\ lost[b] \subseteq DOMAIN fanned
                            /\ ~open[b] => queue[b] \o sent[b] = <<>>
    BY <2>2, <2>3 DEF Init
  <2>5. \A x \in DOMAIN traffic : x \in 0..(Now - 1) /\ traffic[x] \in 1..Len(Log)
    BY DEF Init, EmptyFunction
  <2>6. pc \in {"down", "poll", "persist", "publish"} /\ history \in BOOLEAN
    BY DEF Init
  <2>8. start \in 0..committed /\ committed \in 0..pos /\ pos \in 0..Len(Log)
    BY <2>2 DEF Init
  <2>9. /\ \A i \in DOMAIN counter : counter[i].n \in 1..Len(Log)
        /\ Len(counter) <= CounterCap /\ Len(recent) <= RecentCap
    <3>1. counter = <<>> /\ recent = <<>> /\ Len(<<>>) = 0 /\ DOMAIN <<>> = {}
      BY DEF Init
    <3> QED BY <2>2, <3>1
  <2>7. /\ table \cup unstored \subseteq {Log[i].id : i \in DOMAIN Log}
        /\ ready \in Seq(DOMAIN Log) /\ fanned \in Seq(DOMAIN Log)
        /\ open \in [Browsers -> BOOLEAN]
        /\ request \in Queries \cup {NoRequest} /\ faults \in 0..MaxFaults
    BY <2>1, <2>2 DEF Init
  <2> QED BY <2>4, <2>5, <2>6, <2>7, <2>8, <2>9 DEF TypeOK
<1>2. DashboardTypes
  <2>1. \A T : <<>> \in Seq(T)
    BY EmptySeq
  <2> QED BY <2>1 DEF Init, DashboardTypes, EmptyFunction
<1>3. InHand /\ HandledIsStored
  <2>1. 1..0 = {}
    OBVIOUS
  <2> QED BY <2>1 DEF Init, InHand, HandledIsStored
<1>4. SummariesAreExact
  BY NothingHandled DEF Init, SummariesAreExact, Handled
<1>5. \A b \in Browsers : StreamOfIsExact(b)
  BY DEF Init, StreamOfIsExact
<1>6. AnswerIsSound
  BY DEF Init, AnswerIsSound
<1> QED BY <1>1, <1>2, <1>3, <1>4, <1>5, <1>6 DEF DashboardInv

\* The record that is handled next.
LEMMA NextRecord ==
  ASSUME TypeOK, pos < Len(Log)
  PROVE  /\ pos \in Nat /\ start \in Nat /\ start <= pos /\ pos + 1 \in DOMAIN Log
         /\ Log[pos + 1].type \in Keys /\ Log[pos + 1].minute \in 0..(Now - 1)
<1>1. Len(Log) \in Nat /\ DOMAIN Log = 1..Len(Log)
  BY DashboardAssumption
<1>2. start \in 0..committed /\ committed \in 0..pos /\ pos \in 0..Len(Log)
  BY DEF TypeOK
<1>3. pos \in Nat /\ start \in Nat /\ start <= pos
  BY <1>1, <1>2
<1>4. pos + 1 \in DOMAIN Log
  BY <1>1, <1>3
<1> QED BY <1>3, <1>4, DashboardAssumption DEF Keys

-----------------------------------------------------------------------------
(* The table and what was shown of it.                                     *)

\* A step that handles no record, stores at least what was stored, and shows nothing new.
LEMMA StoredStays ==
  ASSUME DashboardInv, pos' \in Nat, pos' <= pos, table \cup unstored \subseteq table' \cup unstored',
         pc' = "persist" => pc = "persist" /\ pos' = pos,
         \A i \in 1..pos' : pc = "persist" /\ i = pos /\ IsAttack(i) /\ pc' # "persist" =>
           Log[i].id \in table' \cup unstored',
         \A s \in {ready', fanned'} : \A n \in DOMAIN s : s[n] <= pos' /\ (pc' = "persist" => s[n] < pos')
  PROVE  HandledIsStored'
<1>1. pos \in Nat
  BY DashboardAssumption DEF DashboardInv, TypeOK
<1>2. ASSUME NEW i \in 1..pos', IsAttack(i), ~(pc' = "persist" /\ i = pos')
      PROVE  Log[i].id \in table' \cup unstored'
  <2>1. i \in 1..pos
    BY <1>1
  <2>2. CASE pc = "persist" /\ i = pos
    BY <1>2, <2>2
  <2>3. CASE ~(pc = "persist" /\ i = pos)
    BY <1>2, <2>1, <2>3 DEF DashboardInv, HandledIsStored
  <2> QED BY <2>2, <2>3
<1> QED BY <1>2 DEF HandledIsStored, IsAttack

\* A step of the event loop shows what was ready, and one of another thread nothing.
LEMMA ShownStays ==
  ASSUME DashboardInv,
         \A s \in {ready', fanned'} : \A n \in DOMAIN s : \E r \in {ready, fanned} : \E m \in DOMAIN r : s[n] = r[m],
         UNCHANGED <<pos, pc, table, unstored>>
  PROVE  HandledIsStored'
<1>1. pos \in Nat
  BY DashboardAssumption DEF DashboardInv, TypeOK
<1>2. \A s \in {ready', fanned'} : \A n \in DOMAIN s : s[n] <= pos' /\ (pc' = "persist" => s[n] < pos')
  BY DEF DashboardInv, HandledIsStored
<1> QED BY <1>1, <1>2, StoredStays

\* What was seen or committed is stored.
LEMMA StoredStep == DashboardInv /\ [Next]_vars => InHand' /\ HandledIsStored'
<1> SUFFICES ASSUME DashboardInv, [Next]_vars PROVE InHand' /\ HandledIsStored'
  OBVIOUS
<1> USE DEF busVars, storeVars, tableVars, streamVars, readVars
<1>0. /\ pos \in Nat /\ committed \in Nat /\ committed <= pos
      /\ ready \in Seq(DOMAIN Log) /\ fanned \in Seq(DOMAIN Log)
  BY DashboardAssumption DEF DashboardInv, TypeOK
<1>1. CASE Start
  <2>1. UNCHANGED <<pos, committed, table, unstored, ready, fanned>> /\ pc = "down" /\ pc' = "poll"
    BY <1>1 DEF Start
  <2>2. \A s \in {ready', fanned'} : \A n \in DOMAIN s : s[n] <= pos' /\ (pc' = "persist" => s[n] < pos')
    BY <2>1 DEF DashboardInv, HandledIsStored
  <2>3. HandledIsStored'
    BY <1>0, <2>1, <2>2, StoredStays
  <2> QED BY <2>1, <2>3 DEF InHand
<1>2. CASE Record
  <2>1. /\ pc = "poll" /\ pos' = pos + 1 /\ UNCHANGED <<committed, table, unstored, ready, fanned>>
        /\ pc' = IF IsAttack(pos + 1) THEN "persist" ELSE "publish"
    BY <1>2 DEF Record, IsAttack
  <2>2. InHand'
    BY <1>0, <2>1 DEF InHand, IsAttack
  <2>3. ASSUME NEW i \in 1..pos', IsAttack(i), ~(pc' = "persist" /\ i = pos')
        PROVE  Log[i].id \in table' \cup unstored'
    <3>1. i \in 1..pos \/ i = pos + 1
      BY <1>0, <2>1
    <3>2. i \in 1..pos
      BY <2>1, <2>3, <3>1
    <3> QED BY <2>1, <2>3, <3>2 DEF DashboardInv, HandledIsStored
  <2>4. ASSUME NEW s \in {ready', fanned'}, NEW n \in DOMAIN s PROVE s[n] <= pos' /\ s[n] < pos'
    <3>1. s \in {ready, fanned}
      BY <2>1
    <3>2. s[n] <= pos
      BY <3>1 DEF DashboardInv, HandledIsStored
    <3>3. s[n] \in DOMAIN Log
      BY <1>0, <3>1, ElementOfSeq, LenProperties
    <3>4. s[n] \in Nat
      BY <3>3, DashboardAssumption
    <3> QED BY <1>0, <2>1, <3>2, <3>4
  <2> QED BY <2>2, <2>3, <2>4 DEF HandledIsStored, IsAttack
<1>3. CASE Persist
  <2>1. /\ pc = "persist" /\ pc' = "publish" /\ UNCHANGED <<pos, committed, ready, fanned>>
        /\ table \cup unstored \subseteq table' \cup unstored'
        /\ Log[pos].id \in table' \cup unstored'
    BY <1>3 DEF Persist
  <2>2. InHand'
    BY <2>1 DEF InHand, DashboardInv
  <2>3. \A s \in {ready', fanned'} : \A n \in DOMAIN s : s[n] <= pos' /\ (pc' = "persist" => s[n] < pos')
    BY <2>1 DEF DashboardInv, HandledIsStored
  <2> QED BY <1>0, <2>1, <2>2, <2>3, StoredStays
<1>4. CASE Publish
  <2>1. /\ pc = "publish" /\ pc' = "poll" /\ UNCHANGED <<pos, committed, table, unstored, fanned>>
        /\ ready' \in {ready, Append(ready, pos)}
    BY <1>4 DEF Publish
  <2>2. InHand'
    BY <2>1 DEF InHand
  <2>3. ASSUME NEW s \in {ready', fanned'}, NEW n \in DOMAIN s PROVE s[n] <= pos'
    <3>1. CASE s \in {ready, fanned}
      BY <2>1, <3>1 DEF DashboardInv, HandledIsStored
    <3>2. CASE s = Append(ready, pos)
      <4>1. /\ Len(ready) \in Nat /\ DOMAIN ready = 1..Len(ready)
            /\ DOMAIN s = 1..(Len(ready) + 1) /\ s[Len(ready) + 1] = pos
            /\ \A m \in 1..Len(ready) : s[m] = ready[m]
        BY <1>0, <3>2, AppendProperties, LenProperties
      <4>2. n \in 1..Len(ready) \/ n = Len(ready) + 1
        BY <4>1
      <4>3. CASE n \in 1..Len(ready)
        BY <2>1, <4>1, <4>3 DEF DashboardInv, HandledIsStored
      <4>4. CASE n = Len(ready) + 1
        BY <1>0, <2>1, <4>1, <4>4
      <4> QED BY <4>2, <4>3, <4>4
    <3> QED BY <2>1, <3>1, <3>2
  <2> QED BY <1>0, <2>1, <2>2, <2>3, StoredStays
<1>5. CASE Commit
  <2>1. pc = "poll" /\ UNCHANGED <<pos, pc, table, unstored, ready, fanned>>
    BY <1>5 DEF Commit
  <2>2. InHand'
    BY <2>1 DEF InHand
  <2> QED BY <2>1, <2>2, ShownStays
<1>6. CASE Crash
  <2>1. /\ pc' = "down" /\ pos' = committed /\ UNCHANGED <<committed, table, unstored>>
        /\ ready' = <<>> /\ fanned' = <<>>
    BY <1>6 DEF Crash
  <2>2. InHand'
    BY <2>1 DEF InHand
  <2>3. \A i \in 1..pos' : ~(pc = "persist" /\ i = pos)
    BY <1>0, <2>1 DEF DashboardInv, InHand
  <2>4. \A s \in {ready', fanned'} : \A n \in DOMAIN s : s[n] <= pos' /\ (pc' = "persist" => s[n] < pos')
    BY <2>1
  <2> QED BY <1>0, <2>1, <2>2, <2>3, <2>4, StoredStays
<1>7. CASE Fanout
  <2>1. /\ ready # <<>> /\ ready' = Tail(ready) /\ fanned' = Append(fanned, Head(ready))
        /\ UNCHANGED <<pos, pc, committed, table, unstored>>
    BY <1>7 DEF Fanout
  <2>2. InHand'
    BY <2>1 DEF InHand, DashboardInv
  <2>3. /\ Len(ready) \in Nat /\ Len(fanned) \in Nat /\ DOMAIN ready = 1..Len(ready)
        /\ DOMAIN fanned = 1..Len(fanned) /\ Len(ready) >= 1
    BY <1>0, <2>1, LenProperties, EmptySeq
  <2>4. ASSUME NEW n \in DOMAIN ready' PROVE n + 1 \in DOMAIN ready /\ ready'[n] = ready[n + 1]
    BY <1>0, <2>1, <2>3, <2>4, HeadTailProperties
  <2>5. ASSUME NEW n \in DOMAIN fanned'
        PROVE  (n \in DOMAIN fanned /\ fanned'[n] = fanned[n]) \/ fanned'[n] = ready[1]
    <3>1. Head(ready) = ready[1] /\ Head(ready) \in DOMAIN Log
      BY <1>0, <2>1, HeadTailProperties
    <3>2. DOMAIN fanned' = 1..(Len(fanned) + 1)
      BY <1>0, <2>1, <3>1, AppendProperties, LenProperties
    <3>3. \A m \in 1..Len(fanned) : fanned'[m] = fanned[m]
      BY <1>0, <2>1, <3>1, AppendProperties
    <3>4. fanned'[Len(fanned) + 1] = Head(ready)
      BY <1>0, <2>1, <3>1, AppendProperties
    <3> QED BY <2>3, <3>1, <3>2, <3>3, <3>4
  <2>6. 1 \in DOMAIN ready
    BY <2>3
  <2>7. ASSUME NEW s \in {ready', fanned'}, NEW n \in DOMAIN s
        PROVE  \E r \in {ready, fanned} : \E m \in DOMAIN r : s[n] = r[m]
    BY <2>4, <2>5, <2>6
  <2> QED BY <2>1, <2>2, <2>7, ShownStays
<1>8. ASSUME NEW b \in Browsers, Open(b) \/ Send(b) \/ Leave(b) PROVE InHand' /\ HandledIsStored'
  <2>1. UNCHANGED <<pos, pc, committed, table, unstored, ready, fanned>>
    BY <1>8 DEF Open, Send, Leave, BrowserFrame
  <2> QED BY <2>1, ShownStays DEF InHand, DashboardInv
<1>9. ASSUME (\E q \in Queries : Ask(q)) \/ Execute \/ Answer PROVE InHand' /\ HandledIsStored'
  <2>1. UNCHANGED <<pos, pc, committed, table, unstored, ready, fanned>>
    BY <1>9 DEF Ask, Execute, Answer, ReadFrame
  <2> QED BY <2>1, ShownStays DEF InHand, DashboardInv
<1>10. CASE UNCHANGED vars
  BY <1>10, ShownStays DEF InHand, DashboardInv, vars
<1> QED BY <1>1, <1>2, <1>3, <1>4, <1>5, <1>6, <1>7, <1>8, <1>9, <1>10 DEF Next

-----------------------------------------------------------------------------
(* The streams.                                                            *)

\* The types of what the event loop holds.
StreamTypesOf(b) ==
  /\ queue[b] \in Seq(DOMAIN Log) /\ sent[b] \in Seq(DOMAIN Log)
  /\ Len(queue[b]) <= QueueMax
  /\ joined[b] \in 0..Len(fanned) /\ lost[b] \subseteq DOMAIN fanned

StreamTypes ==
  /\ ready \in Seq(DOMAIN Log) /\ fanned \in Seq(DOMAIN Log)
  /\ open \in [Browsers -> BOOLEAN]
  /\ queue = [b \in Browsers |-> queue[b]] /\ sent = [b \in Browsers |-> sent[b]]
  /\ joined = [b \in Browsers |-> joined[b]] /\ lost = [b \in Browsers |-> lost[b]]
  /\ \A b \in Browsers : StreamTypesOf(b)

\* The rank of n in D.
Rank(D, n) == Cardinality({m \in D : m <= n})

\* A number above all others of a set is its last one, and changes no other rank.
LEMMA LastRank ==
  ASSUME NEW n \in Nat, NEW D \in SUBSET (1..n)
  PROVE  /\ IsFiniteSet(D) /\ Cardinality(D) \in Nat
         /\ Cardinality(D \cup {n + 1}) = Cardinality(D) + 1
         /\ Rank(D \cup {n + 1}, n + 1) = Cardinality(D) + 1
         /\ \A k \in D : Rank(D \cup {n + 1}, k) = Rank(D, k)
         /\ \A k \in D : Rank(D, k) \in 1..Cardinality(D)
<1>1. IsFiniteSet(D) /\ Cardinality(D) \in Nat
  <2>1. IsFiniteSet(1..n)
    BY FS_Interval
  <2> QED BY <2>1, FS_Subset, FS_CardinalityType
<1>2. n + 1 \notin D
  OBVIOUS
<1>3. Cardinality(D \cup {n + 1}) = Cardinality(D) + 1
  BY <1>1, <1>2, FS_AddElement
<1>4. {m \in D \cup {n + 1} : m <= n + 1} = D \cup {n + 1}
  <2>1. \A m \in D \cup {n + 1} : m <= n + 1
    OBVIOUS
  <2> QED BY <2>1
<1>5. \A k \in D : {m \in D \cup {n + 1} : m <= k} = {m \in D : m <= k}
  OBVIOUS
<1>6. ASSUME NEW k \in D PROVE Rank(D, k) \in 1..Cardinality(D)
  <2>1. {m \in D : m <= k} \in SUBSET D /\ k \in {m \in D : m <= k}
    OBVIOUS
  <2>2. Rank(D, k) \in Nat /\ Rank(D, k) <= Cardinality(D)
    BY <1>1, <2>1, FS_Subset, FS_CardinalityType DEF Rank
  <2>3. IsFiniteSet({m \in D : m <= k})
    BY <1>1, <2>1, FS_Subset
  <2>4. Rank(D, k) # 0
    BY <2>1, <2>3, FS_EmptySet DEF Rank
  <2> QED BY <1>1, <2>2, <2>4
<1> QED BY <1>1, <1>3, <1>4, <1>5, <1>6 DEF Rank

\* What is appended to the second of two sequences is appended to both.
LEMMA AppendToConcat ==
  ASSUME NEW T, NEW s \in Seq(T), NEW q \in Seq(T), NEW h \in T
  PROVE  s \o Append(q, h) = Append(s \o q, h)
<1>1. <<h>> \in Seq(T) /\ s \o q \in Seq(T)
  BY ConcatProperties
<1>2. Append(q, h) = q \o <<h>> /\ Append(s \o q, h) = (s \o q) \o <<h>>
  BY <1>1, AppendIsConcat
<1> QED BY <1>1, <1>2, ConcatAssociative

\* What goes from the head of the second to the end of the first changes nothing of both.
LEMMA HeadMoves ==
  ASSUME NEW T, NEW s \in Seq(T), NEW q \in Seq(T), q # <<>>
  PROVE  /\ Append(s, Head(q)) \in Seq(T) /\ Tail(q) \in Seq(T)
         /\ Append(s, Head(q)) \o Tail(q) = s \o q
<1>1. PICK h \in T : h = Head(q)
  BY HeadTailProperties
<1>2. Len(q) \in Nat /\ 1 \in 1..Len(q) /\ Len(q) \in 1..Len(q)
  BY EmptySeq
<1>3. Tail(q) \in Seq(T) /\ <<h>> \in Seq(T) /\ Append(s, h) \in Seq(T)
  BY HeadTailProperties, AppendProperties
<1>4. q = <<h>> \o Tail(q)
  <2>1. SubSeq(q, 1, Len(q)) = q /\ SubSeq(q, 2, Len(q)) = Tail(q)
    BY SubSeqFull, TailIsSubSeq
  <2>2. SubSeq(q, 1, Len(q)) = <<q[1]>> \o SubSeq(q, 1 + 1, Len(q))
    BY <1>2, SubSeqRecursiveFirst
  <2>3. q[1] = h
    BY <1>1 DEF Head
  <2> QED BY <2>1, <2>2, <2>3
<1>5. Append(s, h) = s \o <<h>>
  BY AppendIsConcat
<1>6. (s \o <<h>>) \o Tail(q) = s \o (<<h>> \o Tail(q))
  BY <1>3, ConcatAssociative
<1> QED BY <1>1, <1>3, <1>4, <1>5, <1>6

\* Every browser that is due an item gets it, or its queue is full.
LEMMA FanoutStream ==
  ASSUME DashboardInv, StreamTypes, Fanout, NEW b \in Browsers
  PROVE  StreamTypesOf(b)' /\ StreamOfIsExact(b)'
<1>1. /\ ready \in Seq(DOMAIN Log) /\ fanned \in Seq(DOMAIN Log) /\ ready # <<>>
      /\ StreamTypesOf(b) /\ StreamOfIsExact(b) /\ open[b] \in BOOLEAN /\ QueueMax \in Nat
  BY DashboardAssumption DEF StreamTypes, DashboardInv, Fanout
<1>2. PICK n \in Nat : n = Len(fanned)
  BY <1>1, LenProperties
<1>3. PICK h \in DOMAIN Log : h = Head(ready)
  BY <1>1, HeadTailProperties
<1>4. fanned' = Append(fanned, h) /\ UNCHANGED <<open, joined, sent>>
  BY <1>3 DEF Fanout
<1>5. /\ Len(fanned') = n + 1 /\ fanned'[n + 1] = h /\ \A k \in 1..n : fanned'[k] = fanned[k]
      /\ DOMAIN fanned = 1..n /\ DOMAIN fanned' = 1..(n + 1)
  BY <1>1, <1>2, <1>4, AppendProperties, LenProperties
<1>6. joined[b] \in 0..n /\ lost[b] \subseteq 1..n
  BY <1>1, <1>2, <1>5 DEF StreamTypesOf
<1>7. Due(b) \in SUBSET (1..n)
  BY <1>2, <1>6 DEF Due
<1>8. CASE ~open[b]
  <2>1. queue'[b] = queue[b] /\ lost'[b] = lost[b]
    BY <1>8 DEF Fanout, Subscribed
  <2>2. StreamTypesOf(b)'
    BY <1>1, <1>4, <1>5, <1>6, <2>1 DEF StreamTypesOf
  <2> QED BY <1>1, <1>4, <1>8, <2>1, <2>2 DEF StreamOfIsExact
<1>9. CASE open[b] /\ Full(b)
  <2>1. queue'[b] = queue[b] /\ lost'[b] = lost[b] \cup {n + 1}
    BY <1>2, <1>9 DEF Fanout, Subscribed
  <2>2. StreamTypesOf(b)'
    BY <1>1, <1>4, <1>5, <1>6, <2>1 DEF StreamTypesOf
  <2>3. Due(b)' = Due(b)
    <3>1. (joined[b] + 1)..(n + 1) \subseteq ((joined[b] + 1)..n) \cup {n + 1}
      BY <1>6
    <3>2. ((joined[b] + 1)..n) \subseteq (joined[b] + 1)..(n + 1) /\ n + 1 \notin (joined[b] + 1)..n
      BY <1>6
    <3> QED BY <1>2, <1>4, <1>5, <2>1, <3>1, <3>2 DEF Due
  <2>4. Received(b)' = Received(b)
    BY <1>4, <2>1 DEF Received
  <2>5. \A k \in Due(b) : fanned'[k] = fanned[k]
    BY <1>5, <1>7
  <2> QED BY <1>1, <1>4, <1>9, <2>2, <2>3, <2>4, <2>5 DEF StreamOfIsExact
<1>10. CASE open[b] /\ ~Full(b)
  <2>1. queue'[b] = Append(queue[b], h) /\ lost'[b] = lost[b]
    BY <1>3, <1>10 DEF Fanout, Subscribed
  <2>2. /\ queue[b] \in Seq(DOMAIN Log) /\ sent[b] \in Seq(DOMAIN Log)
        /\ Len(queue[b]) \in Nat /\ Len(sent[b]) \in Nat
    BY <1>1, LenProperties DEF StreamTypesOf
  <2>3. /\ queue'[b] \in Seq(DOMAIN Log) /\ Len(queue'[b]) = Len(queue[b]) + 1
        /\ queue'[b][Len(queue[b]) + 1] = h
        /\ \A k \in 1..Len(queue[b]) : queue'[b][k] = queue[b][k]
    BY <2>1, <2>2, AppendProperties
  <2>4. StreamTypesOf(b)'
    <3>1. Len(queue'[b]) <= QueueMax
      BY <1>1, <1>10, <2>2, <2>3 DEF Full
    <3> QED BY <1>4, <1>5, <1>6, <2>1, <2>2, <2>3, <3>1 DEF StreamTypesOf
  <2>5. Due(b)' = Due(b) \cup {n + 1}
    <3>1. (joined[b] + 1)..(n + 1) = ((joined[b] + 1)..n) \cup {n + 1}
      BY <1>6
    <3>2. n + 1 \notin lost[b]
      BY <1>6
    <3> QED BY <1>2, <1>4, <1>5, <2>1, <3>1, <3>2 DEF Due
  <2>6. Received(b) \in Seq(DOMAIN Log) /\ Received(b)' = Append(Received(b), h)
    <3>1. Received(b)' = sent[b] \o Append(queue[b], h)
      BY <1>4, <2>1 DEF Received
    <3>2. sent[b] \o Append(queue[b], h) = Append(sent[b] \o queue[b], h)
      <4>1. PICK s \in Seq(DOMAIN Log), q \in Seq(DOMAIN Log) : s = sent[b] /\ q = queue[b]
        BY <2>2
      <4>2. s \o Append(q, h) = Append(s \o q, h)
        BY AppendToConcat
      <4> QED BY <4>1, <4>2
    <3>3. sent[b] \o queue[b] \in Seq(DOMAIN Log)
      BY <2>2, ConcatProperties
    <3> QED BY <3>1, <3>2, <3>3 DEF Received
  <2>7. PICK l \in Nat : l = Len(Received(b))
    BY <2>6, LenProperties
  <2>8. /\ Len(Received(b)') = l + 1 /\ Received(b)'[l + 1] = h
        /\ \A k \in 1..l : Received(b)'[k] = Received(b)[k]
    BY <2>6, <2>7, AppendProperties
  <2>10. Cardinality(Due(b)) = l /\ \A k \in Due(b) : Received(b)[Rank(Due(b), k)] = fanned[k]
    BY <1>1, <1>10, <2>7 DEF StreamOfIsExact, Rank
  <2>11. Len(Received(b)') = Cardinality(Due(b)')
    BY <1>7, <2>5, <2>8, <2>10, LastRank
  <2>12. ASSUME NEW k \in Due(b)' PROVE Received(b)'[Rank(Due(b)', k)] = fanned'[k]
    <3>1. CASE k = n + 1
      <4>1. Rank(Due(b)', n + 1) = l + 1
        BY <1>7, <2>5, <2>10, LastRank
      <4> QED BY <1>5, <2>8, <3>1, <4>1
    <3>2. CASE k \in Due(b)
      <4>1. Rank(Due(b)', k) = Rank(Due(b), k) /\ Rank(Due(b), k) \in 1..l
        BY <1>7, <2>5, <2>10, <3>2, LastRank
      <4>2. fanned'[k] = fanned[k]
        BY <1>5, <1>7, <3>2
      <4> QED BY <2>8, <2>10, <3>2, <4>1, <4>2
    <3> QED BY <2>5, <3>1, <3>2
  <2> QED BY <1>4, <1>10, <2>4, <2>11, <2>12 DEF StreamOfIsExact, Rank
<1> QED BY <1>1, <1>8, <1>9, <1>10

\* The types of the module's invariant, and back.
LEMMA StreamsAreTyped == DashboardInv => StreamTypes
<1> SUFFICES ASSUME DashboardInv PROVE StreamTypes
  OBVIOUS
<1>1. TypeOK /\ DashboardTypes
  BY DEF DashboardInv
<1> QED BY <1>1 DEF TypeOK, DashboardTypes, StreamTypes, StreamTypesOf

\* What the types of the module say of the streams.
StreamsHaveTypes ==
  /\ ready \in Seq(DOMAIN Log) /\ fanned \in Seq(DOMAIN Log) /\ open \in [Browsers -> BOOLEAN]
  /\ queue \in [Browsers -> Seq(DOMAIN Log)] /\ sent \in [Browsers -> Seq(DOMAIN Log)]
  /\ joined \in [Browsers -> Nat] /\ lost \in [Browsers -> SUBSET Nat]
  /\ \A b \in Browsers : /\ Len(queue[b]) <= QueueMax
                         /\ joined[b] \in 0..Len(fanned) /\ lost[b] \subseteq DOMAIN fanned
                         /\ ~open[b] => queue[b] \o sent[b] = <<>>

\* The types of the streams, from those of queues and histories.
LEMMA TypesOfStreams ==
  ASSUME StreamTypes, \A b \in Browsers : StreamOfIsExact(b)
  PROVE  StreamsHaveTypes
<1>1. \A b \in Browsers : StreamTypesOf(b)
  BY DEF StreamTypes
<1>2. Len(fanned) \in Nat /\ DOMAIN fanned = 1..Len(fanned)
  BY LenProperties DEF StreamTypes
<1>3. \A b \in Browsers : joined[b] \in Nat /\ lost[b] \in SUBSET Nat
  BY <1>1, <1>2 DEF StreamTypesOf
<1>4. \A b \in Browsers : queue[b] \in Seq(DOMAIN Log) /\ sent[b] \in Seq(DOMAIN Log)
  BY <1>1 DEF StreamTypesOf
<1>5. /\ queue \in [Browsers -> Seq(DOMAIN Log)] /\ sent \in [Browsers -> Seq(DOMAIN Log)]
      /\ joined \in [Browsers -> Nat] /\ lost \in [Browsers -> SUBSET Nat]
  BY <1>3, <1>4 DEF StreamTypes
<1>6. \A b \in Browsers : ~open[b] => queue[b] \o sent[b] = <<>>
  <2>1. \A b \in Browsers : ~open[b] => queue[b] = <<>> /\ sent[b] = <<>>
    BY DEF StreamOfIsExact
  <2>2. <<>> \o <<>> = <<>>
    BY EmptySeq, ConcatEmptySeq
  <2> QED BY <2>1, <2>2
<1> QED BY <1>1, <1>5, <1>6 DEF StreamTypes, StreamTypesOf, StreamsHaveTypes

\* A stream that a step leaves alone.
LEMMA SameStream ==
  ASSUME NEW b \in Browsers, StreamTypesOf(b), StreamOfIsExact(b), fanned' = fanned,
         open'[b] = open[b], queue'[b] = queue[b], sent'[b] = sent[b],
         joined'[b] = joined[b], lost'[b] = lost[b]
  PROVE  StreamTypesOf(b)' /\ StreamOfIsExact(b)'
<1>1. Due(b)' = Due(b) /\ Received(b)' = Received(b)
  BY DEF Due, Received
<1> QED BY <1>1 DEF StreamTypesOf, StreamOfIsExact

\* A browser that has left has nothing, and one that has just come is due nothing.
LEMMA NoStream ==
  ASSUME NEW b \in Browsers, queue'[b] = <<>>, sent'[b] = <<>>, open'[b] => Due(b)' = {}
  PROVE  StreamOfIsExact(b)'
<1>1. CASE ~open'[b]
  BY <1>1 DEF StreamOfIsExact
<1>2. CASE open'[b]
  <2>1. Due(b)' = {} /\ Cardinality(Due(b)') = 0
    BY <1>2, FS_EmptySet
  <2>2. Received(b)' = <<>> /\ Len(Received(b)') = 0
    BY EmptySeq, ConcatEmptySeq DEF Received
  <2> QED BY <1>2, <2>1, <2>2 DEF StreamOfIsExact
<1> QED BY <1>1, <1>2

\* A browser that comes, is sent an item or leaves.
LEMMA BrowserStream ==
  ASSUME DashboardInv, StreamTypes, NEW b \in Browsers, Open(b) \/ Send(b) \/ Leave(b)
  PROVE  StreamTypes' /\ \A c \in Browsers : StreamOfIsExact(c)'
<1>1. /\ ready' = ready /\ fanned' = fanned /\ Len(fanned) \in Nat /\ DOMAIN fanned = 1..Len(fanned)
      /\ StreamTypesOf(b) /\ StreamOfIsExact(b) /\ open \in [Browsers -> BOOLEAN]
      /\ DOMAIN queue = Browsers /\ DOMAIN sent = Browsers
      /\ DOMAIN joined = Browsers /\ DOMAIN lost = Browsers /\ DOMAIN open = Browsers
  BY LenProperties DEF StreamTypes, DashboardInv, Open, Send, Leave, BrowserFrame
<1>2. ASSUME NEW c \in Browsers, c # b PROVE StreamTypesOf(c)' /\ StreamOfIsExact(c)'
  <2>1. /\ open'[c] = open[c] /\ queue'[c] = queue[c] /\ sent'[c] = sent[c]
        /\ joined'[c] = joined[c] /\ lost'[c] = lost[c]
    BY <1>1, <1>2 DEF Open, Send, Leave
  <2> QED BY <1>1, <2>1, SameStream DEF StreamTypes, DashboardInv
<1>3. /\ open' \in [Browsers -> BOOLEAN]
      /\ queue' = [c \in Browsers |-> queue'[c]] /\ sent' = [c \in Browsers |-> sent'[c]]
      /\ joined' = [c \in Browsers |-> joined'[c]] /\ lost' = [c \in Browsers |-> lost'[c]]
  BY <1>1 DEF Open, Send, Leave, StreamTypes
<1>4. ASSUME Open(b) PROVE StreamTypesOf(b)' /\ StreamOfIsExact(b)'
  <2>1. /\ open'[b] = TRUE /\ joined'[b] = Len(fanned) /\ queue'[b] = <<>> /\ sent'[b] = <<>>
        /\ lost'[b] = lost[b] /\ queue[b] = <<>> /\ sent[b] = <<>>
    BY <1>1, <1>4 DEF Open, StreamOfIsExact
  <2>2. StreamTypesOf(b)'
    BY <1>1, <2>1 DEF StreamTypesOf
  <2>3. Due(b)' = {}
    <3>1. (Len(fanned) + 1)..Len(fanned) = {}
      BY <1>1
    <3> QED BY <1>1, <2>1, <3>1 DEF Due
  <2>4. StreamOfIsExact(b)'
    BY <2>1, <2>3, NoStream
  <2> QED BY <2>2, <2>4
<1>5. ASSUME Send(b) PROVE StreamTypesOf(b)' /\ StreamOfIsExact(b)'
  <2>1. /\ queue[b] \in Seq(DOMAIN Log) /\ sent[b] \in Seq(DOMAIN Log) /\ queue[b] # <<>>
        /\ sent'[b] = Append(sent[b], Head(queue[b])) /\ queue'[b] = Tail(queue[b])
        /\ joined'[b] = joined[b] /\ lost'[b] = lost[b] /\ open'[b] = open[b] /\ open[b]
    BY <1>1, <1>5 DEF Send, StreamTypesOf, StreamOfIsExact
  <2>2. sent'[b] \in Seq(DOMAIN Log) /\ queue'[b] \in Seq(DOMAIN Log) /\ Received(b)' = Received(b)
    <3>1. Append(sent[b], Head(queue[b])) \in Seq(DOMAIN Log) /\ Tail(queue[b]) \in Seq(DOMAIN Log)
      BY <2>1, HeadMoves
    <3>2. Append(sent[b], Head(queue[b])) \o Tail(queue[b]) = sent[b] \o queue[b]
      <4>1. PICK s \in Seq(DOMAIN Log), q \in Seq(DOMAIN Log) : s = sent[b] /\ q = queue[b]
        BY <2>1
      <4>2. q # <<>>
        BY <2>1, <4>1
      <4>3. Append(s, Head(q)) \o Tail(q) = s \o q
        BY <4>2, HeadMoves
      <4> QED BY <4>1, <4>3
    <3>3. Received(b)' = Append(sent[b], Head(queue[b])) \o Tail(queue[b])
      BY <2>1 DEF Received
    <3> QED BY <2>1, <3>1, <3>2, <3>3 DEF Received
  <2>3. Len(queue'[b]) <= QueueMax
    <3>1. Len(queue'[b]) = Len(queue[b]) - 1 /\ Len(queue[b]) \in Nat
      BY <2>1, HeadTailProperties, LenProperties
    <3> QED BY <1>1, <3>1, DashboardAssumption DEF StreamTypesOf
  <2>4. StreamTypesOf(b)'
    BY <1>1, <2>1, <2>2, <2>3 DEF StreamTypesOf
  <2>5. Due(b)' = Due(b)
    BY <1>1, <2>1 DEF Due
  <2>6. StreamOfIsExact(b) /\ fanned' = fanned
    BY <1>1
  <2>7. StreamOfIsExact(b)'
    <3>1. /\ Len(Received(b)) = Cardinality(Due(b))
          /\ \A n \in Due(b) : Received(b)[Rank(Due(b), n)] = fanned[n]
      BY <2>1, <2>6 DEF StreamOfIsExact, Rank
    <3>2. /\ Len(Received(b)') = Cardinality(Due(b)')
          /\ \A n \in Due(b)' : Received(b)'[Rank(Due(b)', n)] = fanned'[n]
      BY <2>2, <2>5, <2>6, <3>1
    <3> QED BY <2>1, <3>2 DEF StreamOfIsExact, Rank
  <2> QED BY <2>4, <2>7
<1>6. ASSUME Leave(b) PROVE StreamTypesOf(b)' /\ StreamOfIsExact(b)'
  <2>1. /\ open'[b] = FALSE /\ queue'[b] = <<>> /\ sent'[b] = <<>> /\ joined'[b] = 0 /\ lost'[b] = {}
    BY <1>1, <1>6 DEF Leave
  <2>2. Len(<<>>) <= QueueMax /\ <<>> \in Seq(DOMAIN Log)
    BY DashboardAssumption, EmptySeq
  <2>3. StreamTypesOf(b)'
    BY <1>1, <2>1, <2>2 DEF StreamTypesOf
  <2>4. StreamOfIsExact(b)'
    BY <2>1, NoStream
  <2> QED BY <2>3, <2>4
<1>7. StreamTypesOf(b)' /\ StreamOfIsExact(b)'
  BY <1>4, <1>5, <1>6
<1>8. \A c \in Browsers : StreamTypesOf(c)' /\ StreamOfIsExact(c)'
  BY <1>2, <1>7
<1> QED BY <1>1, <1>3, <1>8 DEF StreamTypes

\* The streams are exact after every step.
LEMMA StreamStep == DashboardInv /\ [Next]_vars => StreamTypes' /\ \A b \in Browsers : StreamOfIsExact(b)'
<1> SUFFICES ASSUME DashboardInv, [Next]_vars PROVE StreamTypes' /\ \A b \in Browsers : StreamOfIsExact(b)'
  OBVIOUS
<1> USE DEF busVars, storeVars, tableVars, streamVars, readVars
<1>0. StreamTypes /\ (\A b \in Browsers : StreamTypesOf(b)) /\ \A b \in Browsers : StreamOfIsExact(b)
  BY StreamsAreTyped DEF DashboardInv, StreamTypes
<1>1. ASSUME UNCHANGED streamVars PROVE StreamTypes' /\ \A b \in Browsers : StreamOfIsExact(b)'
  <2>1. \A b \in Browsers : StreamTypesOf(b)' /\ StreamOfIsExact(b)'
    BY <1>0, <1>1, SameStream
  <2> QED BY <1>0, <1>1, <2>1 DEF StreamTypes
<1>2. CASE Start \/ Record \/ Persist \/ Commit \/ UNCHANGED vars
  BY <1>1, <1>2 DEF Start, Record, Persist, Commit, vars
<1>3. CASE (\E q \in Queries : Ask(q)) \/ Execute \/ Answer
  BY <1>1, <1>3 DEF Ask, Execute, Answer, ReadFrame
<1>4. CASE Publish
  <2>1. /\ fanned' = fanned /\ UNCHANGED <<open, queue, joined, sent, lost>>
        /\ ready' \in {ready, Append(ready, pos)}
    BY <1>4 DEF Publish
  <2>2. pos \in DOMAIN Log
    <3>1. committed \in 0..pos /\ pos \in 0..Len(Log) /\ committed < pos
      BY <1>4 DEF Publish, DashboardInv, InHand, TypeOK
    <3>2. Len(Log) \in Nat /\ DOMAIN Log = 1..Len(Log)
      BY DashboardAssumption
    <3> QED BY <3>1, <3>2
  <2>3. ready' \in Seq(DOMAIN Log)
    <3>1. ready \in Seq(DOMAIN Log)
      BY <1>0 DEF StreamTypes
    <3>2. Append(ready, pos) \in Seq(DOMAIN Log)
      BY <2>2, <3>1, AppendProperties
    <3> QED BY <2>1, <3>1, <3>2
  <2>4. \A b \in Browsers : StreamTypesOf(b)' /\ StreamOfIsExact(b)'
    BY <1>0, <2>1, SameStream
  <2> QED BY <1>0, <2>1, <2>3, <2>4 DEF StreamTypes
<1>5. CASE Crash
  <2>1. /\ ready' = <<>> /\ fanned' = <<>> /\ open' = [b \in Browsers |-> FALSE]
        /\ queue' = [b \in Browsers |-> <<>>] /\ joined' = [b \in Browsers |-> 0]
        /\ sent' = [b \in Browsers |-> <<>>] /\ lost' = [b \in Browsers |-> {}]
    BY <1>5 DEF Crash
  <2>2. Len(<<>>) = 0 /\ Len(<<>>) <= QueueMax /\ <<>> \in Seq(DOMAIN Log)
    BY DashboardAssumption, EmptySeq
  <2>3. \A b \in Browsers : StreamTypesOf(b)' /\ StreamOfIsExact(b)'
    BY <2>1, <2>2 DEF StreamTypesOf, StreamOfIsExact
  <2> QED BY <2>1, <2>2, <2>3 DEF StreamTypes
<1>6. CASE Fanout
  <2>1. \A b \in Browsers : StreamTypesOf(b)' /\ StreamOfIsExact(b)'
    BY <1>0, <1>6, FanoutStream
  <2>2. /\ ready \in Seq(DOMAIN Log) /\ fanned \in Seq(DOMAIN Log) /\ ready # <<>>
        /\ ready' = Tail(ready) /\ fanned' = Append(fanned, Head(ready))
    BY <1>0, <1>6 DEF Fanout, StreamTypes
  <2>3. ready' \in Seq(DOMAIN Log) /\ fanned' \in Seq(DOMAIN Log)
    BY <2>2, HeadTailProperties, AppendProperties
  <2>4. /\ open' = open /\ sent' = sent /\ joined' = joined
        /\ queue' = [b \in Browsers |-> queue'[b]] /\ lost' = [b \in Browsers |-> lost'[b]]
    BY <1>6 DEF Fanout
  <2> QED BY <1>0, <2>1, <2>3, <2>4 DEF StreamTypes
<1>7. ASSUME NEW b \in Browsers, Open(b) \/ Send(b) \/ Leave(b)
      PROVE  StreamTypes' /\ \A c \in Browsers : StreamOfIsExact(c)'
  BY <1>0, <1>7, BrowserStream
<1> QED BY <1>1, <1>2, <1>3, <1>4, <1>5, <1>6, <1>7 DEF Next

-----------------------------------------------------------------------------
(* The statements of an answer.                                            *)

\* A quotient is below what its dividend is below a multiple of.
LEMMA QuotientBelow ==
  ASSUME NEW a \in Nat, NEW b \in Nat, NEW c \in Nat, c > 0, a < b * c
  PROVE  a \div c \in Nat /\ a \div c < b
OBVIOUS

\* As many buckets as it takes hold a whole window.
LEMMA BucketsCover ==
  ASSUME NEW a \in Nat, NEW w \in Nat, w > 0
  PROVE  CeilDiv(a, w) \in Nat /\ a <= CeilDiv(a, w) * w /\ (a > 0 => CeilDiv(a, w) > 0)
<1>1. PICK x \in Nat : x = a + w - 1
  OBVIOUS
<1>2. x = w * (x \div w) + (x % w)
  OBVIOUS
<1>3. x % w \in 0..(w - 1)
  OBVIOUS
<1>4. PICK d \in Int : d = x \div w
  OBVIOUS
<1>5. w * d <= x /\ x < w * d + w
  BY <1>2, <1>3, <1>4
<1>6. CeilDiv(a, w) = d
  BY <1>1, <1>4 DEF CeilDiv
<1>7. a <= d * w
  BY <1>1, <1>5
<1>8. d >= 0
  BY <1>1, <1>5
<1>9. a > 0 => d > 0
  BY <1>7, <1>8
<1> QED BY <1>6, <1>7, <1>8, <1>9

\* The statements of the two kinds of answers.
LEMMA StatementFacts ==
  ASSUME NEW q \in Queries
  PROVE  \/ q.hours > 0 /\ Statements(q) = <<"page", "total", "timeline", "count">>
         \/ Statements(q) = <<"page", "total", "count">>
         \/ q.hours > 0 /\ Statements(q) = <<"total", "trend", "timeline">>
<1>1. q.plan \in {"attacks", "overview"} /\ q.hours \in Nat /\ (q.plan = "overview" => q.hours > 0)
  BY DashboardAssumption
<1>2. CASE q.plan = "attacks" /\ q.hours > 0
  BY <1>2 DEF Statements
<1>3. CASE q.plan = "attacks" /\ q.hours = 0
  BY <1>3 DEF Statements
<1>4. CASE q.plan = "overview"
  BY <1>1, <1>4 DEF Statements
<1> QED BY <1>1, <1>2, <1>3, <1>4

\* A row that a window selects has an age within it.
LEMMA AgeFacts ==
  ASSUME table \subseteq Ids, NEW q \in Queries, q.hours > 0, NEW r \in Matching(q)
  PROVE  /\ r \in table /\ q.hours * HourMinutes \in Nat /\ q.hours * HourMinutes > 0
         /\ EventOf(r).minute - FirstMinute(q) \in Nat
         /\ EventOf(r).minute - FirstMinute(q) < q.hours * HourMinutes
<1>1. /\ Now \in Nat /\ HourMinutes \in Nat /\ HourMinutes > 0 /\ q.hours \in Nat
      /\ \A i \in DOMAIN Log : Log[i].minute \in 0..(Now - 1)
  BY DashboardAssumption
<1>2. PICK i \in DOMAIN Log : r = Log[i].id
  BY DEF Matching, Ids
<1>3. EventOf(r) \in {Log[j] : j \in DOMAIN Log}
  BY <1>2 DEF EventOf
<1>4. PICK m \in Int : m = EventOf(r).minute /\ m <= Now - 1
  BY <1>1, <1>3
<1>5. PICK h \in Nat : h = q.hours * HourMinutes
  BY <1>1
<1>6. h > 0
  BY <1>1, <1>5
<1>7. m >= Now - h /\ FirstMinute(q) = Now - h
  BY <1>1, <1>4, <1>5 DEF Matching, FirstMinute
<1>8. m - (Now - h) \in Nat /\ m - (Now - h) < h
  BY <1>1, <1>4, <1>7
<1> QED BY <1>4, <1>5, <1>6, <1>7, <1>8 DEF Matching

\* Every statement but the page covers the rows that the request selects, and every one but
\* the last is about these rows.
LEMMA RowsCover ==
  ASSUME table \subseteq Ids, NEW q \in Queries, NEW n \in 1..Len(Statements(q))
  PROVE  /\ n > 1 => Matching(q) \subseteq Rows(q, Statements(q)[n])
         /\ n < Len(Statements(q)) => Rows(q, Statements(q)[n]) \subseteq Matching(q)
<1>1. Rows(q, "page") \subseteq Matching(q)
  BY DEF Rows, Newest
<1>2. Rows(q, "total") = Matching(q)
  BY DEF Rows
<1>3. Matching(q) \subseteq Rows(q, "count")
  BY DEF Rows, Matching
<1>4. Rows(q, "timeline") \subseteq Matching(q) /\ Rows(q, "trend") \subseteq Matching(q)
  BY DEF Rows
<1>5. ASSUME q.hours > 0 PROVE Matching(q) \subseteq Rows(q, "timeline")
  <2>1. SUFFICES ASSUME NEW r \in Matching(q)
                 PROVE  (EventOf(r).minute - FirstMinute(q)) \div BucketMinutes(q)
                           < BucketCount(q, BucketMinutes(q))
    BY DEF Rows
  <2>2. PICK a \in Nat, h \in Nat : /\ a = EventOf(r).minute - FirstMinute(q)
                                    /\ h = q.hours * HourMinutes /\ a < h
    BY <1>5, AgeFacts
  <2>3. TimelineTarget \in Nat /\ TimelineTarget > 0
    BY DashboardAssumption
  <2>4. PICK w \in Nat : w = CeilDiv(h, TimelineTarget) /\ w > 0
    <3>1. h > 0
      BY <2>2
    <3>2. CeilDiv(h, TimelineTarget) \in Nat /\ CeilDiv(h, TimelineTarget) > 0
      BY <2>3, <3>1, BucketsCover
    <3> QED BY <3>2
  <2>5. PICK k \in Nat : k = CeilDiv(h, w) /\ h <= k * w
    BY <2>4, BucketsCover
  <2>6. a < k * w
    <3>1. k * w \in Nat
      OBVIOUS
    <3> QED BY <2>2, <2>5, <3>1
  <2>7. a \div w < k
    BY <2>4, <2>6, QuotientBelow
  <2>8. BucketMinutes(q) = w /\ BucketCount(q, w) = k
    BY <2>2, <2>4, <2>5 DEF BucketMinutes, BucketCount
  <2> QED BY <2>2, <2>7, <2>8
<1>6. ASSUME q.hours > 0 PROVE Matching(q) \subseteq Rows(q, "trend")
  <2>1. SUFFICES ASSUME NEW r \in Matching(q)
                 PROVE  ((EventOf(r).minute - FirstMinute(q)) * TrendBuckets)
                           \div (q.hours * HourMinutes) < TrendBuckets
    BY DEF Rows
  <2>2. PICK a \in Nat, h \in Nat : /\ a = EventOf(r).minute - FirstMinute(q)
                                    /\ h = q.hours * HourMinutes /\ a < h /\ h > 0
    BY <1>6, AgeFacts
  <2>3. TrendBuckets \in Nat /\ TrendBuckets > 0
    BY DashboardAssumption
  <2>4. PICK x \in Nat : x = a * TrendBuckets
    BY <2>3
  <2>5. x < TrendBuckets * h
    BY <2>2, <2>3, <2>4
  <2>6. x \div h < TrendBuckets
    BY <2>2, <2>3, <2>5, QuotientBelow
  <2> QED BY <2>2, <2>4, <2>6
<1>7. CASE q.hours > 0 /\ Statements(q) = <<"page", "total", "timeline", "count">>
  <2>1. Len(Statements(q)) = 4 /\ n \in {1, 2, 3, 4}
    BY <1>7
  <2> QED BY <1>1, <1>2, <1>3, <1>4, <1>5, <1>7, <2>1
<1>8. CASE Statements(q) = <<"page", "total", "count">>
  <2>1. Len(Statements(q)) = 3 /\ n \in {1, 2, 3}
    BY <1>8
  <2> QED BY <1>1, <1>2, <1>3, <1>8, <2>1
<1>9. CASE q.hours > 0 /\ Statements(q) = <<"total", "trend", "timeline">>
  <2>1. Len(Statements(q)) = 3 /\ n \in {1, 2, 3}
    BY <1>9
  <2> QED BY <1>2, <1>4, <1>5, <1>6, <1>9, <2>1
<1> QED BY <1>7, <1>8, <1>9, StatementFacts

\* The table never shrinks, so a request goes on selecting what it selected.
LEMMA MatchingGrows ==
  ASSUME table \subseteq table', NEW q \in Queries
  PROVE  Matching(q) \subseteq Matching(q)'
BY DEF Matching, EventOf

\* The statements of an answer are in order and see rows of the request, whatever is written.
LEMMA AnswerStep ==
  DashboardInv /\ [Next]_vars =>
    /\ AnswerIsSound' /\ request' \in Queries \cup {NoRequest}
    /\ step' > step /\ step > 0 => covered \subseteq covered'
<1> SUFFICES ASSUME DashboardInv, [Next]_vars
             PROVE  /\ AnswerIsSound' /\ request' \in Queries \cup {NoRequest}
                    /\ step' > step /\ step > 0 => covered \subseteq covered'
  OBVIOUS
<1> USE DEF busVars, storeVars, tableVars, streamVars, readVars
<1>0. /\ request \in Queries \cup {NoRequest} /\ AnswerIsSound /\ table \subseteq Ids
      /\ request # NoRequest => request \in Queries
  BY DEF DashboardInv, TypeOK, Ids
<1>1. request # NoRequest =>
        /\ Len(Statements(request)) \in Nat /\ step \in 0..Len(Statements(request))
        /\ step > 0 /\ step < Len(Statements(request)) => covered \subseteq Matching(request)
  <2>1. \A q \in Queries : Len(Statements(q)) \in Nat
    BY StatementFacts
  <2> QED BY <1>0, <2>1 DEF AnswerIsSound
<1>2. CASE UNCHANGED readVars /\ table \subseteq table'
  <2>1. CASE request = NoRequest
    BY <1>0, <1>2, <2>1 DEF AnswerIsSound
  <2>2. CASE request # NoRequest
    <3>1. Matching(request) \subseteq Matching(request)'
      <4>1. PICK q \in Queries : q = request
        BY <1>0, <2>2
      <4>2. Matching(q) \subseteq Matching(q)'
        BY <1>2, MatchingGrows
      <4>3. Matching(request)' = Matching(q)'
        BY <1>2, <4>1 DEF Matching, FirstMinute
      <4> QED BY <4>1, <4>2, <4>3
    <3>2. AnswerIsSound'
      BY <1>1, <1>2, <2>2, <3>1 DEF AnswerIsSound
    <3>3. step' = step /\ step \in Int
      BY <1>1, <1>2, <2>2
    <3> QED BY <1>0, <1>2, <3>2, <3>3
  <2> QED BY <2>1, <2>2
<1>3. CASE request' = NoRequest /\ step' = 0
  <2>1. AnswerIsSound'
    BY <1>3 DEF AnswerIsSound
  <2>2. ~(step' > step /\ step > 0)
    BY <1>0, <1>1, <1>3 DEF AnswerIsSound
  <2> QED BY <1>3, <2>1, <2>2
<1>4. CASE Start \/ Record \/ Publish \/ Commit \/ Fanout \/ UNCHANGED vars
  BY <1>2, <1>4 DEF Start, Record, Publish, Commit, Fanout, vars
<1>5. CASE Persist
  BY <1>2, <1>5 DEF Persist
<1>6. CASE Crash \/ Answer
  BY <1>3, <1>6 DEF Crash, Answer
<1>7. ASSUME NEW b \in Browsers, Open(b) \/ Send(b) \/ Leave(b)
      PROVE  UNCHANGED readVars /\ table \subseteq table'
  BY <1>7 DEF Open, Send, Leave, BrowserFrame
<1>8. CASE \E q \in Queries : Ask(q)
  <2>1. request' \in Queries /\ request = NoRequest /\ step' = 0 /\ covered' = {}
    BY <1>8 DEF Ask
  <2>2. step = 0
    BY <1>0, <2>1 DEF AnswerIsSound
  <2>3. Len(Statements(request')) \in Nat
    BY <2>1, StatementFacts
  <2>4. Statements(request)' = Statements(request')
    BY DEF Statements
  <2>5. AnswerIsSound'
    BY <2>1, <2>3, <2>4 DEF AnswerIsSound
  <2> QED BY <2>1, <2>2, <2>5
<1>9. CASE Execute
  <2>1. /\ request \in Queries /\ request # NoRequest /\ step < Len(Statements(request))
        /\ request' = request /\ step' = step + 1 /\ table' = table
        /\ covered' = Rows(request, Statements(request)[step + 1])
    BY <1>0, <1>9 DEF Execute, ReadFrame
  <2>2. PICK q \in Queries : q = request
    BY <2>1
  <2>3. PICK l \in Nat : l = Len(Statements(q))
    BY <1>1, <2>1, <2>2
  <2>4. step \in Nat /\ step < l /\ step + 1 \in 1..l
    BY <1>1, <2>1, <2>2, <2>3
  <2>5. /\ step + 1 > 1 => Matching(q) \subseteq covered'
        /\ step + 1 < l => covered' \subseteq Matching(q)
    BY <1>0, <2>1, <2>2, <2>3, <2>4, RowsCover
  <2>6. step > 0 => covered \subseteq Matching(q)
    BY <1>1, <2>1, <2>2, <2>3, <2>4
  <2>7. step > 0 => covered \subseteq covered'
    BY <2>4, <2>5, <2>6
  <2>8. Statements(request)' = Statements(q) /\ Matching(request)' = Matching(q)
    BY <2>1, <2>2 DEF Statements, Matching, FirstMinute
  <2>10. request' # NoRequest /\ step' \in 0..l
    BY <2>1, <2>4
  <2>11. step' < l => covered' \subseteq Matching(q)
    BY <2>1, <2>5
  <2>9. AnswerIsSound'
    BY <2>3, <2>8, <2>10, <2>11 DEF AnswerIsSound
  <2> QED BY <2>1, <2>7, <2>9
<1> QED BY <1>2, <1>4, <1>5, <1>6, <1>7, <1>8, <1>9 DEF Next

-----------------------------------------------------------------------------
(* The summary: what one more record changes.                              *)

\* A set of records of a process, which are finitely many.
\* Finite sets of records.
RecordSets == {H \in SUBSET (DOMAIN Log) : IsFiniteSet(H)}

\* The records handled are records of the log, and the one in hand comes next.
LEMMA HandledFacts ==
  ASSUME BusTypes
  PROVE  /\ Handled \in RecordSets /\ Cardinality(Handled) <= Len(Log)
         /\ pos + 1 \notin Handled /\ Handled \cup {pos + 1} = (start + 1)..(pos + 1)
<1>1. Len(Log) \in Nat /\ DOMAIN Log = 1..Len(Log)
  BY DashboardAssumption
<1>2. pos \in Nat /\ start \in Nat /\ start <= pos /\ pos <= Len(Log)
  BY <1>1 DEF BusTypes
<1>3. IsFiniteSet(Handled) /\ Cardinality(Handled) = IF start + 1 > pos THEN 0 ELSE pos - (start + 1) + 1
  BY <1>2, FS_Interval DEF Handled
<1>4. Cardinality(Handled) <= Len(Log)
  BY <1>1, <1>2, <1>3
<1>5. Handled \subseteq DOMAIN Log
  BY <1>1, <1>2 DEF Handled
<1>6. pos + 1 \notin Handled
  BY <1>2 DEF Handled
<1>7. Handled \cup {pos + 1} = (start + 1)..(pos + 1)
  BY <1>2 DEF Handled
<1> QED BY <1>3, <1>4, <1>5, <1>6, <1>7 DEF RecordSets

\* A part of the records, and one record more.
LEMMA OneRecordMore ==
  ASSUME NEW H \in RecordSets, NEW S \in SUBSET H, NEW i, i \notin H
  PROVE  /\ IsFiniteSet(S) /\ Cardinality(S) \in Nat /\ Cardinality(S) <= Cardinality(H)
         /\ Cardinality(S \cup {i}) = Cardinality(S) + 1
<1>1. IsFiniteSet(H)
  BY DEF RecordSets
<1>2. IsFiniteSet(S) /\ Cardinality(S) <= Cardinality(H)
  BY <1>1, FS_Subset
<1> QED BY <1>2, FS_CardinalityType, FS_AddElement

-----------------------------------------------------------------------------
(* The counter.                                                            *)

\* The first elements of a sequence.
LEMMA AtPrefix ==
  ASSUME NEW s, NEW n \in Nat
  PROVE  At(s, 1..n) = [k \in 1..n |-> s[k]]
<1>1. Cardinality(1..n) = n
  BY FS_Interval
<1>2. ASSUME NEW k \in 1..n PROVE Nth(1..n, k) = k
  <2>1. \A m \in 1..n : {j \in 1..n : j <= m} = 1..m
    OBVIOUS
  <2>2. \A m \in 1..n : Cardinality(1..m) = m
    BY FS_Interval
  <2>3. \A m \in 1..n : Cardinality({j \in 1..n : j <= m}) = m
    BY <2>1, <2>2
  <2> QED BY <2>3 DEF Nth
<1> QED BY <1>1, <1>2 DEF At

\* Of one key too many, which was counted once and came last, it is that one that goes.
LEMMA NewestKeyGoes ==
  ASSUME NEW c \in Seq(Counts), Len(c) = CounterCap, \A j \in DOMAIN c : c[j].n >= 1, NEW k \in Keys
  PROVE  Trimmed(Append(c, [key |-> k, n |-> 1])) = c
<1>1. CounterCap \in Nat /\ CounterCap > 0 /\ DOMAIN c = 1..CounterCap
  BY DashboardAssumption, LenProperties
<1>2. PICK x \in Counts : x = [key |-> k, n |-> 1]
  BY DEF Counts
<1>3. PICK d \in Seq(Counts) : d = Append(c, x)
  BY AppendProperties
<1>4. /\ Len(d) = CounterCap + 1 /\ DOMAIN d = 1..(CounterCap + 1)
      /\ d[CounterCap + 1] = x /\ \A j \in 1..CounterCap : d[j] = c[j]
  BY <1>1, <1>3, AppendProperties, LenProperties
<1>5. \A j \in 1..(CounterCap + 1) : d[j].n \in Nat /\ d[j].n >= 1
  <2>1. d[CounterCap + 1].n = 1
    BY <1>2, <1>4
  <2>2. \A j \in 1..CounterCap : d[j].n >= 1
    BY <1>1, <1>4
  <2>3. \A j \in 1..(CounterCap + 1) : d[j].n \in Nat
    <3>1. \A j \in 1..Len(d) : d[j] \in Counts
      BY <1>3, ElementOfSeq
    <3> QED BY <1>4, <3>1 DEF Counts
  <2> QED BY <1>1, <2>1, <2>2, <2>3
<1>6. Place(d, CounterCap + 1) = CounterCap
  <2>1. {j \in DOMAIN d : d[j].n > d[CounterCap + 1].n
                          \/ (d[j].n = d[CounterCap + 1].n /\ j < CounterCap + 1)} = 1..CounterCap
    BY <1>1, <1>2, <1>4, <1>5
  <2>2. Cardinality(1..CounterCap) = CounterCap
    BY <1>1, FS_Interval
  <2> QED BY <2>1, <2>2 DEF Place
<1>7. ASSUME NEW i \in 1..CounterCap PROVE Place(d, i) < CounterCap
  <2>1. {j \in DOMAIN d : d[j].n > d[i].n \/ (d[j].n = d[i].n /\ j < i)} \in SUBSET ((1..CounterCap) \ {i})
    BY <1>1, <1>2, <1>4, <1>5
  <2>2. IsFiniteSet((1..CounterCap) \ {i}) /\ Cardinality((1..CounterCap) \ {i}) = CounterCap - 1
    <3>1. IsFiniteSet(1..CounterCap) /\ Cardinality(1..CounterCap) = CounterCap
      BY <1>1, FS_Interval
    <3> QED BY <3>1, FS_RemoveElement
  <2>3. Place(d, i) <= CounterCap - 1 /\ Place(d, i) \in Nat
    BY <2>1, <2>2, FS_Subset, FS_CardinalityType DEF Place
  <2> QED BY <1>1, <2>3
<1>8. {i \in DOMAIN d : Place(d, i) < CounterCap} = 1..CounterCap
  BY <1>1, <1>4, <1>6, <1>7
<1>9. At(d, 1..CounterCap) = [j \in 1..CounterCap |-> d[j]]
  BY <1>1, AtPrefix
<1>10. c = [j \in 1..CounterCap |-> c[j]]
  BY <1>1, LenProperties
<1>11. At(d, 1..CounterCap) = c
  BY <1>4, <1>9, <1>10
<1>12. ~(Len(d) <= CounterCap)
  BY <1>1, <1>4
<1> QED BY <1>2, <1>3, <1>8, <1>11, <1>12 DEF Trimmed

\* One more attack of a key of the counter, or of a new one.
LEMMA CounterCounts ==
  ASSUME NEW H \in RecordSets, NEW c, ExactCounter(c, H), NEW i \in DOMAIN Log, i \notin H, IsAttack(i)
  PROVE  ExactCounter(Trimmed(Incremented(c, Log[i].type)), H \cup {i})
<1>1. PICK k \in Keys : k = Log[i].type
  BY DEF Keys
<1>2. /\ c \in Seq(Counts) /\ Len(c) \in Nat /\ DOMAIN c = 1..Len(c) /\ CounterCap \in Nat
      /\ Len(c) <= CounterCap /\ \A j \in DOMAIN c : c[j] \in Counts
  BY DashboardAssumption, LenProperties, ElementOfSeq DEF ExactCounter
<1>3. Attacks(H \cup {i}, k) = Attacks(H, k) \cup {i}
  BY <1>1 DEF Attacks
<1>4. \A l : l # k => Attacks(H \cup {i}, l) = Attacks(H, l)
  BY <1>1 DEF Attacks
<1>5. Cardinality(Attacks(H \cup {i}, k)) = Cardinality(Attacks(H, k)) + 1
  <2>1. Attacks(H, k) \in SUBSET H
    BY DEF Attacks
  <2> QED BY <1>3, <2>1, OneRecordMore
<1>6. CASE \E j \in DOMAIN c : c[j].key = k
  <2>1. PICK d : d = [j \in DOMAIN c |-> IF c[j].key = k THEN [c[j] EXCEPT !.n = @ + 1] ELSE c[j]]
    OBVIOUS
  <2>2. \A j \in DOMAIN c : /\ d[j] \in Counts /\ d[j].key = c[j].key
                            /\ d[j].n = IF c[j].key = k THEN c[j].n + 1 ELSE c[j].n
    BY <1>2, <2>1 DEF Counts
  <2>3. d \in Seq(Counts) /\ Len(d) = Len(c) /\ DOMAIN d = DOMAIN c
    <3>1. d = [j \in 1..Len(c) |-> d[j]] /\ \A j \in 1..Len(c) : d[j] \in Counts
      BY <1>2, <2>1, <2>2
    <3> QED BY <1>2, <3>1
  <2>4. Trimmed(Incremented(c, k)) = d
    BY <1>2, <1>6, <2>1, <2>3 DEF Trimmed, Incremented
  <2>5. ASSUME NEW j \in DOMAIN c
        PROVE  d[j].n >= 1 /\ d[j].n = Cardinality(Attacks(H \cup {i}, d[j].key))
    <3>1. c[j].n >= 1 /\ c[j].n = Cardinality(Attacks(H, c[j].key)) /\ c[j].n \in Nat
      BY <1>2 DEF ExactCounter, Counts
    <3> QED BY <1>4, <1>5, <2>2, <3>1
  <2>6. ASSUME NEW m \in H \cup {i}, IsAttack(m)
        PROVE  (\E j \in DOMAIN c : d[j].key = Log[m].type) \/ Len(c) = CounterCap
    BY <1>1, <1>6, <2>2, <2>6 DEF ExactCounter
  <2>7. \A j, m \in DOMAIN c : d[j].key = d[m].key => j = m
    BY <2>2 DEF ExactCounter
  <2> QED BY <1>1, <1>2, <2>3, <2>4, <2>5, <2>6, <2>7 DEF ExactCounter
<1>7. CASE (\A j \in DOMAIN c : c[j].key # k) /\ Len(c) = CounterCap
  <2>1. Trimmed(Incremented(c, k)) = c
    <3>1. \A j \in DOMAIN c : c[j].n >= 1
      BY DEF ExactCounter
    <3>2. Trimmed(Append(c, [key |-> k, n |-> 1])) = c
      BY <1>2, <1>7, <3>1, NewestKeyGoes
    <3> QED BY <1>7, <3>2 DEF Incremented
  <2>2. \A j \in DOMAIN c : Attacks(H \cup {i}, c[j].key) = Attacks(H, c[j].key)
    BY <1>4, <1>7
  <2> QED BY <1>1, <1>7, <2>1, <2>2 DEF ExactCounter
<1>8. CASE (\A j \in DOMAIN c : c[j].key # k) /\ Len(c) # CounterCap
  <2>1. Attacks(H, k) = {}
    BY <1>8 DEF ExactCounter, Attacks
  <2>2. Cardinality(Attacks(H \cup {i}, k)) = 1
    BY <1>5, <2>1, FS_EmptySet
  <2>3. PICK x \in Counts : x = [key |-> k, n |-> 1]
    BY DEF Counts
  <2>4. x.key = k /\ x.n = 1
    BY <2>3
  <2>5. PICK d \in Seq(Counts) : d = Append(c, x)
    BY <1>2, AppendProperties
  <2>6. /\ Len(d) = Len(c) + 1 /\ d[Len(c) + 1] = x /\ \A j \in 1..Len(c) : d[j] = c[j]
        /\ DOMAIN d = 1..(Len(c) + 1)
    BY <1>2, <2>5, AppendProperties, LenProperties
  <2>7. Len(d) <= CounterCap
    <3>1. Len(c) # CounterCap
      BY <1>8
    <3>2. PICK l \in Nat, cap \in Nat : l = Len(c) /\ cap = CounterCap /\ l <= cap
      BY <1>2
    <3>3. l + 1 <= cap
      BY <3>1, <3>2
    <3> QED BY <2>6, <3>2, <3>3
  <2>8. Trimmed(Incremented(c, k)) = d
    BY <1>8, <2>3, <2>5, <2>7 DEF Trimmed, Incremented
  <2>9. \A j \in DOMAIN d : j \in DOMAIN c \/ j = Len(c) + 1
    BY <1>2, <2>6
  <2>10. ASSUME NEW j \in DOMAIN d
         PROVE  d[j].n >= 1 /\ d[j].n = Cardinality(Attacks(H \cup {i}, d[j].key))
    <3>1. CASE j = Len(c) + 1
      BY <2>2, <2>4, <2>6, <3>1
    <3>2. CASE j \in DOMAIN c
      <4>1. d[j] = c[j] /\ c[j].key # k
        BY <1>2, <1>8, <2>6, <3>2
      <4>2. c[j].n >= 1 /\ c[j].n = Cardinality(Attacks(H, c[j].key))
        BY <3>2 DEF ExactCounter
      <4> QED BY <1>4, <4>1, <4>2
    <3> QED BY <2>9, <3>1, <3>2
  <2>11. ASSUME NEW j \in DOMAIN d, NEW m \in DOMAIN d, d[j].key = d[m].key PROVE j = m
    <3>1. \A l \in DOMAIN c : d[l] = c[l] /\ d[l].key # k
      BY <1>2, <1>8, <2>6
    <3>2. d[Len(c) + 1].key = k
      BY <2>4, <2>6
    <3>3. \A l, o \in DOMAIN c : c[l].key = c[o].key => l = o
      BY DEF ExactCounter
    <3> QED BY <2>9, <2>11, <3>1, <3>2, <3>3
  <2>12. ASSUME NEW m \in H \cup {i}, IsAttack(m)
         PROVE  \E j \in DOMAIN d : d[j].key = Log[m].type
    <3>1. CASE m = i
      BY <1>1, <1>2, <2>4, <2>6, <3>1
    <3>2. CASE m \in H
      <4>1. PICK j \in DOMAIN c : c[j].key = Log[m].type
        BY <1>8, <2>12, <3>2 DEF ExactCounter
      <4>2. j \in DOMAIN d /\ d[j] = c[j]
        BY <1>2, <2>6
      <4> QED BY <4>1, <4>2
    <3> QED BY <3>1, <3>2
  <2> QED BY <1>1, <2>5, <2>7, <2>8, <2>10, <2>11, <2>12 DEF ExactCounter
<1> QED BY <1>6, <1>7, <1>8

\* Other records leave the counter exact.
LEMMA CounterStays ==
  ASSUME NEW H, NEW c, ExactCounter(c, H), NEW i, ~IsAttack(i)
  PROVE  ExactCounter(c, H \cup {i})
<1>1. \A k : Attacks(H \cup {i}, k) = Attacks(H, k)
  BY DEF Attacks
<1> QED BY <1>1 DEF ExactCounter

-----------------------------------------------------------------------------
(* The traffic.                                                            *)

Minute == 0..(Now - 1)

\* The members of A above x.
\* The numbers of A above x.
Above(A, x) == {y \in A : y > x}

\* What lies above a minute is finite, and a part of it has no more elements.
LEMMA AboveFacts ==
  ASSUME NEW A \in SUBSET Minute, NEW x, NEW B \in SUBSET Above(A, x)
  PROVE  /\ IsFiniteSet(Above(A, x)) /\ Cardinality(Above(A, x)) \in Nat
         /\ IsFiniteSet(B) /\ Cardinality(B) \in Nat
         /\ Cardinality(B) <= Cardinality(Above(A, x))
<1>1. IsFiniteSet(Minute)
  BY DashboardAssumption, FS_Interval DEF Minute
<1>2. Above(A, x) \in SUBSET Minute
  BY DEF Above
<1>3. IsFiniteSet(Above(A, x))
  BY <1>1, <1>2, FS_Subset
<1> QED BY <1>3, FS_Subset, FS_CardinalityType

\* Minutes have a last one.
LEMMA LastMinute ==
  ASSUME NEW A \in SUBSET Minute, A # {}
  PROVE  \E z \in A : \A y \in A : y <= z
<1>1. Now \in Nat /\ \A z \in A : z \in Int /\ 0 <= z /\ z < Now
  BY DashboardAssumption DEF Minute
<1>2. PICK N : N = {n \in Nat : \E z \in A : n = Now - z}
  OBVIOUS
<1>3. N \subseteq Nat /\ N # {}
  <2>1. PICK z \in A : TRUE
    OBVIOUS
  <2>2. Now - z \in Nat
    BY <1>1
  <2> QED BY <1>2, <2>2
<1>4. PICK n \in N : \A m \in N : ~(<<m, n>> \in OpToRel(<, Nat))
  BY <1>3, NatLessThanWellFounded, WFMin
<1>5. PICK z \in A : n = Now - z
  BY <1>2
<1>6. ASSUME NEW y \in A PROVE y <= z
  <2>1. Now - y \in N
    BY <1>1, <1>2
  <2>2. ~(Now - y < n)
    BY <1>3, <1>4, <2>1 DEF OpToRel
  <2> QED BY <1>1, <1>5, <2>2
<1> QED BY <1>6

\* What has enough above it has enough of the newest above it.
LEMMA TopIsEnough ==
  ASSUME NEW A \in SUBSET Minute, NEW x \in Minute, TrafficMinutes <= Cardinality(Above(A, x))
  PROVE  TrafficMinutes <= Cardinality(Above(Top(A), x))
<1>1. TrafficMinutes \in Nat /\ \A y \in Minute : y \in Int
  BY DashboardAssumption DEF Minute
<1>2. Top(A) \in SUBSET Minute
  BY DEF Top
<1>3. Cardinality(Above(Top(A), x)) \in Nat
  BY <1>2, AboveFacts
<1>4. CASE Above(A, x) \subseteq Top(A)
  <2>1. Above(Top(A), x) = Above(A, x)
    BY <1>4 DEF Above, Top
  <2> QED BY <2>1
<1>5. CASE ~(Above(A, x) \subseteq Top(A))
  <2>1. PICK C : C = Above(A, x) \ Top(A)
    OBVIOUS
  <2>2. C # {} /\ C \in SUBSET Minute
    BY <1>5, <2>1 DEF Above
  <2>3. PICK z \in C : \A y \in C : y <= z
    BY <2>2, LastMinute
  <2>4. z \in A /\ z > x /\ z \notin Top(A)
    BY <2>1, <2>3 DEF Above
  <2>5. Cardinality(Above(A, z)) \in Nat
    BY AboveFacts
  <2>6. TrafficMinutes <= Cardinality(Above(A, z))
    BY <1>1, <2>4, <2>5 DEF Top, Above
  <2>7. Above(A, z) \in SUBSET Above(Top(A), x)
    <3>1. SUFFICES ASSUME NEW y \in A, y > z PROVE y \in Top(A) /\ y > x
      BY DEF Above
    <3>2. y > x
      BY <1>1, <2>4, <3>1
    <3>3. y \notin C
      BY <1>1, <2>2, <2>3, <3>1
    <3> QED BY <2>1, <3>1, <3>2, <3>3 DEF Above
  <2>8. Cardinality(Above(A, z)) <= Cardinality(Above(Top(A), x))
    BY <1>2, <2>7, AboveFacts
  <2> QED BY <1>1, <1>3, <2>5, <2>6, <2>8
<1> QED BY <1>4, <1>5

\* Of the newest minutes and one more, the newest are those of all minutes and that one.
LEMMA TopOfTop ==
  ASSUME NEW A \in SUBSET Minute, NEW m \in Minute
  PROVE  Top({m} \cup Top(A)) = Top(A \cup {m})
<1>1. TrafficMinutes \in Nat /\ \A y \in Minute : y \in Int
  BY DashboardAssumption DEF Minute
<1>2. PICK B, C : B = {m} \cup Top(A) /\ C = A \cup {m}
  OBVIOUS
<1>3. B \in SUBSET Minute /\ C \in SUBSET Minute /\ Top(A) \in SUBSET Minute /\ B \subseteq C /\ A \subseteq C
  BY <1>2 DEF Top
<1>4. \A x \in Minute : /\ Cardinality(Above(A, x)) \in Nat /\ Cardinality(Above(B, x)) \in Nat
                        /\ Cardinality(Above(C, x)) \in Nat /\ Cardinality(Above(Top(A), x)) \in Nat
  BY <1>3, AboveFacts
<1>5. ASSUME NEW x \in Top(C) PROVE x \in Top(B)
  <2>1. x \in C /\ x \in Minute /\ Cardinality(Above(C, x)) < TrafficMinutes
    BY <1>3 DEF Top, Above
  <2>2. Above(B, x) \in SUBSET Above(C, x) /\ Above(A, x) \in SUBSET Above(C, x)
    BY <1>3 DEF Above
  <2>3. /\ Cardinality(Above(B, x)) <= Cardinality(Above(C, x))
        /\ Cardinality(Above(A, x)) <= Cardinality(Above(C, x))
    BY <1>3, <2>2, AboveFacts
  <2>4. Cardinality(Above(B, x)) < TrafficMinutes /\ Cardinality(Above(A, x)) < TrafficMinutes
    BY <1>1, <1>4, <2>1, <2>3
  <2>5. x \in B
    BY <1>2, <2>1, <2>4 DEF Top, Above
  <2> QED BY <2>4, <2>5 DEF Top, Above
<1>6. ASSUME NEW x \in Top(B) PROVE x \in Top(C)
  <2>1. x \in B /\ x \in Minute /\ Cardinality(Above(B, x)) < TrafficMinutes
    BY <1>3 DEF Top, Above
  <2>2. Above(Top(A), x) \in SUBSET Above(B, x)
    BY <1>2 DEF Above
  <2>3. Cardinality(Above(Top(A), x)) <= Cardinality(Above(B, x))
    BY <1>3, <2>2, AboveFacts
  <2>4. Cardinality(Above(Top(A), x)) < TrafficMinutes
    BY <1>1, <1>4, <2>1, <2>3
  <2>5. Cardinality(Above(A, x)) < TrafficMinutes
    BY <1>1, <1>4, <2>1, <2>4, TopIsEnough
  <2>6. Above(A, x) \subseteq Top(A)
    <3>1. SUFFICES ASSUME NEW y \in A, y > x PROVE Cardinality(Above(A, y)) < TrafficMinutes
      BY DEF Above, Top
    <3>2. Above(A, y) \in SUBSET Above(A, x)
      BY <1>1, <2>1, <3>1 DEF Above
    <3>3. Cardinality(Above(A, y)) <= Cardinality(Above(A, x)) /\ Cardinality(Above(A, y)) \in Nat
      BY <3>2, AboveFacts
    <3> QED BY <1>1, <1>4, <2>1, <2>5, <3>3
  <2>7. Above(C, x) = Above(B, x)
    BY <1>2, <1>3, <2>6 DEF Above
  <2> QED BY <1>3, <2>1, <2>7 DEF Top, Above
<1> QED BY <1>2, <1>5, <1>6

\* One more request in its minute.
LEMMA TrafficCounts ==
  ASSUME NEW H \in RecordSets, NEW t, ExactTraffic(t, H), NEW i \in DOMAIN Log, i \notin H,
         Log[i].kind = "log.enriched"
  PROVE  ExactTraffic(Counted(t, Log[i].minute), H \cup {i})
<1>1. PICK m \in Minute : m = Log[i].minute
  BY DashboardAssumption DEF Minute
<1>2. Lines(H \cup {i}, m) = Lines(H, m) \cup {i} /\ \A x : x # m => Lines(H \cup {i}, x) = Lines(H, x)
  BY <1>1 DEF Lines
<1>3. \A x : Cardinality(Lines(H, x)) \in Nat
  <2>1. \A x : Lines(H, x) \in SUBSET H
    BY DEF Lines
  <2> QED BY <2>1, OneRecordMore
<1>4. Cardinality(Lines(H \cup {i}, m)) = Cardinality(Lines(H, m)) + 1
  <2>1. Lines(H, m) \in SUBSET H
    BY DEF Lines
  <2>2. Cardinality(Lines(H, m) \cup {i}) = Cardinality(Lines(H, m)) + 1
    BY <2>1, OneRecordMore
  <2> QED BY <1>2, <2>2
<1>5. Minutes(H) \in SUBSET Minute /\ Minutes(H \cup {i}) = Minutes(H) \cup {m}
  BY <1>1, <1>2 DEF Minutes, Minute
<1>6. DOMAIN t = Top(Minutes(H)) /\ \A x \in DOMAIN t : t[x] = Cardinality(Lines(H, x))
  BY DEF ExactTraffic
<1>7. Counted(t, m) = [x \in Top({m} \cup DOMAIN t) |->
                        (IF x \in DOMAIN t THEN t[x] ELSE 0) + (IF x = m THEN 1 ELSE 0)]
  BY DEF Counted, Top
<1>8. Top({m} \cup DOMAIN t) = Top(Minutes(H \cup {i}))
  BY <1>5, <1>6, TopOfTop
<1>9. ASSUME NEW x \in Top(Minutes(H \cup {i}))
      PROVE  (IF x \in DOMAIN t THEN t[x] ELSE 0) + (IF x = m THEN 1 ELSE 0)
               = Cardinality(Lines(H \cup {i}, x))
  <2>1. CASE x # m
    <3>1. x \in DOMAIN t
      BY <1>8, <2>1 DEF Top
    <3> QED BY <1>2, <1>3, <1>6, <2>1, <3>1
  <2>2. CASE x = m /\ m \in DOMAIN t
    BY <1>3, <1>4, <1>6, <2>2
  <2>3. CASE x = m /\ m \notin DOMAIN t
    <3>1. m \notin Minutes(H)
      <4>1. m \in Minutes(H) => Minutes(H \cup {i}) = Minutes(H)
        BY <1>5
      <4> QED BY <1>6, <2>3, <4>1
    <3>2. Lines(H, m) = {}
      BY <3>1 DEF Minutes, Minute
    <3>3. Cardinality(Lines(H, m)) = 0
      BY <3>2, FS_EmptySet
    <3> QED BY <1>4, <2>3, <3>3
  <2> QED BY <2>1, <2>2, <2>3
<1>10. Counted(t, m) = [x \in Top(Minutes(H \cup {i})) |-> Cardinality(Lines(H \cup {i}, x))]
  BY <1>7, <1>8, <1>9
<1> QED BY <1>1, <1>10 DEF ExactTraffic

\* Other records leave the traffic exact.
LEMMA TrafficStays ==
  ASSUME NEW H, NEW t, ExactTraffic(t, H), NEW i, Log[i].kind # "log.enriched"
  PROVE  ExactTraffic(t, H \cup {i})
<1>1. \A x : Lines(H \cup {i}, x) = Lines(H, x)
  BY DEF Lines
<1>2. Minutes(H \cup {i}) = Minutes(H)
  BY <1>1 DEF Minutes
<1> QED BY <1>1, <1>2 DEF ExactTraffic

-----------------------------------------------------------------------------
(* The feed.                                                               *)

\* A realtime event more, later than all before.
LEMMA FeedGrows ==
  ASSUME NEW H \in RecordSets, NEW S \in SUBSET H, NEW r, ExactRecent(r, S),
         NEW i \in DOMAIN Log, i \notin H, \A j \in H : j < i
  PROVE  LET s == Append(r, i) IN
           ExactRecent(SubSeq(s, IF Len(s) > RecentCap THEN 2 ELSE 1, Len(s)), S \cup {i})
<1>1. PICK s : s = Append(r, i)
  OBVIOUS
<1>2. PICK l \in Nat, cap \in Nat, n \in Nat :
        /\ l = Len(r) /\ cap = RecentCap /\ cap > 0 /\ n = Cardinality(S)
        /\ l = IF n < cap THEN n ELSE cap
  <2>1. Cardinality(S) \in Nat
    BY OneRecordMore
  <2>2. Len(r) \in Nat
    BY LenProperties DEF ExactRecent
  <2>3. RecentCap \in Nat /\ RecentCap > 0
    BY DashboardAssumption
  <2> QED BY <2>1, <2>2, <2>3 DEF ExactRecent
<1>3. /\ s \in Seq(DOMAIN Log) /\ Len(s) = l + 1 /\ s[l + 1] = i
      /\ \A k \in 1..l : s[k] = r[k]
  BY <1>1, <1>2, AppendProperties DEF ExactRecent
<1>4. PICK f \in 1..2 : f = IF Len(s) > RecentCap THEN 2 ELSE 1
  OBVIOUS
<1>5. PICK q : q = SubSeq(s, f, l + 1)
  OBVIOUS
<1>6. q \in Seq(DOMAIN Log) /\ Len(q) = l + 2 - f /\ \A k \in 1..(l + 2 - f) : q[k] = s[f + k - 1]
  <2>1. \A k \in f..(l + 1) : s[k] \in DOMAIN Log
    BY <1>3, ElementOfSeq
  <2>2. f <= l + 1 /\ l + 1 \in Int /\ f \in Int
    BY <1>2, <1>3, <1>4
  <2>3. /\ SubSeq(s, f, l + 1) \in Seq(DOMAIN Log)
        /\ Len(SubSeq(s, f, l + 1)) = IF f <= l + 1 THEN l + 1 - f + 1 ELSE 0
        /\ \A k \in 1..(l + 1 - f + 1) : SubSeq(s, f, l + 1)[k] = s[f + k - 1]
    BY <2>1, <2>2, SubSeqProperties
  <2>4. l + 1 - f + 1 = l + 2 - f
    BY <2>2
  <2> QED BY <1>5, <2>2, <2>3, <2>4
<1>7. Cardinality(S \cup {i}) = n + 1
  BY <1>2, OneRecordMore
<1>8. Len(q) = IF n + 1 < cap THEN n + 1 ELSE cap
  BY <1>2, <1>3, <1>4, <1>6
<1>9. ASSUME NEW j \in S \cup {i}, Later(S \cup {i}, j) < RecentCap
      PROVE  q[Len(q) - Later(S \cup {i}, j)] = j
  <2>1. \A k \in H : k \in Int /\ k < i
    BY DashboardAssumption DEF RecordSets
  <2>2. i \in Int
    BY DashboardAssumption
  <2>3. CASE j = i
    <3>1. {k \in S \cup {i} : k > i} = {}
      BY <2>1, <2>2
    <3>2. Later(S \cup {i}, j) = 0
      BY <2>3, <3>1, FS_EmptySet DEF Later
    <3>3. Len(q) \in 1..(l + 2 - f) /\ f + Len(q) - 1 = l + 1
      BY <1>2, <1>3, <1>4, <1>6
    <3>4. q[Len(q)] = i
      BY <1>3, <1>6, <3>3
    <3> QED BY <1>6, <2>3, <3>2, <3>4
  <2>4. CASE j \in S
    <3>1. {k \in S \cup {i} : k > j} = {k \in S : k > j} \cup {i}
      BY <2>1, <2>2, <2>4
    <3>2. {k \in S : k > j} \in SUBSET H /\ {k \in S : k > j} \in SUBSET (S \ {j})
      BY <2>1, <2>4
    <3>3. Later(S, j) \in Nat /\ Later(S \cup {i}, j) = Later(S, j) + 1
      <4>1. PICK U \in SUBSET H : U = {k \in S : k > j}
        BY <3>2
      <4>2. Cardinality(U) \in Nat /\ Cardinality(U \cup {i}) = Cardinality(U) + 1
        BY OneRecordMore
      <4> QED BY <3>1, <4>1, <4>2 DEF Later
    <3>4. Later(S, j) <= n - 1
      <4>1. IsFiniteSet(S)
        BY OneRecordMore
      <4>2. IsFiniteSet(S \ {j}) /\ Cardinality(S \ {j}) = n - 1
        BY <1>2, <2>4, <4>1, FS_RemoveElement
      <4> QED BY <3>2, <4>2, FS_Subset DEF Later
    <3>5. PICK a \in Nat : a = Later(S, j) /\ a + 1 < cap /\ a <= n - 1
      BY <1>2, <1>9, <3>3, <3>4
    <3>6. r[l - a] = j
      BY <1>2, <2>4, <3>5 DEF ExactRecent
    <3>7. l - a \in 1..l /\ s[l - a] = j
      <4>1. l - a \in 1..l
        BY <1>2, <3>5
      <4> QED BY <1>3, <3>6, <4>1
    <3>8. Len(q) - (a + 1) \in 1..(l + 2 - f) /\ f + (Len(q) - (a + 1)) - 1 = l - a
      <4>1. f = IF l + 1 > cap THEN 2 ELSE 1
        BY <1>2, <1>3, <1>4
      <4>2. Len(q) = l + 2 - f
        BY <1>6
      <4>3. l + 2 - f - (a + 1) \in 1..(l + 2 - f)
        BY <1>2, <3>5, <4>1
      <4>4. f + (l + 2 - f - (a + 1)) - 1 = l - a
        BY <4>1
      <4> QED BY <4>2, <4>3, <4>4
    <3>9. q[Len(q) - (a + 1)] = j
      BY <1>6, <3>7, <3>8
    <3> QED BY <3>3, <3>5, <3>9
  <2> QED BY <2>3, <2>4
<1>10. ExactRecent(q, S \cup {i})
  BY <1>2, <1>6, <1>7, <1>8, <1>9 DEF ExactRecent
<1> QED BY <1>1, <1>3, <1>4, <1>5, <1>10

-----------------------------------------------------------------------------
(* Every step.                                                             *)

\* The process, its offsets and the table after a step.
LEMMA BusStep == DashboardInv /\ [Next]_vars => BusTypes'
<1> SUFFICES ASSUME DashboardInv, [Next]_vars PROVE BusTypes'
  OBVIOUS
<1> USE DEF busVars, storeVars, tableVars, streamVars, readVars
<1>0. BusTypes /\ InHand /\ Len(Log) \in Nat /\ DOMAIN Log = 1..Len(Log) /\ MaxFaults \in Nat
  BY DashboardAssumption DEF DashboardInv, TypeOK, BusTypes, Ids
<1>1. /\ start \in 0..committed /\ committed \in 0..pos /\ pos \in 0..Len(Log)
      /\ start \in Nat /\ committed \in Nat /\ pos \in Nat /\ faults \in Nat
  BY <1>0 DEF BusTypes
<1>2. ASSUME Fault PROVE faults' \in 0..MaxFaults
  BY <1>0, <1>1, <1>2 DEF Fault
<1>3. CASE Start
  <2>1. pc' = "poll" /\ history' \in BOOLEAN /\ UNCHANGED <<pos, committed, start, table, unstored>>
    BY <1>3 DEF Start
  <2>2. faults' \in 0..MaxFaults
    BY <1>0, <1>2, <1>3 DEF Start, BusTypes
  <2> QED BY <1>0, <2>1, <2>2 DEF BusTypes
<1>4. CASE Record
  <2>1. /\ pos < Len(Log) /\ pos' = pos + 1 /\ pc' \in {"persist", "publish"}
        /\ UNCHANGED <<history, committed, start, table, unstored, faults>>
    BY <1>4 DEF Record
  <2>2. committed \in 0..(pos + 1) /\ pos + 1 \in 0..Len(Log)
    BY <1>0, <1>1, <2>1
  <2> QED BY <1>0, <2>1, <2>2 DEF BusTypes
<1>5. CASE Persist
  <2>1. /\ pc = "persist" /\ pc' = "publish" /\ UNCHANGED <<history, pos, committed, start>>
        /\ table' \cup unstored' \subseteq table \cup unstored \cup {Log[pos].id}
    BY <1>5 DEF Persist
  <2>2. pos \in DOMAIN Log
    BY <1>0, <1>1, <2>1 DEF InHand
  <2>3. table' \cup unstored' \subseteq Ids
    BY <1>0, <2>1, <2>2 DEF BusTypes, Ids
  <2>4. faults' \in 0..MaxFaults
    BY <1>0, <1>2, <1>5 DEF Persist, BusTypes
  <2> QED BY <1>0, <2>1, <2>3, <2>4 DEF BusTypes
<1>6. CASE Publish
  <2>1. pc' = "poll" /\ UNCHANGED <<history, pos, committed, start, table, unstored, faults>>
    BY <1>6 DEF Publish
  <2> QED BY <1>0, <2>1 DEF BusTypes
<1>7. CASE Commit
  <2>1. committed' = pos /\ UNCHANGED <<pc, history, pos, start, table, unstored, faults>>
    BY <1>7 DEF Commit
  <2>2. start \in 0..pos /\ pos \in 0..pos
    BY <1>1
  <2> QED BY <1>0, <2>1, <2>2 DEF BusTypes
<1>8. CASE Crash
  <2>1. /\ pc' = "down" /\ history' = FALSE /\ pos' = committed /\ start' = committed
        /\ UNCHANGED <<committed, table, unstored>>
    BY <1>8 DEF Crash
  <2>2. committed \in 0..committed /\ committed \in 0..Len(Log)
    BY <1>0, <1>1
  <2>3. faults' \in 0..MaxFaults
    BY <1>2, <1>8 DEF Crash
  <2> QED BY <1>0, <2>1, <2>2, <2>3 DEF BusTypes
<1>9. ASSUME NEW b \in Browsers, Open(b) \/ Send(b) \/ Leave(b) PROVE BusTypes'
  <2>1. UNCHANGED <<pc, history, pos, committed, start, table, unstored, faults>>
    BY <1>9 DEF Open, Send, Leave, BrowserFrame
  <2> QED BY <1>0, <2>1 DEF BusTypes
<1>10. ASSUME Fanout \/ (\E q \in Queries : Ask(q)) \/ Execute \/ Answer \/ UNCHANGED vars PROVE BusTypes'
  <2>1. UNCHANGED <<pc, history, pos, committed, start, table, unstored, faults>>
    BY <1>10 DEF Fanout, Ask, Execute, Answer, ReadFrame, vars
  <2> QED BY <1>0, <2>1 DEF BusTypes
<1> QED BY <1>3, <1>4, <1>5, <1>6, <1>7, <1>8, <1>9, <1>10 DEF Next

\* The summaries are exact after every step.
LEMMA SummaryStep == DashboardInv /\ [Next]_vars => SummariesAreExact'
<1> SUFFICES ASSUME DashboardInv, [Next]_vars PROVE SummariesAreExact'
  OBVIOUS
<1> USE DEF busVars, storeVars, tableVars, streamVars, readVars
<1>0. TypeOK /\ BusTypes /\ SummariesAreExact
  BY DEF DashboardInv, TypeOK, BusTypes, Ids
<1>1. ASSUME UNCHANGED <<storeVars, pos, start>> PROVE SummariesAreExact'
  BY <1>0, <1>1 DEF SummariesAreExact, Handled
<1>2. CASE Start \/ Persist \/ Publish \/ Commit \/ Fanout \/ UNCHANGED vars
  BY <1>1, <1>2 DEF Start, Persist, Publish, Commit, Fanout, vars
<1>3. CASE (\E q \in Queries : Ask(q)) \/ Execute \/ Answer
  BY <1>1, <1>3 DEF Ask, Execute, Answer, ReadFrame
<1>4. ASSUME NEW b \in Browsers, Open(b) \/ Send(b) \/ Leave(b) PROVE SummariesAreExact'
  BY <1>1, <1>4 DEF Open, Send, Leave, BrowserFrame
<1>5. CASE Crash
  <2>1. /\ pos' = committed /\ start' = committed
        /\ counter' = <<>> /\ traffic' = EmptyFunction /\ recent' = <<>>
    BY <1>5 DEF Crash
  <2>2. committed \in Nat
    BY <1>0 DEF BusTypes
  <2>3. Handled' = (committed + 1)..committed
    BY <2>1 DEF Handled
  <2> QED BY <2>1, <2>2, <2>3, NothingHandled DEF SummariesAreExact
<1>6. CASE Record
  <2>1. /\ pos < Len(Log) /\ pos' = pos + 1 /\ start' = start /\ Aggregate(pos + 1, Log[pos + 1])
    BY <1>6 DEF Record
  <2>2. PICK i \in DOMAIN Log : i = pos + 1
    BY <1>0, <2>1, NextRecord
  <2>3. PICK H \in RecordSets : H = Handled /\ i \notin H /\ Handled' = H \cup {i} /\ \A j \in H : j < i
    <3>1. Handled' = Handled \cup {i} /\ i \notin Handled /\ Handled \in RecordSets
      BY <1>0, <2>1, <2>2, HandledFacts DEF Handled
    <3>2. \A j \in Handled : j < i
      BY <1>0, <2>2 DEF Handled, BusTypes
    <3> QED BY <3>1, <3>2
  <2>4. ExactCounter(counter, H) /\ ExactTraffic(traffic, H) /\ ExactRecent(recent, Shown(H))
    BY <1>0, <2>3 DEF SummariesAreExact
  <2>5. ExactCounter(counter', H \cup {i})
    <3>1. CASE IsAttack(i)
      <4>1. counter' = Trimmed(Incremented(counter, Log[i].type))
        BY <2>1, <2>2, <3>1 DEF Aggregate, IsAttack
      <4>2. ExactCounter(Trimmed(Incremented(counter, Log[i].type)), H \cup {i})
        BY <2>3, <2>4, <3>1, CounterCounts
      <4> QED BY <4>1, <4>2
    <3>2. CASE ~IsAttack(i)
      <4>1. counter' = counter
        BY <2>1, <2>2, <3>2 DEF Aggregate, IsAttack
      <4>2. ExactCounter(counter, H \cup {i})
        BY <2>4, <3>2, CounterStays
      <4> QED BY <4>1, <4>2
    <3> QED BY <3>1, <3>2
  <2>6. ExactTraffic(traffic', H \cup {i})
    <3>1. CASE Log[i].kind = "log.enriched"
      <4>1. traffic' = Counted(traffic, Log[i].minute)
        BY <2>1, <2>2, <3>1 DEF Aggregate
      <4>2. ExactTraffic(Counted(traffic, Log[i].minute), H \cup {i})
        BY <2>3, <2>4, <3>1, TrafficCounts
      <4> QED BY <4>1, <4>2
    <3>2. CASE Log[i].kind # "log.enriched"
      <4>1. traffic' = traffic
        BY <2>1, <2>2, <3>2 DEF Aggregate
      <4>2. ExactTraffic(traffic, H \cup {i})
        BY <2>4, <3>2, TrafficStays
      <4> QED BY <4>1, <4>2
    <3> QED BY <3>1, <3>2
  <2>7. ExactRecent(recent', Shown(H \cup {i}))
    <3>1. CASE Realtime(Log[i])
      <4>1. Shown(H \cup {i}) = Shown(H) \cup {i} /\ Shown(H) \in SUBSET H
        BY <3>1 DEF Shown
      <4>2. recent' = LET s == Append(recent, i) IN
                        SubSeq(s, IF Len(s) > RecentCap THEN 2 ELSE 1, Len(s))
        BY <2>1, <2>2, <3>1 DEF Aggregate
      <4>3. PICK S \in SUBSET H : S = Shown(H)
        BY <4>1
      <4>4. ExactRecent(recent, S)
        BY <2>4, <4>3
      <4>5. LET s == Append(recent, i) IN
              ExactRecent(SubSeq(s, IF Len(s) > RecentCap THEN 2 ELSE 1, Len(s)), S \cup {i})
        BY <2>3, <4>4, FeedGrows
      <4> QED BY <4>1, <4>2, <4>3, <4>5
    <3>2. CASE ~Realtime(Log[i])
      <4>1. Shown(H \cup {i}) = Shown(H)
        BY <3>2 DEF Shown
      <4>2. recent' = recent
        BY <2>1, <2>2, <3>2 DEF Aggregate
      <4> QED BY <2>4, <4>1, <4>2
    <3> QED BY <3>1, <3>2
  <2> QED BY <2>3, <2>5, <2>6, <2>7 DEF SummariesAreExact
<1> QED BY <1>2, <1>3, <1>4, <1>5, <1>6 DEF Next

\* Counters, traffic and feed that are exact are within their bounds.
LEMMA TypesOfSummaries ==
  ASSUME BusTypes, SummariesAreExact
  PROVE  /\ \A j \in DOMAIN counter : counter[j].n \in 1..Len(Log)
         /\ Len(counter) <= CounterCap /\ Len(recent) <= RecentCap
         /\ \A x \in DOMAIN traffic : x \in 0..(Now - 1) /\ traffic[x] \in 1..Len(Log)
<1>1. PICK H \in RecordSets : H = Handled
  BY HandledFacts
<1>2. Cardinality(H) <= Len(Log) /\ Len(Log) \in Nat /\ Cardinality(H) \in Nat
  BY <1>1, HandledFacts, FS_CardinalityType, DashboardAssumption DEF RecordSets
<1>3. ASSUME NEW S \in SUBSET H PROVE Cardinality(S) \in Nat /\ Cardinality(S) <= Len(Log)
  <2>1. IsFiniteSet(H)
    BY DEF RecordSets
  <2>2. Cardinality(S) \in Nat /\ Cardinality(S) <= Cardinality(H)
    BY <2>1, FS_Subset, FS_CardinalityType
  <2> QED BY <1>2, <2>2
<1>4. ExactCounter(counter, H) /\ ExactTraffic(traffic, H) /\ ExactRecent(recent, Shown(H))
  BY <1>1 DEF SummariesAreExact
<1>5. ASSUME NEW j \in DOMAIN counter PROVE counter[j].n \in 1..Len(Log)
  <2>1. counter[j].n >= 1 /\ counter[j].n = Cardinality(Attacks(H, counter[j].key))
    BY <1>4 DEF ExactCounter
  <2>2. Attacks(H, counter[j].key) \in SUBSET H
    BY DEF Attacks
  <2>3. PICK n \in Nat : n = Cardinality(Attacks(H, counter[j].key)) /\ n <= Len(Log)
    BY <1>3, <2>2
  <2> QED BY <1>2, <2>1, <2>3
<1>6. ASSUME NEW x \in DOMAIN traffic PROVE x \in 0..(Now - 1) /\ traffic[x] \in 1..Len(Log)
  <2>1. x \in Top(Minutes(H)) /\ traffic[x] = Cardinality(Lines(H, x))
    BY <1>4 DEF ExactTraffic
  <2>2. x \in 0..(Now - 1) /\ Lines(H, x) # {} /\ Lines(H, x) \in SUBSET H
    BY <2>1 DEF Top, Minutes, Lines
  <2>3. PICK n \in Nat : n = Cardinality(Lines(H, x)) /\ n <= Len(Log)
    BY <1>3, <2>2
  <2>4. IsFiniteSet(Lines(H, x))
    BY <2>2, FS_Subset DEF RecordSets
  <2>5. n # 0
    BY <2>2, <2>3, <2>4, FS_EmptySet
  <2> QED BY <1>2, <2>1, <2>2, <2>3, <2>5
<1>7. Len(recent) <= RecentCap
  <2>1. PICK n \in Nat : n = Cardinality(Shown(H))
    <3>1. Shown(H) \in SUBSET H
      BY DEF Shown
    <3> QED BY <1>3, <3>1
  <2>2. RecentCap \in Nat /\ Len(recent) = IF n < RecentCap THEN n ELSE RecentCap
    BY <1>4, <2>1, DashboardAssumption DEF ExactRecent
  <2> QED BY <2>1, <2>2
<1> QED BY <1>4, <1>5, <1>6, <1>7 DEF ExactCounter

\* The parts give the types of the module's invariant.
Parts ==
  /\ BusTypes /\ SummariesAreExact /\ StreamTypes /\ \A b \in Browsers : StreamOfIsExact(b)
  /\ request \in Queries \cup {NoRequest}

\* The types of the parts are those of the module.
LEMMA TypesOfParts == Parts => TypeOK /\ DashboardTypes
<1> SUFFICES ASSUME Parts PROVE TypeOK /\ DashboardTypes
  OBVIOUS
<1>1. BusTypes /\ SummariesAreExact /\ StreamsHaveTypes /\ request \in Queries \cup {NoRequest}
  BY TypesOfStreams DEF Parts
<1>2. /\ \A j \in DOMAIN counter : counter[j].n \in 1..Len(Log)
      /\ Len(counter) <= CounterCap /\ Len(recent) <= RecentCap
      /\ \A x \in DOMAIN traffic : x \in 0..(Now - 1) /\ traffic[x] \in 1..Len(Log)
  BY <1>1, TypesOfSummaries
<1> QED BY <1>1, <1>2 DEF BusTypes, StreamsHaveTypes, TypeOK, DashboardTypes, Ids

\* Every step preserves the inductive invariant.
LEMMA DashboardStep == DashboardInv /\ [Next]_vars => DashboardInv'
<1> SUFFICES ASSUME DashboardInv, [Next]_vars PROVE DashboardInv'
  OBVIOUS
<1>1. InHand' /\ HandledIsStored'
  BY StoredStep
<1>2. StreamTypes' /\ \A b \in Browsers : StreamOfIsExact(b)'
  BY StreamStep
<1>3. AnswerIsSound' /\ request' \in Queries \cup {NoRequest}
  BY AnswerStep
<1>4. BusTypes' /\ SummariesAreExact'
  BY BusStep, SummaryStep
<1>5. Parts'
  BY <1>2, <1>3, <1>4 DEF Parts
<1>6. TypeOK' /\ DashboardTypes'
  BY <1>5, TypesOfParts, PTL
<1> QED BY <1>1, <1>2, <1>3, <1>4, <1>6 DEF DashboardInv

-----------------------------------------------------------------------------
(* The theorems.                                                           *)

\* The inductive invariant holds in every reachable state.
THEOREM DashboardInvariant == Spec => []DashboardInv
BY DashboardInit, DashboardStep, PTL DEF Spec

\* Type correctness: queues, counters and feeds stay within their bounds.
THEOREM TypeCorrect == Spec => []TypeOK
<1>1. DashboardInv => TypeOK
  BY DEF DashboardInv
<1> QED BY <1>1, DashboardInvariant, PTL

\* What the summary shows is exact for the events this process handled.
THEOREM SummariesAreRight == Spec => []SummaryIsExact
<1>1. ASSUME DashboardInv PROVE SummaryIsExact
  <2>1. /\ ExactCounter(counter, Handled) /\ ExactTraffic(traffic, Handled)
        /\ ExactRecent(recent, Shown(Handled))
    BY <1>1 DEF DashboardInv, SummariesAreExact
  <2> DEFINE attacks(k) == {i \in Handled : Log[i].kind = "attack.detected" /\ Log[i].type = k}
             lines(x) == {i \in Handled : Log[i].kind = "log.enriched" /\ Log[i].minute = x}
             shown == {i \in Handled : Realtime(Log[i])}
  <2>2. \A i \in Handled : Log[i].kind = "attack.detected" =>
          \/ \E j \in DOMAIN counter : counter[j].key = Log[i].type
          \/ Len(counter) = CounterCap
    BY <2>1 DEF ExactCounter, IsAttack
  <2>3. \A j \in DOMAIN counter : counter[j].n = Cardinality(attacks(counter[j].key))
    BY <2>1 DEF ExactCounter, Attacks, IsAttack
  <2>4. ASSUME NEW x \in 0..(Now - 1)
        PROVE  IF Cardinality({y \in (x + 1)..(Now - 1) : lines(y) # {}}) < TrafficMinutes
               THEN lines(x) # {} => x \in DOMAIN traffic /\ traffic[x] = Cardinality(lines(x))
               ELSE x \notin DOMAIN traffic
    <3>1. \A y : lines(y) = Lines(Handled, y)
      BY DEF Lines
    <3>2. {y \in (x + 1)..(Now - 1) : lines(y) # {}} = {y \in Minutes(Handled) : y > x}
      <4>1. \A y : y \in (x + 1)..(Now - 1) <=> y \in 0..(Now - 1) /\ y > x
        BY DashboardAssumption
      <4> HIDE DEF lines
      <4> QED BY <3>1, <4>1 DEF Minutes
    <3>3. DOMAIN traffic = Top(Minutes(Handled))
      BY <2>1 DEF ExactTraffic
    <3>4. \A y \in DOMAIN traffic : traffic[y] = Cardinality(Lines(Handled, y))
      BY <2>1 DEF ExactTraffic
    <3>5. lines(x) # {} <=> x \in Minutes(Handled)
      BY <3>1 DEF Minutes
    <3> HIDE DEF lines
    <3> QED BY <3>1, <3>2, <3>3, <3>4, <3>5 DEF Top
  <2>5. /\ Len(recent) = IF Cardinality(shown) < RecentCap THEN Cardinality(shown) ELSE RecentCap
        /\ \A i \in shown : Cardinality({j \in shown : j > i}) < RecentCap =>
             recent[Len(recent) - Cardinality({j \in shown : j > i})] = i
    BY <2>1 DEF ExactRecent, Later, Shown
  <2> QED BY <2>2, <2>3, <2>4, <2>5 DEF SummaryIsExact, Handled
<1> QED BY <1>1, DashboardInvariant, PTL

\* A slow browser loses items of its own, and what the others are sent is exact.
THEOREM StreamsAreExact == Spec => []StreamIsExact
<1>1. ASSUME DashboardInv PROVE StreamIsExact
  <2>1. \A b \in Browsers : open[b] =>
          /\ Len(Received(b)) = Cardinality(Due(b))
          /\ \A n \in Due(b) : Received(b)[Cardinality({m \in Due(b) : m <= n})] = fanned[n]
    BY <1>1 DEF DashboardInv, StreamOfIsExact
  <2> QED BY <2>1 DEF StreamIsExact, Due, Received
<1> QED BY <1>1, DashboardInvariant, PTL

\* What a browser could see, and what is committed, is in the history.
THEOREM WhatIsSeenIsStored == Spec => []SeenIsStored
<1>1. ASSUME DashboardInv PROVE SeenIsStored
  <2>1. /\ DOMAIN Log = 1..Len(Log) /\ Len(Log) \in Nat
        /\ committed \in Nat /\ pos \in Nat /\ committed <= pos
    BY <1>1, DashboardAssumption DEF DashboardInv, TypeOK
  <2>2. ASSUME NEW i \in DOMAIN Log, Log[i].kind = "attack.detected", i <= pos, pc = "persist" => i < pos
        PROVE  Log[i].id \in table \cup unstored
    <3>1. i \in 1..pos /\ ~(pc = "persist" /\ i = pos)
      BY <2>1, <2>2
    <3> QED BY <1>1, <2>2, <3>1 DEF DashboardInv, HandledIsStored, IsAttack
  <2>3. ASSUME NEW i \in DOMAIN Log, i <= committed
        PROVE  i <= pos /\ (pc = "persist" => i < pos)
    BY <1>1, <2>1, <2>3 DEF DashboardInv, InHand
  <2>4. ASSUME NEW i \in DOMAIN Log, \E s \in {ready, fanned} : \E n \in DOMAIN s : s[n] = i
        PROVE  i <= pos /\ (pc = "persist" => i < pos)
    BY <1>1, <2>4 DEF DashboardInv, HandledIsStored
  <2> QED BY <2>2, <2>3, <2>4 DEF SeenIsStored
<1> QED BY <1>1, DashboardInvariant, PTL

\* No statement of an answer misses a row that the one before it showed or counted.
THEOREM StatementsAddUp == Spec => AnswersAddUp
<1>1. DashboardInv /\ [Next]_vars => [step' > step /\ step > 0 => covered \subseteq covered']_vars
  BY AnswerStep
<1> QED BY <1>1, DashboardInvariant, PTL DEF Spec, AnswersAddUp
=============================================================================
