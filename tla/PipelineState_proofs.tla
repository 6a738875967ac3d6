------------------------- MODULE PipelineState_proofs -------------------------
(***************************************************************************)
(* Proofs about PipelineState, for any log, any cap and any number of      *)
(* pairs and faults: type correctness, and that the windows of a stage add *)
(* up to its events.                                                       *)
(***************************************************************************)
EXTENDS PipelineState, FiniteSetTheorems, SequenceTheorems, TLAPS

USE PipelineAssumption

-----------------------------------------------------------------------------
(* The inductive invariant.                                                *)

Ids == {Log[i].id : i \in DOMAIN Log}

\* The ids remembered are the last ones counted: all of them until there are SeenCap.
SeenIsRecent ==
  /\ seen \in Seq(Ids) /\ counted \in Seq(Ids)
  /\ Len(seen) <= Len(counted)
  /\ Len(seen) < SeenCap => Len(seen) = Len(counted)
  /\ \A n \in 1..Len(seen) : seen[n] = counted[Len(counted) - Len(seen) + n]

\* What was drained is what was stored, lost, or waits to be published; never more than was
\* counted.
BooksBalance ==
  \A k \in Pairs :
    /\ published[k] = reported[k] + lost[k] + changes[k]
    /\ published[k] <= counts[k]

\* What this process counted and those before it reported is backed by records handled, or
\* by those handled again.
CountsAreBacked ==
  \A k \in Pairs :
    reportedBefore[k] + counts[k] <= Cardinality(EventsOf(k, 1, pos)) + replayed[k]

PipelineInv ==
  TypeOK /\ SeenIsRecent /\ CountedTwiceOnlyBeyondCap /\ BooksBalance /\ CountsAreBacked

-----------------------------------------------------------------------------
(* Lemmas on the events of a pair.                                         *)

\* The events of a pair are finitely many.
LEMMA EventsFinite ==
  ASSUME NEW k, NEW first \in Int, NEW last \in Int
  PROVE  /\ IsFiniteSet(EventsOf(k, first, last))
         /\ Cardinality(EventsOf(k, first, last)) \in Nat
  BY FS_Interval, FS_Subset, FS_CardinalityType DEF EventsOf

\* Offsets are numbers.
LEMMA OffsetsType ==
  ASSUME TypeOK
  PROVE  pos \in Nat /\ committed \in Nat /\ committed \in 0..pos
  BY DEF TypeOK

\* One record more is one event more of its pair, and none of another.
LEMMA OneEventMore ==
  ASSUME NEW k \in Pairs, NEW n \in Nat, n < Len(Log)
  PROVE  Cardinality(EventsOf(k, 1, n + 1)) =
           Cardinality(EventsOf(k, 1, n)) + (IF Log[n + 1].pair = k THEN 1 ELSE 0)
<1>1. n + 1 \notin EventsOf(k, 1, n)
  BY DEF EventsOf
<1>2. CASE Log[n + 1].pair = k
  <2>1. EventsOf(k, 1, n + 1) = EventsOf(k, 1, n) \cup {n + 1}
    BY <1>2 DEF EventsOf
  <2> QED BY <1>1, <1>2, <2>1, EventsFinite, FS_AddElement
<1>3. CASE Log[n + 1].pair # k
  <2>1. EventsOf(k, 1, n + 1) = EventsOf(k, 1, n)
    BY <1>3 DEF EventsOf
  <2> QED BY <1>3, <2>1, EventsFinite
<1> QED BY <1>2, <1>3

\* The events up to n are those up to m and those after.
LEMMA EventsSplit ==
  ASSUME NEW k \in Pairs, NEW n \in Nat, NEW m \in 0..n
  PROVE  Cardinality(EventsOf(k, 1, n)) =
           Cardinality(EventsOf(k, 1, m)) + Cardinality(EventsOf(k, m + 1, n))
<1> DEFINE S == EventsOf(k, 1, m)
           T == EventsOf(k, m + 1, n)
<1>1. EventsOf(k, 1, n) = S \cup T
  BY DEF EventsOf
<1>2. S \cap T = {}
  BY DEF EventsOf
<1>3. IsFiniteSet(S) /\ IsFiniteSet(T)
  BY EventsFinite
<1>4. Cardinality(S \cup T) = Cardinality(S) + Cardinality(T) - Cardinality(S \cap T)
  BY <1>3, FS_Union
<1>5. Cardinality(S) \in Nat /\ Cardinality(T) \in Nat
  BY EventsFinite
<1>6. Cardinality(S \cap T) = 0
  BY <1>2, FS_EmptySet
<1>7. Cardinality(S \cup T) = Cardinality(S) + Cardinality(T)
  <2> HIDE DEF S, T
  <2> QED BY <1>4, <1>5, <1>6
<1> QED BY <1>1, <1>7
-----------------------------------------------------------------------------
(* Every step keeps the invariant.                                         *)

\* At first nothing was counted, remembered or reported.
LEMMA PipelineInit == Init => PipelineInv
<1> SUFFICES ASSUME Init PROVE PipelineInv
  OBVIOUS
<1>1. TypeOK /\ BooksBalance
  BY DEF Init, Zero, TypeOK, BooksBalance
<1>2. SeenIsRecent /\ CountedTwiceOnlyBeyondCap
  BY DEF Init, SeenIsRecent, CountedTwiceOnlyBeyondCap
<1>3. CountsAreBacked
  <2>1. ASSUME NEW k \in Pairs PROVE Cardinality(EventsOf(k, 1, pos)) \in Nat
    BY EventsFinite DEF Init
  <2> QED BY <2>1 DEF Init, Zero, CountsAreBacked
<1> QED BY <1>1, <1>2, <1>3 DEF PipelineInv

\* The ids after one more: the last ones counted, of which the new one is the newest.
LEMMA RememberStep ==
  ASSUME SeenIsRecent, CountedTwiceOnlyBeyondCap, Len(seen) <= SeenCap,
         NEW id \in Ids, ~Contains(seen, id),
         Remember(id), counted' = Append(counted, id)
  PROVE  SeenIsRecent' /\ CountedTwiceOnlyBeyondCap' /\ Len(seen') <= SeenCap
<1> DEFINE s == Append(seen, id)
<1>0. Len(seen) \in Nat /\ Len(counted) \in Nat
  BY DEF SeenIsRecent
<1>1. /\ s \in Seq(Ids) /\ Len(s) = Len(seen) + 1
      /\ \A n \in 1..Len(seen) : s[n] = seen[n]
      /\ s[Len(seen) + 1] = id
  BY DEF SeenIsRecent
<1>2. /\ counted' \in Seq(Ids) /\ Len(counted') = Len(counted) + 1
      /\ \A n \in 1..Len(counted) : counted'[n] = counted[n]
      /\ counted'[Len(counted) + 1] = id
  BY DEF SeenIsRecent
<1>3. SeenIsRecent' /\ Len(seen') <= SeenCap
  <2>1. CASE Len(s) > SeenCap
    <3>1. seen' = Tail(s)
      BY <2>1 DEF Remember
    <3>2. /\ seen' \in Seq(Ids) /\ Len(seen') = Len(seen) /\ Len(seen) = SeenCap
          /\ \A n \in 1..Len(seen) : seen'[n] = s[n + 1]
      BY <1>1, <2>1, <3>1 DEF SeenIsRecent
    <3>3. ASSUME NEW n \in 1..Len(seen)
          PROVE  seen'[n] = counted'[Len(counted') - Len(seen') + n]
      <4>1. CASE n = Len(seen)
        BY <1>1, <1>2, <3>2, <4>1 DEF SeenIsRecent
      <4>2. CASE n < Len(seen)
        <5>1. seen'[n] = seen[n + 1]
          BY <1>1, <3>2, <4>2 DEF SeenIsRecent
        <5>2. seen[n + 1] = counted[Len(counted) - Len(seen) + (n + 1)]
          BY <4>2 DEF SeenIsRecent
        <5>3. Len(counted) - Len(seen) + (n + 1) \in 1..Len(counted)
          BY <1>2, <3>2, <4>2 DEF SeenIsRecent
        <5>4. counted'[Len(counted) - Len(seen) + (n + 1)]
                = counted[Len(counted) - Len(seen) + (n + 1)]
          BY <1>2, <5>3
        <5>5. seen'[n] = counted'[Len(counted) - Len(seen) + (n + 1)]
          BY <5>1, <5>2, <5>4
        <5>6. Len(counted') - Len(seen') + n = Len(counted) - Len(seen) + (n + 1)
          BY <1>0, <1>2, <3>2
        <5> QED BY <5>5, <5>6, Zenon
      <4>3. n = Len(seen) \/ n < Len(seen)
        BY <1>0
      <4> QED BY <4>1, <4>2, <4>3, Zenon
    <3> QED BY <1>2, <3>2, <3>3 DEF SeenIsRecent
  <2>2. CASE ~(Len(s) > SeenCap)
    <3>1. seen' = s
      BY <2>2 DEF Remember
    <3>2. Len(seen) = Len(counted)
      BY <1>1, <2>2 DEF SeenIsRecent
    <3>3. Len(seen') = Len(counted') /\ Len(seen') <= SeenCap
      BY <1>1, <1>2, <2>2, <3>1, <3>2 DEF SeenIsRecent
    <3>4. ASSUME NEW n \in 1..Len(seen') PROVE seen'[n] = counted'[n]
      <4>1. CASE n = Len(seen) + 1
        BY <1>1, <1>2, <3>1, <3>2, <4>1
      <4>2. CASE n # Len(seen) + 1
        <5>1. n \in 1..Len(seen)
          BY <1>1, <3>1, <4>2 DEF SeenIsRecent
        <5>2. seen[n] = counted[n]
          BY <3>2, <5>1 DEF SeenIsRecent
        <5> QED BY <1>1, <1>2, <3>1, <3>2, <5>1, <5>2
      <4> QED BY <4>1, <4>2
    <3>5. ASSUME NEW n \in 1..Len(seen')
          PROVE  seen'[n] = counted'[Len(counted') - Len(seen') + n]
      <4>1. Len(counted') - Len(seen') + n = n
        BY <1>2, <3>3 DEF SeenIsRecent
      <4> QED BY <3>4, <4>1
    <3>6. seen' \in Seq(Ids)
      BY <1>1, <3>1
    <3> QED BY <1>2, <3>3, <3>5, <3>6 DEF SeenIsRecent
  <2> QED BY <2>1, <2>2
<1>4. CountedTwiceOnlyBeyondCap'
  <2> SUFFICES ASSUME NEW i \in 1..Len(counted'), NEW j \in 1..Len(counted'),
                      i < j, counted'[i] = counted'[j]
               PROVE  j - i > SeenCap
    BY <1>2 DEF CountedTwiceOnlyBeyondCap
  <2>1. CASE j <= Len(counted)
    BY <1>2, <2>1 DEF CountedTwiceOnlyBeyondCap, SeenIsRecent
  <2>2. CASE j = Len(counted) + 1
    <3>1. i \in 1..Len(counted) /\ counted[i] = id
      BY <1>2, <2>2 DEF SeenIsRecent
    <3>2. i <= Len(counted) - Len(seen)
      <4> SUFFICES ASSUME i > Len(counted) - Len(seen) PROVE FALSE
        BY <3>1 DEF SeenIsRecent
      <4> DEFINE n == i - (Len(counted) - Len(seen))
      <4>1. n \in 1..Len(seen) /\ Len(counted) - Len(seen) + n = i
        BY <3>1 DEF SeenIsRecent
      <4>2. seen[n] = id
        BY <3>1, <4>1 DEF SeenIsRecent
      <4> QED BY <4>1, <4>2 DEF Contains, SeenIsRecent
    <3> QED BY <2>2, <3>1, <3>2 DEF SeenIsRecent
  <2>3. Len(counted) \in Nat /\ j \in 1..(Len(counted) + 1)
    BY <1>2 DEF SeenIsRecent
  <2>4. j <= Len(counted) \/ j = Len(counted) + 1
    <3> HIDE PipelineAssumption
    <3> QED BY <2>3
  <2> QED BY <2>1, <2>2, <2>4, Zenon
<1> QED BY <1>3, <1>4
\* A record handled is counted and remembered, or known already.
LEMMA RecordStep ==
  ASSUME PipelineInv, Record
  PROVE  PipelineInv'
<1> DEFINE id == Log[pos + 1].id
           k == Log[pos + 1].pair
<1> TypeOK /\ SeenIsRecent /\ CountedTwiceOnlyBeyondCap /\ BooksBalance /\ CountsAreBacked
  BY DEF PipelineInv
<1>1. /\ pos < Len(Log) /\ pos' = pos + 1 /\ pos \in Nat
      /\ UNCHANGED <<committed, published, publisher, changes, reported, lost, pastVars, faults>>
  BY DEF Record, TypeOK
<1>2. id \in Ids /\ k \in Pairs
  BY <1>1 DEF Ids
<1>3. \/ UNCHANGED <<counts, seen, lastEvent, counted>>
      \/ /\ ~Contains(seen, id) /\ Remember(id) /\ counted' = Append(counted, id)
         /\ counts' = [counts EXCEPT ![k] = @ + 1]
         /\ lastEvent' = [lastEvent EXCEPT ![k] = pos + 1]
  BY DEF Record
<1>4. SeenIsRecent' /\ CountedTwiceOnlyBeyondCap' /\ Len(seen') <= SeenCap
  <2>1. CASE UNCHANGED <<counts, seen, lastEvent, counted>>
    BY <2>1 DEF SeenIsRecent, CountedTwiceOnlyBeyondCap, TypeOK
  <2>2. CASE ~Contains(seen, id) /\ Remember(id) /\ counted' = Append(counted, id)
    BY <1>2, <2>2, RememberStep DEF TypeOK
  <2> QED BY <1>3, <2>1, <2>2
<1>5. counts' \in [Pairs -> Nat] /\ lastEvent' \in [Pairs -> 0..pos']
      /\ \A j \in Pairs : /\ counts[j] <= counts'[j]
                          /\ counts'[j] <= counts[j] + (IF j = k THEN 1 ELSE 0)
  <2>1. counts \in [Pairs -> Nat] /\ lastEvent \in [Pairs -> 0..pos]
    BY DEF TypeOK
  <2>2. CASE UNCHANGED <<counts, seen, lastEvent, counted>>
    BY <1>1, <2>1, <2>2
  <2>3. CASE /\ counts' = [counts EXCEPT ![k] = @ + 1]
             /\ lastEvent' = [lastEvent EXCEPT ![k] = pos + 1]
    BY <1>1, <1>2, <2>1, <2>3
  <2> QED BY <1>3, <2>2, <2>3
<1>6. TypeOK'
  <2>1. pos' \in 0..Len(Log) /\ committed' \in 0..pos'
    BY <1>1 DEF TypeOK
  <2> QED BY <1>1, <1>4, <1>5, <2>1 DEF TypeOK, pastVars
<1>7. BooksBalance'
  BY <1>1, <1>5, SMTT(30) DEF BooksBalance, TypeOK
<1>8. CountsAreBacked'
  <2> SUFFICES ASSUME NEW j \in Pairs
               PROVE  reportedBefore[j] + counts'[j]
                        <= Cardinality(EventsOf(j, 1, pos + 1)) + replayed[j]
    BY <1>1 DEF CountsAreBacked, pastVars
  <2>1. Cardinality(EventsOf(j, 1, pos + 1)) =
          Cardinality(EventsOf(j, 1, pos)) + (IF k = j THEN 1 ELSE 0)
    BY <1>1, OneEventMore
  <2>2. Cardinality(EventsOf(j, 1, pos)) \in Nat
    BY <1>1, EventsFinite
  <2>3. reportedBefore[j] + counts[j] <= Cardinality(EventsOf(j, 1, pos)) + replayed[j]
    BY DEF CountsAreBacked
  <2>4. /\ counts'[j] \in Nat /\ counts[j] \in Nat /\ reportedBefore[j] \in Nat
        /\ replayed[j] \in Nat
        /\ counts'[j] <= counts[j] + (IF j = k THEN 1 ELSE 0)
    BY <1>5 DEF TypeOK
  <2> QED BY <2>1, <2>2, <2>3, <2>4, SMTT(30)
<1> QED BY <1>4, <1>6, <1>7, <1>8 DEF PipelineInv

\* A restart forgets what was counted, and owes nothing but what it will handle again.
LEMMA RestartStep ==
  ASSUME PipelineInv, Restart
  PROVE  PipelineInv'
<1> TypeOK /\ BooksBalance /\ CountsAreBacked
  BY DEF PipelineInv
<1>1. \A k \in Pairs : /\ Cardinality(EventsOf(k, committed + 1, pos)) \in Nat
                       /\ Cardinality(EventsOf(k, 1, committed)) \in Nat
  BY OffsetsType, EventsFinite
<1>2. TypeOK'
  <2>1. replayed' \in [Pairs -> Nat] /\ reportedBefore' \in [Pairs -> Nat]
    <3>1. /\ replayed \in [Pairs -> Nat] /\ reportedBefore \in [Pairs -> Nat]
          /\ reported \in [Pairs -> Nat]
      BY DEF TypeOK
    <3>2. /\ reportedBefore' = [k \in Pairs |-> reportedBefore[k] + reported[k]]
          /\ replayed' = [k \in Pairs |->
                            replayed[k] + Cardinality(EventsOf(k, committed + 1, pos))]
      BY DEF Restart
    <3>3. \A k \in Pairs : replayed[k] + Cardinality(EventsOf(k, committed + 1, pos)) \in Nat
      BY <1>1, <3>1
    <3>4. \A k \in Pairs : reportedBefore[k] + reported[k] \in Nat
      BY <3>1
    <3> QED BY <3>2, <3>3, <3>4
  <2>2. /\ pos' \in 0..Len(Log) /\ committed' \in 0..pos' /\ faults' \in 0..MaxFaults
        /\ lastEvent' \in [Pairs -> 0..pos']
    BY DEF Restart, Fault, Zero, TypeOK
  <2>3. /\ counts' = Zero /\ published' = Zero /\ changes' = Zero /\ reported' = Zero
        /\ lost' = Zero /\ seen' = <<>> /\ publisher' = "connecting"
    BY DEF Restart
  <2>4. Zero \in [Pairs -> Nat] /\ ~ \E k \in Pairs : Zero[k] > 0
    BY DEF Zero
  <2>5. Len(seen') <= SeenCap
    BY <2>3
  <2> QED BY <2>1, <2>2, <2>3, <2>4, <2>5 DEF TypeOK
<1>3. SeenIsRecent' /\ CountedTwiceOnlyBeyondCap'
  BY DEF Restart, SeenIsRecent, CountedTwiceOnlyBeyondCap
<1>4. BooksBalance'
  BY DEF Restart, Zero, BooksBalance
<1>5. CountsAreBacked'
  <2> SUFFICES ASSUME NEW k \in Pairs
               PROVE  reportedBefore'[k] + counts'[k]
                        <= Cardinality(EventsOf(k, 1, committed)) + replayed'[k]
    BY DEF Restart, CountsAreBacked
  <2>1. /\ reportedBefore'[k] = reportedBefore[k] + reported[k] /\ counts'[k] = 0
        /\ replayed'[k] = replayed[k] + Cardinality(EventsOf(k, committed + 1, pos))
    BY DEF Restart, Zero
  <2>2. Cardinality(EventsOf(k, 1, pos)) =
          Cardinality(EventsOf(k, 1, committed)) + Cardinality(EventsOf(k, committed + 1, pos))
    BY EventsSplit DEF TypeOK
  <2>3. reported[k] <= counts[k]
    BY DEF BooksBalance, TypeOK
  <2>4. reportedBefore[k] + counts[k] <= Cardinality(EventsOf(k, 1, pos)) + replayed[k]
    BY DEF CountsAreBacked
  <2>5. /\ reportedBefore[k] \in Nat /\ reported[k] \in Nat /\ counts[k] \in Nat
        /\ replayed[k] \in Nat
    BY DEF TypeOK
  <2> QED BY <1>1, <2>1, <2>2, <2>3, <2>4, <2>5
<1> QED BY <1>2, <1>3, <1>4, <1>5 DEF PipelineInv

\* The publisher moves events between the books of this process.
LEMMA PublisherStep ==
  ASSUME PipelineInv, Connect \/ Drain \/ \E k \in Pairs : Publish(k)
  PROVE  PipelineInv'
<1> TypeOK /\ SeenIsRecent /\ CountedTwiceOnlyBeyondCap /\ BooksBalance /\ CountsAreBacked
  BY DEF PipelineInv
<1>1. UNCHANGED <<pos, committed, counts, seen, lastEvent, counted, reportedBefore, replayed>>
  BY DEF Connect, Drain, Publish, consumerVars, pastVars
<1>2. SeenIsRecent' /\ CountedTwiceOnlyBeyondCap' /\ CountsAreBacked'
  BY <1>1 DEF SeenIsRecent, CountedTwiceOnlyBeyondCap, CountsAreBacked, EventsOf
<1>3. CASE Connect
  BY <1>2, <1>3, SMTT(30) DEF Connect, Fault, TypeOK, BooksBalance, PipelineInv, consumerVars, pastVars
<1>4. CASE Drain
  <2>1. /\ UNCHANGED <<reported, lost, faults>> /\ published' = counts
        /\ changes' = [k \in Pairs |-> counts[k] - published[k]] /\ publisher' = "publishing"
        /\ \E k \in Pairs : counts[k] > published[k]
    BY <1>4 DEF Drain
  <2>a. \A k \in Pairs : changes[k] = 0
    <3>1. publisher = "sleeping"
      BY <1>4 DEF Drain
    <3>2. changes \in [Pairs -> Nat] /\ ~ \E k \in Pairs : changes[k] > 0
      BY <3>1 DEF TypeOK
    <3> QED BY <3>2
  <2>2. \A k \in Pairs : counts[k] \in Nat /\ published[k] \in Nat /\ published[k] <= counts[k]
    BY DEF TypeOK, BooksBalance
  <2>3. changes' \in [Pairs -> Nat] /\ \E k \in Pairs : changes'[k] > 0
    BY <2>1, <2>2
  <2>4. TypeOK'
    BY <1>1, <2>1, <2>3 DEF TypeOK
  <2>5. BooksBalance'
    <3> SUFFICES ASSUME NEW k \in Pairs
                 PROVE  /\ published'[k] = reported'[k] + lost'[k] + changes'[k]
                        /\ published'[k] <= counts'[k]
      BY DEF BooksBalance
    <3>1. published[k] = reported[k] + lost[k]
      BY <2>a DEF BooksBalance, TypeOK
    <3>2. reported[k] \in Nat /\ lost[k] \in Nat
      BY DEF TypeOK
    <3>3. changes'[k] = counts[k] - published[k]
      BY <2>1
    <3> QED BY <1>1, <2>1, <2>2, <3>1, <3>2, <3>3
  <2> QED BY <1>2, <2>4, <2>5 DEF PipelineInv
<1>5. ASSUME NEW k \in Pairs, Publish(k) PROVE PipelineInv'
  <2>1. /\ changes' = [changes EXCEPT ![k] = 0] /\ published' = published
        /\ publisher' = IF \A j \in Pairs \ {k} : changes[j] = 0 THEN "sleeping" ELSE publisher
        /\ publisher = "publishing"
    BY <1>5 DEF Publish, Published
  <2>2. \/ reported' = [reported EXCEPT ![k] = @ + changes[k]] /\ lost' = lost
        \/ lost' = [lost EXCEPT ![k] = @ + changes[k]] /\ reported' = reported
    BY <1>5 DEF Publish
  <2>3. faults' \in 0..MaxFaults
    <3>1. faults' = faults \/ (faults < MaxFaults /\ faults' = faults + 1)
      BY <1>5 DEF Publish, Fault
    <3>2. faults \in 0..MaxFaults
      BY DEF TypeOK
    <3> QED BY <3>1, <3>2
  <2>a. /\ changes \in [Pairs -> Nat] /\ reported \in [Pairs -> Nat] /\ lost \in [Pairs -> Nat]
        /\ changes[k] \in Nat
    BY DEF TypeOK
  <2>4. /\ changes' \in [Pairs -> Nat] /\ publisher' \in {"sleeping", "publishing"}
        /\ publisher' = "publishing" <=> \E j \in Pairs : changes'[j] > 0
    <3>1. \A j \in Pairs : changes'[j] = IF j = k THEN 0 ELSE changes[j]
      BY <2>1, <2>a
    <3>2. changes' \in [Pairs -> Nat]
      BY <2>1, <2>a
    <3>3. CASE \A j \in Pairs \ {k} : changes[j] = 0
      BY <2>1, <3>1, <3>2, <3>3
    <3>4. CASE ~ \A j \in Pairs \ {k} : changes[j] = 0
      BY <2>1, <2>a, <3>1, <3>2, <3>4
    <3> QED BY <3>3, <3>4
  <2>5. reported' \in [Pairs -> Nat] /\ lost' \in [Pairs -> Nat]
    <3>1. reported[k] + changes[k] \in Nat /\ lost[k] + changes[k] \in Nat
      BY <2>a
    <3> QED BY <2>2, <2>a, <3>1
  <2>6. TypeOK'
    BY <1>1, <2>1, <2>3, <2>4, <2>5 DEF TypeOK
  <2>7. ASSUME NEW j \in Pairs
        PROVE  published'[j] = reported'[j] + lost'[j] + changes'[j] /\ published'[j] <= counts'[j]
    <3>1. /\ published[j] = reported[j] + lost[j] + changes[j] /\ published[j] <= counts[j]
          /\ published[j] \in Nat /\ reported[j] \in Nat /\ lost[j] \in Nat /\ changes[j] \in Nat
          /\ reported \in [Pairs -> Nat] /\ lost \in [Pairs -> Nat] /\ changes \in [Pairs -> Nat]
      BY DEF BooksBalance, TypeOK
    <3> QED BY <1>1, <2>1, <2>2, <3>1, SMTT(30)
  <2>8. BooksBalance'
    BY <2>7 DEF BooksBalance
  <2> QED BY <1>2, <2>6, <2>8 DEF PipelineInv
<1> QED BY <1>3, <1>4, <1>5

\* Every step keeps the invariant.
LEMMA PipelineStep == PipelineInv /\ [Next]_vars => PipelineInv'
<1> SUFFICES ASSUME PipelineInv, [Next]_vars PROVE PipelineInv'
  OBVIOUS
<1>1. CASE UNCHANGED vars
  BY <1>1 DEF vars, consumerVars, pastVars, PipelineInv, TypeOK, SeenIsRecent,
              CountedTwiceOnlyBeyondCap, BooksBalance, CountsAreBacked, EventsOf
<1>2. CASE Commit
  <2>1. /\ committed' = pos /\ UNCHANGED <<pos, counts, seen, lastEvent, published, publisher, changes>>
        /\ UNCHANGED <<reported, lost, counted, reportedBefore, replayed, faults>>
    BY <1>2 DEF Commit, consumerVars, pastVars
  <2>2. TypeOK
    BY DEF PipelineInv
  <2>3. pos \in 0..Len(Log) /\ pos \in 0..pos
    BY <2>2 DEF TypeOK
  <2>4. TypeOK'
    BY <2>1, <2>2, <2>3 DEF TypeOK
  <2>5. SeenIsRecent' /\ CountedTwiceOnlyBeyondCap'
    BY <2>1 DEF PipelineInv, SeenIsRecent, CountedTwiceOnlyBeyondCap
  <2>6. BooksBalance' /\ CountsAreBacked'
    BY <2>1 DEF PipelineInv, BooksBalance, CountsAreBacked, EventsOf
  <2> QED BY <2>4, <2>5, <2>6 DEF PipelineInv
<1> QED BY <1>1, <1>2, RecordStep, RestartStep, PublisherStep DEF Next

-----------------------------------------------------------------------------
(* Theorems.                                                               *)

\* The inductive invariant of P3 holds.
THEOREM PipelineInvariant == Spec => []PipelineInv
  BY PipelineInit, PipelineStep, PTL DEF Spec

\* TypeOK is an invariant of P3.
THEOREM TypeCorrect == Spec => []TypeOK
<1>1. PipelineInv => TypeOK
  BY DEF PipelineInv
<1> QED BY <1>1, PipelineInvariant, PTL

\* Whatever the interleaving of the consumer and the publisher, the failed publishes and the
\* restarts, a stage is neither inflated nor left out: a redelivered id counts again only
\* after SeenCap others, each event counted is in exactly one window, and what is reported
\* again is what was handled again.
THEOREM StagesAddUp == Spec => []WindowsAddUp
<1>1. PipelineInv => WindowsAddUp
  <2> SUFFICES ASSUME PipelineInv PROVE WindowsAddUp
    OBVIOUS
  <2>1. EachEventInOneWindow
    BY DEF PipelineInv, EachEventInOneWindow, BooksBalance, TypeOK
  <2>2. ReportedAgainOnlyIfReplayed
    <3> SUFFICES ASSUME NEW k \in Pairs
                 PROVE  reportedBefore[k] + reported[k]
                          <= Cardinality(EventsOf(k, 1, pos)) + replayed[k]
      BY DEF ReportedAgainOnlyIfReplayed
    <3>1. Cardinality(EventsOf(k, 1, pos)) \in Nat
      BY OffsetsType, EventsFinite DEF PipelineInv
    <3>2. reported[k] <= counts[k]
      BY DEF PipelineInv, BooksBalance, TypeOK
    <3> QED BY <3>1, <3>2 DEF PipelineInv, CountsAreBacked, TypeOK
  <2> QED BY <2>1, <2>2 DEF PipelineInv, WindowsAddUp
<1> QED BY <1>1, PipelineInvariant, PTL
=============================================================================
