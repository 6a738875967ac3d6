--------------------------- MODULE LogStream_proofs ---------------------------
(***************************************************************************)
(* Proofs about LogStream, for any log, clients and domains, any batch     *)
(* size, bounds of the counters and windows, and any number of restarts:   *)
(* type correctness, that no line is lost end to end, that the lines of a  *)
(* client stay in order, that what C3 and DDOS count is exact, that no     *)
(* burst passes in silence, that what restarts repeat is bounded, and that *)
(* every alert is justified.                                               *)
(***************************************************************************)
EXTENDS LogStream, FiniteSetTheorems, SequenceTheorems, WellFoundedInduction, TLAPS

-----------------------------------------------------------------------------
(* The inductive invariant.                                                *)

Partitions == Clients \cup Domains

\* The places of the valid lines of block i, and the valid lines of the whole log, of c.
Places(c, i) == {k \in DOMAIN Raw[c][i] : Raw[c][i][k] # Malformed}
LogLines(c) == UNION {{<<c, i, k>> : k \in Places(c, i)} : i \in DOMAIN Raw[c]}

Normalized(c) == [line : LogLines(c), time : Nat \cup {NoTime}]
EnrichedLines(c) == [line : LogLines(c), time : Nat \cup {NoTime}, timestamp : Instants, rate : Nat]
Counters == [client : Clients, times : Seq(Instants)]
Kinds == {"skip", "parse", "enrich", "copy", "ddos"}

\* The types of the topics, the offsets, the counters and the faults.
StreamTypes ==
  /\ DOMAIN normalized = Clients /\ DOMAIN enriched = Clients
  /\ \A c \in Clients : normalized[c] \in Seq(Normalized(c)) /\ enriched[c] \in Seq(EnrichedLines(c))
  /\ byDomain \in [Domains -> Seq(Clients \X Nat)]
  /\ parsed \in [Clients -> Nat] /\ parsedOk \in [Clients -> Nat]
  /\ enrich \in [Clients -> Nat] /\ enrichOk \in [Clients -> Nat]
  /\ pos \in [Partitions -> Nat] /\ posOk \in [Partitions -> Nat]
  /\ hits \in Seq(Counters)
  /\ windows \in Seq({windows[n] : n \in DOMAIN windows})
  /\ faults \in Seq(Kinds)

\* What a stage has handled, committed or not, is in the next topic or was dropped.
ParsedIsKept ==
  \A c \in Clients : \A i \in 1..parsed[c] :
    \/ <<"parse", c, i>> \in dropped
    \/ \A k \in Places(c, i) : \E n \in DOMAIN normalized[c] : normalized[c][n].line = <<c, i, k>>

EnrichedIsKept ==
  \A c \in Clients : \A i \in 1..enrich[c] :
    \/ <<"enrich", c, i>> \in dropped
    \/ \E n \in DOMAIN enriched[c] : enriched[c][n].line = normalized[c][i].line

CopiedIsKept ==
  \A c \in Clients : \A i \in 1..pos[c] :
    \/ <<"detector", c, i>> \in dropped
    \/ \E n \in DOMAIN byDomain[DomainOf[c]] : byDomain[DomainOf[c]][n] = <<c, i>>

\* Before the m-th record of s there is every line of the log of c before its line.
NoGapBefore(s, m, c) ==
  \A l \in LogLines(c) : Before(l, s[m].line) => \E q \in 1..(m - 1) : s[q].line = l

NoGaps(s, c) == \A m \in DOMAIN s : NoGapBefore(s, m, c)

\* Without skips, only blocks without a valid line are dropped before the detector, and no
\* line comes before those that it follows in the log for the first time.
LinesInOrder ==
  Happened({"skip"}) = {} =>
    /\ \A c \in Clients, i \in Nat \ {0} :
         /\ <<"parse", c, i>> \in dropped => i \in DOMAIN Raw[c] /\ Places(c, i) = {}
         /\ <<"enrich", c, i>> \notin dropped
    /\ \A c \in Clients : NoGaps(normalized[c], c) /\ NoGaps(enriched[c], c)

\* A copy refers to a record, and is not the first before the copies of those before that.
CopyInOrder(d, m) ==
  \E c \in Clients : \E i \in DOMAIN enriched[c] :
    /\ byDomain[d][m] = <<c, i>> /\ DomainOf[c] = d
    /\ \A j \in 1..(i - 1) :
         <<"detector", c, j>> \in dropped \/ \E q \in 1..(m - 1) : byDomain[d][q] = <<c, j>>

CopiesInOrder == \A d \in Domains : \A m \in DOMAIN byDomain[d] : CopyInOrder(d, m)

StreamInv ==
  /\ TypeOK /\ StreamTypes
  /\ ParsedIsKept /\ EnrichedIsKept /\ CopiedIsKept
  /\ LinesInOrder /\ CopiesInOrder

-----------------------------------------------------------------------------
(* Subsequences.                                                           *)

Rank(S, k) == Cardinality({j \in S : j <= k})

\* The ranks of a finite set of numbers: from 1 to their number, and in their order.
LEMMA RankFacts ==
  ASSUME NEW S, IsFiniteSet(S), S \subseteq Int, NEW k \in S
  PROVE  /\ Rank(S, k) \in 1..Cardinality(S)
         /\ \A j \in S : j < k => Rank(S, j) < Rank(S, k)
<1>1. \A j \in S : IsFiniteSet({i \in S : i <= j}) /\ Rank(S, j) \in 0..Cardinality(S)
  <2> TAKE j \in S
  <2>1. {i \in S : i <= j} \in SUBSET S
    OBVIOUS
  <2> QED BY <2>1, FS_Subset, FS_CardinalityType DEF Rank
<1>2. Rank(S, k) # 0
  <2>1. k \in {i \in S : i <= k}
    OBVIOUS
  <2> QED BY <1>1, <2>1, FS_EmptySet DEF Rank
<1>3. ASSUME NEW j \in S, j < k PROVE Rank(S, j) < Rank(S, k)
  <2>0. j \in Int /\ k \in Int /\ Cardinality(S) \in Nat
    BY FS_CardinalityType
  <2>1. {i \in S : i <= j} \in SUBSET {i \in S : i <= k}
    <3>1. ASSUME NEW i \in S, i <= j PROVE i <= k
      <4>1. i \in Int
        OBVIOUS
      <4> QED BY <1>3, <2>0, <3>1, <4>1
    <3> QED BY <3>1
  <2>2. {i \in S : i <= j} # {i \in S : i <= k}
    <3>1. k \in {i \in S : i <= k} /\ k \notin {i \in S : i <= j}
      BY <1>3, <2>0
    <3> QED BY <3>1
  <2>3. Rank(S, j) <= Rank(S, k) /\ Rank(S, j) # Rank(S, k)
    BY <1>1, <2>1, <2>2, FS_Subset DEF Rank
  <2>4. Rank(S, j) \in 0..Cardinality(S) /\ Rank(S, k) \in 0..Cardinality(S)
    BY <1>1
  <2>5. Rank(S, j) \in Int /\ Rank(S, k) \in Int
    BY <2>0, <2>4
  <2> QED BY <2>3, <2>5
<1>4. Cardinality(S) \in Nat
  BY FS_CardinalityType
<1>5. Rank(S, k) \in 0..Cardinality(S)
  BY <1>1
<1>6. Rank(S, k) \in 1..Cardinality(S)
  BY <1>2, <1>4, <1>5
<1> QED BY <1>3, <1>6

\* Rank and Nth are inverse to each other, and Nth keeps the order.
LEMMA NthFacts ==
  ASSUME NEW S, IsFiniteSet(S), S \subseteq Int
  PROVE  /\ \A k \in S : Rank(S, k) \in 1..Cardinality(S) /\ Nth(S, Rank(S, k)) = k
         /\ \A n \in 1..Cardinality(S) : Nth(S, n) \in S /\ Rank(S, Nth(S, n)) = n
         /\ \A m, n \in 1..Cardinality(S) : m < n => Nth(S, m) < Nth(S, n)
<1> DEFINE rank == [k \in S |-> Rank(S, k)]
<1>0. Cardinality(S) \in Nat
  BY FS_CardinalityType
<1>1. \A k \in S : Rank(S, k) \in 1..Cardinality(S)
  BY RankFacts
<1>2. \A j, k \in S : Rank(S, j) = Rank(S, k) => j = k
  <2> SUFFICES ASSUME NEW j \in S, NEW k \in S, j # k PROVE Rank(S, j) # Rank(S, k)
    OBVIOUS
  <2>1. j < k \/ k < j
    <3>1. j \in Int /\ k \in Int
      OBVIOUS
    <3> QED BY <3>1
  <2>2. Rank(S, j) \in Int /\ Rank(S, k) \in Int
    BY <1>0, <1>1
  <2>3. Rank(S, j) < Rank(S, k) \/ Rank(S, k) < Rank(S, j)
    BY <2>1, RankFacts
  <2> QED BY <2>2, <2>3
<1>3. \A n \in 1..Cardinality(S) : \E k \in S : Rank(S, k) = n
  <2>1. rank \in Injection(S, 1..Cardinality(S))
    BY <1>1, <1>2 DEF Injection, IsInjective
  <2>2. IsFiniteSet(1..Cardinality(S)) /\ Cardinality(1..Cardinality(S)) = Cardinality(S)
    BY <1>0, FS_Interval
  <2>3. rank \in Surjection(S, 1..Cardinality(S))
    BY <2>1, <2>2, FS_Injection
  <2> QED BY <2>3 DEF Surjection
<1>4. \A n \in 1..Cardinality(S) : Nth(S, n) \in S /\ Rank(S, Nth(S, n)) = n
  BY <1>3 DEF Nth, Rank
<1>5. \A k \in S : Nth(S, Rank(S, k)) = k
  BY <1>1, <1>2, <1>4
<1>6. \A m, n \in 1..Cardinality(S) : m < n => Nth(S, m) < Nth(S, n)
  <2> SUFFICES ASSUME NEW m \in 1..Cardinality(S), NEW n \in 1..Cardinality(S), m < n,
                      ~(Nth(S, m) < Nth(S, n))
               PROVE FALSE
    OBVIOUS
  <2>1. Nth(S, m) \in S /\ Nth(S, n) \in S /\ Rank(S, Nth(S, m)) = m /\ Rank(S, Nth(S, n)) = n
    BY <1>4
  <2>2. Nth(S, n) < Nth(S, m) \/ Nth(S, n) = Nth(S, m)
    <3>1. Nth(S, m) \in Int /\ Nth(S, n) \in Int
      BY <2>1
    <3> QED BY <3>1
  <2>3. Nth(S, n) < Nth(S, m) => n < m
    BY <2>1, RankFacts
  <2> QED BY <1>0, <2>1, <2>2, <2>3
<1> QED BY <1>1, <1>4, <1>5, <1>6

\* The subsequence of s at S has the elements at S, in their order, and no other.
LEMMA AtFacts ==
  ASSUME NEW T, NEW s \in Seq(T), NEW S \in SUBSET DOMAIN s
  PROVE  /\ IsFiniteSet(S) /\ S \subseteq Int
         /\ Cardinality(S) \in Nat /\ Cardinality(S) <= Len(s)
         /\ At(s, S) \in Seq(T) /\ Len(At(s, S)) = Cardinality(S)
         /\ \A n \in 1..Cardinality(S) : Nth(S, n) \in S /\ At(s, S)[n] = s[Nth(S, n)]
         /\ \A k \in S : Rank(S, k) \in 1..Cardinality(S) /\ At(s, S)[Rank(S, k)] = s[k]
<1>1. DOMAIN s = 1..Len(s) /\ Len(s) \in Nat
  BY LenProperties
<1>2. IsFiniteSet(DOMAIN s) /\ Cardinality(DOMAIN s) = Len(s)
  <2>1. IsFiniteSet(1..Len(s)) /\ Cardinality(1..Len(s)) = IF 1 > Len(s) THEN 0 ELSE Len(s) - 1 + 1
    BY <1>1, FS_Interval
  <2> QED BY <1>1, <2>1
<1>3. IsFiniteSet(S) /\ Cardinality(S) \in Nat /\ Cardinality(S) <= Len(s) /\ S \subseteq Int
  BY <1>1, <1>2, FS_Subset, FS_CardinalityType
<1>4. \A n \in 1..Cardinality(S) : Nth(S, n) \in S /\ s[Nth(S, n)] \in T
  BY <1>1, <1>3, NthFacts, ElementOfSeq
<1>5. At(s, S) \in [1..Cardinality(S) -> T]
  BY <1>4 DEF At
<1>6. At(s, S) \in Seq(T) /\ Len(At(s, S)) = Cardinality(S)
  BY <1>3, <1>5
<1>7. \A n \in 1..Cardinality(S) : At(s, S)[n] = s[Nth(S, n)]
  BY DEF At
<1>8. \A k \in S : Rank(S, k) \in 1..Cardinality(S) /\ At(s, S)[Rank(S, k)] = s[k]
  BY <1>3, <1>7, NthFacts
<1> QED BY <1>3, <1>4, <1>6, <1>7, <1>8

\* Each component has its own copy of the operators on subsequences.
LEMMA SameAt ==
  ASSUME NEW s, NEW S
  PROVE  C2!At(s, S) = At(s, S) /\ C3!At(s, S) = At(s, S) /\ Detector!At(s, S) = At(s, S)
<1>1. C2!At(s, S) = At(s, S)
  BY DEF C2!At, C2!Nth, C2!Cardinality, At, Nth, Cardinality
<1>2. C3!At(s, S) = At(s, S)
  BY DEF C3!At, C3!Nth, C3!Cardinality, At, Nth, Cardinality
<1>3. Detector!At(s, S) = At(s, S)
  BY DEF Detector!At, Detector!Nth, Detector!Cardinality, At, Nth, Cardinality
<1> QED BY <1>1, <1>2, <1>3

-----------------------------------------------------------------------------
(* The log, and the valid lines of a block.                                *)

Times == Nat \cup {NoTime}

\* The log of a client is a sequence of blocks, a block a sequence of lines.
LEMMA LogFacts ==
  ASSUME NEW c \in Clients, NEW i \in DOMAIN Raw[c]
  PROVE  /\ Len(Raw[c]) \in Nat /\ DOMAIN Raw[c] = 1..Len(Raw[c])
         /\ Len(Raw[c][i]) \in Nat /\ DOMAIN Raw[c][i] = 1..Len(Raw[c][i])
         /\ \A k \in Places(c, i) : Raw[c][i][k] \in Times
         /\ Places(c, i) \in SUBSET DOMAIN Raw[c][i]
<1>1. Raw[c] \in Seq(Seq(Nat \cup {Malformed, NoTime}))
  BY StreamAssumption
<1>2. Len(Raw[c]) \in Nat /\ DOMAIN Raw[c] = 1..Len(Raw[c])
  BY <1>1, LenProperties
<1>3. Raw[c][i] \in Seq(Nat \cup {Malformed, NoTime})
  BY <1>1, <1>2, ElementOfSeq
<1>4. Len(Raw[c][i]) \in Nat /\ DOMAIN Raw[c][i] = 1..Len(Raw[c][i])
  BY <1>3, LenProperties
<1>5. \A k \in DOMAIN Raw[c][i] : Raw[c][i][k] \in Nat \cup {Malformed, NoTime}
  BY <1>3, <1>4, ElementOfSeq
<1> QED BY <1>2, <1>4, <1>5 DEF Places, Times

\* parse_raw returns the valid lines of the block, each one, in their order.
LEMMA ValidFacts ==
  ASSUME NEW c \in Clients, NEW i \in DOMAIN Raw[c]
  PROVE  /\ C2!Valid(c, i) \in Seq(Normalized(c))
         /\ Len(C2!Valid(c, i)) = Cardinality(Places(c, i)) /\ Cardinality(Places(c, i)) \in Nat
         /\ IsFiniteSet(Places(c, i)) /\ Places(c, i) \subseteq Int
         /\ \A n \in 1..Cardinality(Places(c, i)) :
              C2!Valid(c, i)[n].line = <<c, i, Nth(Places(c, i), n)>>
<1> DEFINE P == Places(c, i)
           Line(k) == [line |-> <<c, i, k>>, time |-> Raw[c][i][k]]
           block == [k \in DOMAIN Raw[c][i] |-> Line(k)]
           AnyLine == {block[k] : k \in DOMAIN Raw[c][i]}
<1>1. C2!Valid(c, i) = At(block, P)
  BY SameAt DEF C2!Valid, Places
<1>2. DOMAIN block = 1..Len(Raw[c][i]) /\ Len(Raw[c][i]) \in Nat /\ P \in SUBSET DOMAIN block
  BY LogFacts
<1>3. block \in Seq(AnyLine)
  <2>1. block \in [1..Len(Raw[c][i]) -> AnyLine]
    BY <1>2
  <2> HIDE DEF AnyLine, block
  <2> QED BY <1>2, <2>1
<1> HIDE DEF AnyLine
<1>4. \A k \in P : block[k] = Line(k) /\ Line(k) \in Normalized(c)
  <2> TAKE k \in P
  <2>1. Raw[c][i][k] \in Nat \cup {NoTime} /\ k \in DOMAIN Raw[c][i]
    BY LogFacts DEF Times
  <2>2. <<c, i, k>> \in LogLines(c)
    BY DEF LogLines
  <2> QED BY <2>1, <2>2 DEF Normalized
<1> HIDE DEF block, P, Line
<1>5. /\ IsFiniteSet(P) /\ P \subseteq Int /\ Cardinality(P) \in Nat
      /\ At(block, P) \in Seq(AnyLine) /\ Len(At(block, P)) = Cardinality(P)
      /\ \A n \in 1..Cardinality(P) : Nth(P, n) \in P /\ At(block, P)[n] = block[Nth(P, n)]
  BY <1>2, <1>3, AtFacts
<1>6. \A n \in 1..Cardinality(P) :
        At(block, P)[n] = Line(Nth(P, n)) /\ At(block, P)[n] \in Normalized(c)
  BY <1>4, <1>5
<1>7. At(block, P) \in Seq(Normalized(c))
  <2>1. At(block, P) \in [1..Cardinality(P) -> Normalized(c)]
    BY <1>6 DEF At
  <2> QED BY <1>5, <2>1
<1> QED BY <1>1, <1>5, <1>6, <1>7 DEF P, Line

-----------------------------------------------------------------------------
(* C2.                                                                     *)

\* t goes on where s ends.
Grown(s, t) == Len(s) <= Len(t) /\ \A n \in 1..Len(s) : t[n] = s[n]

\* t is the topic of c with the first n valid lines of block i behind it, and has no gap.
GoesOn(t, c, i, n) ==
  /\ t \in Seq(Normalized(c)) /\ Grown(normalized[c], t)
  /\ Len(t) = Len(normalized[c]) + n
  /\ \A p \in 1..n : t[Len(normalized[c]) + p].line = <<c, i, Nth(Places(c, i), p)>>
  /\ Happened({"skip"}) = {} => NoGaps(t, c)

\* The first n valid lines of the block that follows the handled ones leave no gap.
LEMMA BlockAppended ==
  ASSUME StreamInv, NEW c \in Clients, NEW i \in DOMAIN Raw[c], i = parsed[c] + 1,
         NEW n \in 1..Cardinality(Places(c, i)),
         NEW t, t = normalized[c] \o SubSeq(C2!Valid(c, i), 1, n)
  PROVE  GoesOn(t, c, i, n)
<1> DEFINE s == normalized[c]
           v == C2!Valid(c, i)
           P == Places(c, i)
<1>1. s \in Seq(Normalized(c)) /\ Len(s) \in Nat /\ DOMAIN s = 1..Len(s) /\ parsed[c] \in Nat
  BY LenProperties DEF StreamInv, StreamTypes
<1>2. /\ v \in Seq(Normalized(c)) /\ Len(v) = Cardinality(P) /\ Cardinality(P) \in Nat
      /\ IsFiniteSet(P) /\ P \subseteq Int
      /\ \A p \in 1..Cardinality(P) : v[p].line = <<c, i, Nth(P, p)>>
  BY ValidFacts
<1> HIDE DEF s, v, P
<1>3. /\ SubSeq(v, 1, n) \in Seq(Normalized(c)) /\ Len(SubSeq(v, 1, n)) = n
      /\ \A p \in 1..n : SubSeq(v, 1, n)[p] = v[p]
  <2>1. n \in Int /\ 1 <= n /\ n <= Len(v)
    BY <1>2 DEF P
  <2>2. \A p \in 1..n : v[p] \in Normalized(c)
    BY <1>2, <2>1, ElementOfSeq
  <2> QED BY <2>1, <2>2, SubSeqProperties
<1>4. /\ t \in Seq(Normalized(c)) /\ Len(t) = Len(s) + n
      /\ \A m \in 1..(Len(s) + n) :
           t[m] = IF m <= Len(s) THEN s[m] ELSE SubSeq(v, 1, n)[m - Len(s)]
  BY <1>1, <1>3, ConcatProperties DEF s, v
<1>5. n \in Nat /\ n <= Cardinality(P)
  BY <1>2 DEF P
<1>6. Grown(s, t)
  BY <1>1, <1>4, <1>5 DEF Grown
<1>7. \A p \in 1..n : t[Len(s) + p].line = <<c, i, Nth(P, p)>>
  <2> TAKE p \in 1..n
  <2>1. /\ Len(s) + p \in 1..(Len(s) + n) /\ ~(Len(s) + p <= Len(s)) /\ (Len(s) + p) - Len(s) = p
        /\ p \in 1..Cardinality(P)
    BY <1>1, <1>2, <1>5, SMTT(30)
  <2>2. t[Len(s) + p] = v[p]
    BY <1>3, <1>4, <2>1
  <2> QED BY <1>2, <2>1, <2>2
<1>8. ASSUME Happened({"skip"}) = {}, NEW m \in DOMAIN t, NEW l \in LogLines(c), Before(l, t[m].line)
      PROVE  \E q \in 1..(m - 1) : t[q].line = l
  <2>1. m \in 1..(Len(s) + n) /\ m \in Nat
    BY <1>1, <1>4, <1>5, LenProperties
  <2>2. CASE m <= Len(s)
    <3>1. t[m] = s[m] /\ m \in DOMAIN s
      BY <1>1, <1>4, <2>1, <2>2
    <3>4. NoGapBefore(normalized[c], m, c)
      BY <1>8, <3>1 DEF StreamInv, LinesInOrder, NoGaps, s
    <3>2. PICK q \in 1..(m - 1) : s[q].line = l
      BY <1>8, <3>1, <3>4 DEF NoGapBefore, s
    <3>3. q \in 1..(Len(s) + n) /\ q <= Len(s)
      BY <1>1, <1>5, <2>1, <2>2
    <3> QED BY <1>4, <3>2, <3>3
  <2>3. CASE m > Len(s)
    <3>1. PICK p \in 1..n : m = Len(s) + p
      <4>1. m - Len(s) \in 1..n
        BY <1>1, <1>5, <2>1, <2>3
      <4> QED BY <1>1, <2>1, <4>1
    <3>2. t[m].line = <<c, i, Nth(P, p)>> /\ p \in 1..Cardinality(P) /\ p \in Nat
      <4>1. p \in 1..Cardinality(P) /\ p \in Nat
        BY <1>2, <1>5
      <4> QED BY <1>7, <3>1, <4>1
    <3>0. PICK j \in DOMAIN Raw[c] : l \in {<<c, j, k>> : k \in Places(c, j)}
      BY <1>8 DEF LogLines
    <3>3. PICK k \in Places(c, j) : l = <<c, j, k>>
      BY <3>0
    <3>4. j < i \/ (j = i /\ k < Nth(P, p))
      <4>1. Before(<<c, j, k>>, <<c, i, Nth(P, p)>>)
        BY <1>8, <3>2, <3>3
      <4> QED BY <4>1 DEF Before
    <3>5. CASE j < i
      <4>1. j \in 1..parsed[c] /\ j \in Nat \ {0}
        BY <1>1, <3>5, LogFacts, SMTT(30)
      <4>2. <<"parse", c, j>> \notin dropped
        BY <1>8, <3>3, <4>1 DEF StreamInv, LinesInOrder
      <4>3. PICK q \in DOMAIN s : s[q].line = l
        BY <3>3, <4>1, <4>2 DEF StreamInv, ParsedIsKept, s
      <4>4. q \in 1..(m - 1) /\ q \in 1..(Len(s) + n) /\ q <= Len(s)
        BY <1>1, <1>5, <2>1, <2>3
      <4> QED BY <1>4, <4>3, <4>4
    <3>6. CASE j = i /\ k < Nth(P, p)
      <4>1. k \in P
        BY <3>6 DEF P
      <4>2. Rank(P, k) \in 1..Cardinality(P) /\ Nth(P, Rank(P, k)) = k
        BY <1>2, <4>1, NthFacts
      <4>3. Nth(P, p) \in Int /\ k \in Int
        BY <1>2, <3>2, <4>1, NthFacts
      <4>4. Rank(P, k) < p
        <5>3. \A a, b \in 1..Cardinality(P) : a < b => Nth(P, a) < Nth(P, b)
          BY <1>2, NthFacts
        <5>1. p < Rank(P, k) => Nth(P, p) < k
          BY <3>2, <4>2, <5>3
        <5>2. p # Rank(P, k) /\ ~(p < Rank(P, k))
          BY <3>6, <4>2, <4>3, <5>1
        <5> QED BY <1>2, <3>2, <4>2, <5>2
      <4>5. Rank(P, k) \in 1..n /\ Len(s) + Rank(P, k) \in 1..(m - 1)
        BY <1>1, <1>2, <1>5, <3>1, <3>2, <4>2, <4>4, SMTT(30)
      <4> QED BY <1>7, <3>3, <3>6, <4>2, <4>5
    <3> QED BY <3>4, <3>5, <3>6
  <2>4. m <= Len(s) \/ m > Len(s)
    BY <1>1, <2>1
  <2> QED BY <2>2, <2>3, <2>4
<1>9. Happened({"skip"}) = {} => NoGaps(t, c)
  BY <1>8 DEF NoGaps, NoGapBefore
<1> QED BY <1>4, <1>6, <1>7, <1>9 DEF GoesOn, s, P

\* History only grows: what was dropped stays dropped, and a skip stays recorded.
HistoryGrows ==
  /\ dropped \subseteq dropped'
  /\ faults' \in Seq(Kinds) /\ Len(faults') <= MaxFaults
  /\ Happened({"skip"})' = {} => Happened({"skip"}) = {}

\* A fault is counted, and hides none of those before.
LEMMA FaultGrows ==
  ASSUME StreamInv, NEW kind \in Kinds, Len(faults) < MaxFaults, faults' = Append(faults, kind),
         dropped \subseteq dropped'
  PROVE  HistoryGrows /\ (Happened({"skip"})' = {} => kind # "skip")
<1>1. faults \in Seq(Kinds) /\ Len(faults) \in Nat /\ DOMAIN faults = 1..Len(faults)
  BY LenProperties DEF StreamInv, StreamTypes
<1>2. /\ faults' \in Seq(Kinds) /\ Len(faults') = Len(faults) + 1
      /\ DOMAIN faults' = 1..(Len(faults) + 1)
      /\ \A n \in 1..Len(faults) : faults'[n] = faults[n]
      /\ faults'[Len(faults) + 1] = kind
  BY <1>1, AppendProperties, LenProperties
<1>3. MaxFaults \in Nat
  BY StreamAssumption
<1>4. Happened({"skip"})' = {} => Happened({"skip"}) = {}
  <2> SUFFICES ASSUME NEW n \in Happened({"skip"}) PROVE n \in Happened({"skip"})'
    OBVIOUS
  <2>1. n \in 1..Len(faults) /\ faults[n] = "skip"
    BY <1>1 DEF Happened
  <2>2. n \in 1..(Len(faults) + 1) /\ faults'[n] = "skip"
    BY <1>1, <1>2, <2>1
  <2> QED BY <1>2, <2>2 DEF Happened
<1>5. Happened({"skip"})' = {} => kind # "skip"
  <2> SUFFICES ASSUME kind = "skip" PROVE Len(faults) + 1 \in Happened({"skip"})'
    OBVIOUS
  <2>1. Len(faults) + 1 \in DOMAIN faults'
    BY <1>1, <1>2
  <2> QED BY <1>2, <2>1 DEF Happened
<1> QED BY <1>1, <1>2, <1>3, <1>4, <1>5 DEF HistoryGrows

\* Without a fault the history is as it was.
LEMMA HistoryStays ==
  ASSUME StreamInv, faults' = faults, dropped \subseteq dropped'
  PROVE  HistoryGrows
  BY DEF StreamInv, StreamTypes, TypeOK, HistoryGrows, Happened

\* The lines of the blocks handled before stay where they are.
LEMMA ParsedStaysKept ==
  ASSUME StreamInv, dropped \subseteq dropped', NEW c \in Clients, NEW i \in 1..parsed[c],
         normalized'[c] \in Seq(Normalized(c)), Grown(normalized[c], normalized'[c])
  PROVE  \/ <<"parse", c, i>> \in dropped'
         \/ \A k \in Places(c, i) :
              \E n \in DOMAIN normalized'[c] : normalized'[c][n].line = <<c, i, k>>
<1>1. normalized[c] \in Seq(Normalized(c))
  BY DEF StreamInv, StreamTypes
<1>2. /\ DOMAIN normalized[c] = 1..Len(normalized[c]) /\ Len(normalized[c]) \in Nat
      /\ DOMAIN normalized'[c] = 1..Len(normalized'[c]) /\ Len(normalized'[c]) \in Nat
  BY <1>1, LenProperties
<1>3. \A n \in DOMAIN normalized[c] :
        n \in DOMAIN normalized'[c] /\ normalized'[c][n] = normalized[c][n]
  BY <1>2 DEF Grown
<1>4. \/ <<"parse", c, i>> \in dropped
      \/ \A k \in Places(c, i) : \E n \in DOMAIN normalized[c] : normalized[c][n].line = <<c, i, k>>
  BY DEF StreamInv, ParsedIsKept
<1> QED BY <1>3, <1>4

\* What a step of C2 brings about.
NormalizedGrows ==
  /\ DOMAIN normalized' = Clients
  /\ \A c \in Clients : normalized'[c] \in Seq(Normalized(c)) /\ Grown(normalized[c], normalized'[c])

ParsingDone ==
  /\ HistoryGrows /\ NormalizedGrows
  /\ parsed' \in [Clients -> Nat] /\ parsedOk' \in [Clients -> Nat]
  /\ \A c \in Clients : parsedOk'[c] <= parsed'[c] /\ parsed'[c] <= Len(Raw[c])
  /\ \A c \in Clients : \A i \in 1..parsed'[c] :
       \/ <<"parse", c, i>> \in dropped'
       \/ \A k \in Places(c, i) :
            \E n \in DOMAIN normalized'[c] : normalized'[c][n].line = <<c, i, k>>
  /\ Happened({"skip"})' = {} => \A c \in Clients : NoGaps(normalized'[c], c)
  /\ \A x \in dropped' \ dropped :
       \E c \in Clients : \E i \in DOMAIN Raw[c] :
          /\ x = <<"parse", c, i>>
          /\ Happened({"skip"})' = {} => Places(c, i) = {}

\* When nothing is published, the topic is as complete and as ordered as before.
LEMMA NormalizedStays ==
  ASSUME StreamInv, normalized' = normalized, HistoryGrows
  PROVE  NormalizedGrows /\ (Happened({"skip"})' = {} => \A c \in Clients : NoGaps(normalized'[c], c))
<1>1. \A c \in Clients : Grown(normalized[c], normalized'[c])
  <2> TAKE c \in Clients
  <2>1. Len(normalized[c]) \in Nat
    BY LenProperties DEF StreamInv, StreamTypes
  <2> QED BY <2>1 DEF Grown
<1> QED BY <1>1 DEF StreamInv, StreamTypes, NormalizedGrows, HistoryGrows, LinesInOrder

\* When block i of c is published up to its n-th valid line, too.
LEMMA NormalizedGoesOn ==
  ASSUME StreamInv, HistoryGrows, NEW c \in Clients, NEW i \in DOMAIN Raw[c], i = parsed[c] + 1,
         NEW n \in 1..Cardinality(Places(c, i)),
         normalized' = [normalized EXCEPT ![c] = @ \o SubSeq(C2!Valid(c, i), 1, n)]
  PROVE  /\ NormalizedGrows
         /\ Happened({"skip"})' = {} => \A d \in Clients : NoGaps(normalized'[d], d)
         /\ \A p \in 1..n : \E m \in DOMAIN normalized'[c] :
              normalized'[c][m].line = <<c, i, Nth(Places(c, i), p)>>
<1>1. DOMAIN normalized = Clients /\ \A d \in Clients : normalized[d] \in Seq(Normalized(d))
  BY DEF StreamInv, StreamTypes
<1>2. /\ DOMAIN normalized' = Clients
      /\ normalized'[c] = normalized[c] \o SubSeq(C2!Valid(c, i), 1, n)
      /\ \A d \in Clients \ {c} : normalized'[d] = normalized[d]
  BY <1>1
<1>3. /\ normalized'[c] \in Seq(Normalized(c)) /\ Grown(normalized[c], normalized'[c])
      /\ Len(normalized'[c]) = Len(normalized[c]) + n
      /\ \A p \in 1..n :
           normalized'[c][Len(normalized[c]) + p].line = <<c, i, Nth(Places(c, i), p)>>
      /\ Happened({"skip"}) = {} => NoGaps(normalized'[c], c)
  <2>0. PICK t : t = normalized[c] \o SubSeq(C2!Valid(c, i), 1, n)
    OBVIOUS
  <2>1. GoesOn(t, c, i, n)
    BY <2>0, BlockAppended
  <2>2. normalized'[c] = t
    BY <1>2, <2>0
  <2> QED BY <2>1, <2>2 DEF GoesOn
<1>4. \A d \in Clients \ {c} : Grown(normalized[d], normalized'[d])
  <2> TAKE d \in Clients \ {c}
  <2>1. Len(normalized[d]) \in Nat
    BY <1>1, LenProperties
  <2> QED BY <1>2, <2>1 DEF Grown
<1>5. NormalizedGrows
  <2>1. \A d \in Clients :
          normalized'[d] \in Seq(Normalized(d)) /\ Grown(normalized[d], normalized'[d])
    <3> TAKE d \in Clients
    <3>1. CASE d = c
      BY <1>3, <3>1
    <3>2. CASE d # c
      BY <1>1, <1>2, <1>4, <3>2
    <3> QED BY <3>1, <3>2
  <2> QED BY <1>2, <2>1 DEF NormalizedGrows
<1>6. Happened({"skip"})' = {} => \A d \in Clients : NoGaps(normalized'[d], d)
  <2> SUFFICES ASSUME Happened({"skip"})' = {}, NEW d \in Clients PROVE NoGaps(normalized'[d], d)
    OBVIOUS
  <2>1. Happened({"skip"}) = {}
    BY DEF HistoryGrows
  <2>2. CASE d = c
    BY <1>3, <2>1, <2>2
  <2>3. CASE d # c
    BY <1>2, <2>1, <2>3 DEF StreamInv, LinesInOrder
  <2> QED BY <2>2, <2>3
<1>7. ASSUME NEW p \in 1..n
      PROVE \E m \in DOMAIN normalized'[c] :
              normalized'[c][m].line = <<c, i, Nth(Places(c, i), p)>>
  <2>1. Len(normalized[c]) \in Nat /\ Len(normalized'[c]) \in Nat /\ n \in Int
    BY <1>1, <1>3, LenProperties, ValidFacts
  <2>2. DOMAIN normalized'[c] = 1..Len(normalized'[c])
    BY <1>3, LenProperties
  <2>3. Len(normalized[c]) + p \in DOMAIN normalized'[c]
    BY <1>3, <2>1, <2>2
  <2> QED BY <1>3, <2>3
<1> QED BY <1>5, <1>6, <1>7

\* A record that C2 handles is the next one of its client.
LEMMA NextBlock ==
  ASSUME StreamInv, NEW c \in Clients, parsed[c] < Len(Raw[c])
  PROVE  /\ parsed[c] + 1 \in DOMAIN Raw[c] /\ parsed[c] \in Nat /\ parsedOk[c] \in Nat
         /\ [parsed EXCEPT ![c] = parsed[c] + 1] \in [Clients -> Nat]
         /\ \A d \in Clients : LET after == [parsed EXCEPT ![c] = parsed[c] + 1] IN
              parsedOk[d] <= after[d] /\ after[d] <= Len(Raw[d])
<1>1. Raw[c] \in Seq(Seq(Nat \cup {Malformed, NoTime}))
  BY StreamAssumption
<1>2. DOMAIN Raw[c] = 1..Len(Raw[c]) /\ Len(Raw[c]) \in Nat
  BY <1>1, LenProperties
<1>3. /\ parsed \in [Clients -> Nat] /\ parsedOk \in [Clients -> Nat]
      /\ \A d \in Clients : parsedOk[d] <= parsed[d] /\ parsed[d] <= Len(Raw[d])
  BY DEF StreamInv, StreamTypes, TypeOK
<1>4. parsed[c] + 1 \in DOMAIN Raw[c] /\ parsed[c] \in Nat /\ parsedOk[c] \in Nat
  BY <1>2, <1>3
<1>5. [parsed EXCEPT ![c] = parsed[c] + 1] \in [Clients -> Nat]
  BY <1>3, <1>4
<1>6. ASSUME NEW d \in Clients
      PROVE  LET after == [parsed EXCEPT ![c] = parsed[c] + 1] IN
             parsedOk[d] <= after[d] /\ after[d] <= Len(Raw[d])
  <2>1. CASE d = c
    BY <1>2, <1>3, <1>4, <2>1
  <2>2. CASE d # c
    BY <1>3, <2>2
  <2> QED BY <2>1, <2>2
<1> QED BY <1>4, <1>5, <1>6

\* The handler: skip, dead letter or publish.
LEMMA ParseStep ==
  ASSUME StreamInv, NEW c \in Clients, C2!Parse(c)
  PROVE  ParsingDone
<1> DEFINE i == parsed[c] + 1
<1>1. parsed[c] < Len(Raw[c]) /\ parsed' = [parsed EXCEPT ![c] = i] /\ UNCHANGED parsedOk
  BY DEF C2!Parse, C2!RawPolled
<1>2. /\ i \in DOMAIN Raw[c] /\ parsed[c] \in Nat
      /\ parsed' \in [Clients -> Nat] /\ parsedOk' \in [Clients -> Nat]
      /\ \A d \in Clients : parsedOk'[d] <= parsed'[d] /\ parsed'[d] <= Len(Raw[d])
  BY <1>1, NextBlock DEF StreamInv, StreamTypes
<1>3. ASSUME HistoryGrows, NormalizedGrows,
             Happened({"skip"})' = {} => \A d \in Clients : NoGaps(normalized'[d], d),
             \/ <<"parse", c, i>> \in dropped'
             \/ \A k \in Places(c, i) :
                  \E n \in DOMAIN normalized'[c] : normalized'[c][n].line = <<c, i, k>>,
             \A x \in dropped' \ dropped :
               /\ x = <<"parse", c, i>>
               /\ Happened({"skip"})' = {} => Places(c, i) = {}
      PROVE  ParsingDone
  <2>1. ASSUME NEW d \in Clients, NEW j \in 1..parsed'[d]
        PROVE \/ <<"parse", d, j>> \in dropped'
              \/ \A k \in Places(d, j) :
                   \E n \in DOMAIN normalized'[d] : normalized'[d][n].line = <<d, j, k>>
    <3>1. CASE d = c /\ j = i
      BY <1>3, <3>1
    <3>2. CASE ~(d = c /\ j = i)
      <4>1. j \in 1..parsed[d]
        <5>1. parsed \in [Clients -> Nat]
          BY DEF StreamInv, StreamTypes
        <5> QED BY <1>1, <3>2, <5>1
      <4> QED BY <1>3, <4>1, ParsedStaysKept DEF HistoryGrows, NormalizedGrows
    <3> QED BY <3>1, <3>2
  <2>2. \A x \in dropped' \ dropped :
          \E d \in Clients : \E j \in DOMAIN Raw[d] :
            /\ x = <<"parse", d, j>>
            /\ Happened({"skip"})' = {} => Places(d, j) = {}
    BY <1>2, <1>3
  <2> QED BY <1>2, <1>3, <2>1, <2>2 DEF ParsingDone
<1>4. CASE /\ C2!Fault("skip") /\ C2!Drop("parse", c, i) /\ UNCHANGED normalized
  <2>1. dropped' = dropped \cup {<<"parse", c, i>>}
    BY <1>4 DEF C2!Drop
  <2>2. HistoryGrows /\ Happened({"skip"})' # {}
    BY <1>4, <2>1, FaultGrows DEF C2!Fault, Kinds
  <2>3. NormalizedGrows
    BY <1>4, <2>2, NormalizedStays
  <2> HIDE DEF i
  <2> QED BY <1>3, <2>1, <2>2, <2>3
<1>5. CASE C2!Valid(c, i) = <<>> /\ C2!Drop("parse", c, i) /\ UNCHANGED <<normalized, faults>>
  <2>1. dropped' = dropped \cup {<<"parse", c, i>>}
    BY <1>5 DEF C2!Drop
  <2>2. HistoryGrows
    BY <1>5, <2>1, HistoryStays
  <2>3. NormalizedGrows /\ (Happened({"skip"})' = {} => \A d \in Clients : NoGaps(normalized'[d], d))
    BY <1>5, <2>2, NormalizedStays
  <2>4. Places(c, i) = {}
    <3>1. Cardinality(Places(c, i)) = 0 /\ IsFiniteSet(Places(c, i))
      BY <1>2, <1>5, ValidFacts
    <3> QED BY <3>1, FS_EmptySet
  <2> HIDE DEF i
  <2> QED BY <1>3, <2>1, <2>2, <2>3, <2>4
<1>6. CASE /\ C2!Valid(c, i) # <<>>
           /\ normalized' = [normalized EXCEPT ![c] = @ \o C2!Valid(c, i)]
           /\ UNCHANGED <<dropped, faults>>
  <2> DEFINE v == C2!Valid(c, i)
             P == Places(c, i)
  <2>1. /\ v \in Seq(Normalized(c)) /\ Len(v) = Cardinality(P) /\ Cardinality(P) \in Nat
        /\ IsFiniteSet(P) /\ P \subseteq Int
    BY <1>2, ValidFacts
  <2>2. SubSeq(v, 1, Cardinality(P)) = v /\ Cardinality(P) \in 1..Cardinality(P)
    <3>1. SubSeq(v, 1, Len(v)) = v
      BY <2>1, SubSeqFull
    <3>2. Len(v) \in Nat \ {0}
      BY <1>6, <2>1, EmptySeq
    <3> QED BY <2>1, <3>1, <3>2
  <2>3. HistoryGrows
    BY <1>6, HistoryStays
  <2>4. normalized' = [normalized EXCEPT ![c] = @ \o SubSeq(v, 1, Cardinality(P))]
    BY <1>6, <2>2
  <2>5. /\ NormalizedGrows
        /\ Happened({"skip"})' = {} => \A d \in Clients : NoGaps(normalized'[d], d)
        /\ \A p \in 1..Cardinality(P) : \E m \in DOMAIN normalized'[c] :
             normalized'[c][m].line = <<c, i, Nth(P, p)>>
    BY <1>2, <2>2, <2>3, <2>4, NormalizedGoesOn
  <2>6. \A k \in P : \E m \in DOMAIN normalized'[c] : normalized'[c][m].line = <<c, i, k>>
    <3> TAKE k \in P
    <3>1. Rank(P, k) \in 1..Cardinality(P) /\ Nth(P, Rank(P, k)) = k
      BY <2>1, NthFacts
    <3> HIDE DEF P, i
    <3> QED BY <2>5, <3>1
  <2> HIDE DEF i
  <2> QED BY <1>3, <1>6, <2>3, <2>5, <2>6
<1> QED BY <1>4, <1>5, <1>6 DEF C2!Parse

\* A commit and a restart handle nothing.
LEMMA OffsetsMove ==
  ASSUME StreamInv, HistoryGrows, NormalizedGrows, dropped' = dropped,
         Happened({"skip"})' = {} => \A c \in Clients : NoGaps(normalized'[c], c),
         parsed' \in {parsed, parsedOk}, parsedOk' \in {parsed, parsedOk},
         parsed' = parsedOk => parsedOk' = parsedOk
  PROVE  ParsingDone
<1>1. /\ parsed \in [Clients -> Nat] /\ parsedOk \in [Clients -> Nat]
      /\ \A c \in Clients : parsedOk[c] <= parsed[c] /\ parsed[c] <= Len(Raw[c])
  BY DEF StreamInv, StreamTypes, TypeOK
<1>2. \A c \in Clients : Len(Raw[c]) \in Nat
  <2> TAKE c \in Clients
  <2>1. Raw[c] \in Seq(Seq(Nat \cup {Malformed, NoTime}))
    BY StreamAssumption
  <2> QED BY <2>1, LenProperties
<1>3. /\ parsed' \in [Clients -> Nat] /\ parsedOk' \in [Clients -> Nat]
      /\ \A c \in Clients : /\ parsedOk'[c] <= parsed'[c] /\ parsed'[c] <= Len(Raw[c])
                            /\ parsed'[c] <= parsed[c]
  BY <1>1, <1>2
<1>4. ASSUME NEW c \in Clients, NEW i \in 1..parsed'[c]
      PROVE  \/ <<"parse", c, i>> \in dropped'
             \/ \A k \in Places(c, i) :
                  \E n \in DOMAIN normalized'[c] : normalized'[c][n].line = <<c, i, k>>
  <2>1. i \in 1..parsed[c]
    BY <1>1, <1>3
  <2> QED BY <2>1, ParsedStaysKept DEF HistoryGrows, NormalizedGrows
<1> QED BY <1>3, <1>4 DEF ParsingDone

\* A commit of C2 handles nothing.
LEMMA ParseCommitStep == StreamInv /\ C2!ParseCommit => ParsingDone
<1> SUFFICES ASSUME StreamInv, C2!ParseCommit PROVE ParsingDone
  OBVIOUS
<1>1. parsedOk' = parsed /\ UNCHANGED <<normalized, parsed, dropped, faults>>
  BY DEF C2!ParseCommit
<1>2. HistoryGrows
  BY <1>1, HistoryStays
<1> QED BY <1>1, <1>2, NormalizedStays, OffsetsMove

\* A restart of C2, between two blocks or in the middle of one.
LEMMA ParseRestartStep == StreamInv /\ C2!ParseRestart => ParsingDone
<1> SUFFICES ASSUME StreamInv, C2!ParseRestart PROVE ParsingDone
  OBVIOUS
<1>1. C2!Fault("parse") /\ parsed' = parsedOk /\ parsedOk' = parsedOk /\ dropped' = dropped
  BY DEF C2!ParseRestart
<1>2. HistoryGrows
  BY <1>1, FaultGrows DEF C2!Fault, Kinds
<1>3. CASE UNCHANGED normalized
  BY <1>1, <1>2, <1>3, NormalizedStays, OffsetsMove
<1>4. CASE \E c \in Clients :
             /\ C2!RawPolled(c)
             /\ LET v == C2!Valid(c, parsed[c] + 1) IN
                \E n \in 1..(Len(v) - 1) :
                  normalized' = [normalized EXCEPT ![c] = @ \o SubSeq(v, 1, n)]
  <2>1. PICK c \in Clients :
          /\ C2!RawPolled(c)
          /\ LET v == C2!Valid(c, parsed[c] + 1) IN
             \E n \in 1..(Len(v) - 1) :
               normalized' = [normalized EXCEPT ![c] = @ \o SubSeq(v, 1, n)]
    BY <1>4
  <2>2. PICK i : i = parsed[c] + 1
    OBVIOUS
  <2>3. PICK n \in 1..(Len(C2!Valid(c, i)) - 1) :
          normalized' = [normalized EXCEPT ![c] = @ \o SubSeq(C2!Valid(c, i), 1, n)]
    BY <2>1, <2>2
  <2>4. i \in DOMAIN Raw[c]
    BY <2>1, <2>2, NextBlock DEF C2!RawPolled
  <2>5. n \in 1..Cardinality(Places(c, i))
    BY <2>3, <2>4, ValidFacts
  <2>6. NormalizedGrows /\ (Happened({"skip"})' = {} => \A d \in Clients : NoGaps(normalized'[d], d))
    BY <1>2, <2>2, <2>3, <2>4, <2>5, NormalizedGoesOn
  <2> QED BY <1>1, <1>2, <2>6, OffsetsMove
<1> QED BY <1>3, <1>4 DEF C2!ParseRestart

\* Every step of C2.
LEMMA C2Step == StreamInv /\ ParsingStep => ParsingDone
  BY ParseStep, ParseCommitStep, ParseRestartStep DEF ParsingStep, C2!Next

\* When nothing is copied, the copies are as complete and as ordered as before.
LEMMA CopiesStay ==
  ASSUME StreamInv, dropped \subseteq dropped', byDomain' = byDomain,
         \A c \in Clients : \A i \in 1..pos'[c] :
           i \in 1..pos[c] \/ <<"detector", c, i>> \in dropped',
         \A c \in Clients : DOMAIN enriched[c] \subseteq DOMAIN enriched'[c]
  PROVE  CopiedIsKept' /\ CopiesInOrder'
<1>1. CopiedIsKept'
  <2> SUFFICES ASSUME NEW c \in Clients, NEW i \in 1..pos'[c]
               PROVE  \/ <<"detector", c, i>> \in dropped'
                      \/ \E n \in DOMAIN byDomain[DomainOf[c]] : byDomain[DomainOf[c]][n] = <<c, i>>
    BY DEF CopiedIsKept
  <2> QED BY DEF StreamInv, CopiedIsKept
<1>2. CopiesInOrder'
  <2> SUFFICES ASSUME NEW d \in Domains, NEW m \in DOMAIN byDomain[d]
               PROVE  CopyInOrder(d, m)'
    BY DEF CopiesInOrder
  <2>1. CopyInOrder(d, m)
    BY DEF StreamInv, CopiesInOrder
  <2> QED BY <2>1 DEF CopyInOrder
<1> QED BY <1>1, <1>2

\* The other stages see a topic that grows at its end.
LEMMA ParsingKeeps == StreamInv /\ ParsingStep => StreamInv'
<1> SUFFICES ASSUME StreamInv, ParsingStep PROVE StreamInv'
  OBVIOUS
<1>1. UNCHANGED <<clock, enriched, byDomain, enrichment, detection>>
  BY DEF ParsingStep
<1>2. ParsingDone
  BY C2Step
<1>3. \A c \in Clients :
        /\ Len(normalized[c]) \in Nat /\ Len(normalized'[c]) \in Nat
        /\ Len(normalized[c]) <= Len(normalized'[c])
        /\ \A n \in 1..Len(normalized[c]) : normalized'[c][n] = normalized[c][n]
  <2> TAKE c \in Clients
  <2>1. normalized[c] \in Seq(Normalized(c)) /\ normalized'[c] \in Seq(Normalized(c))
    BY <1>2 DEF ParsingDone, NormalizedGrows, StreamInv, StreamTypes
  <2> QED BY <1>2, <2>1, LenProperties DEF ParsingDone, NormalizedGrows, Grown
<1>4. StreamTypes'
  BY <1>1, <1>2 DEF StreamInv, StreamTypes, ParsingDone, NormalizedGrows, HistoryGrows,
                    enrichment, detection
<1>5. TypeOK'
  <2>1. \A c \in Clients : enrichOk[c] <= enrich[c] /\ enrich[c] <= Len(normalized'[c])
    <3>1. \A c \in Clients : enrich[c] \in Nat /\ enrichOk[c] <= enrich[c]
                             /\ enrich[c] <= Len(normalized[c])
      BY DEF StreamInv, StreamTypes, TypeOK
    <3> QED BY <1>3, <3>1
  <2>2. \A c \in Clients : parsedOk'[c] <= parsed'[c] /\ parsed'[c] <= Len(Raw[c])
    BY <1>2 DEF ParsingDone
  <2>3. (\A p \in Clients \cup Domains : posOk[p] <= pos[p] /\ pos[p] <= Len(Detector!Input(p)))'
    BY <1>1 DEF StreamInv, TypeOK, detection, Detector!Input
  <2> QED BY <1>1, <1>2, <2>1, <2>2, <2>3
          DEF StreamInv, TypeOK, ParsingDone, HistoryGrows, enrichment, detection
<1>6. ParsedIsKept'
  BY <1>2 DEF ParsedIsKept, ParsingDone, Places
<1>7. EnrichedIsKept'
  <2>1. ASSUME NEW c \in Clients, NEW i \in 1..enrich[c]
        PROVE  \/ <<"enrich", c, i>> \in dropped'
               \/ \E n \in DOMAIN enriched[c] : enriched[c][n].line = normalized'[c][i].line
    <3>1. i \in 1..Len(normalized[c])
      <4>1. enrich[c] \in Nat /\ enrich[c] <= Len(normalized[c])
        BY DEF StreamInv, StreamTypes, TypeOK
      <4> QED BY <1>3, <4>1
    <3>2. normalized'[c][i] = normalized[c][i]
      BY <1>3, <3>1
    <3>3. \/ <<"enrich", c, i>> \in dropped
          \/ \E n \in DOMAIN enriched[c] : enriched[c][n].line = normalized[c][i].line
      BY DEF StreamInv, EnrichedIsKept
    <3>4. dropped \subseteq dropped'
      BY <1>2 DEF ParsingDone, HistoryGrows
    <3> QED BY <3>2, <3>3, <3>4
  <2> QED BY <1>1, <2>1 DEF EnrichedIsKept, enrichment
<1>8. CopiedIsKept' /\ CopiesInOrder'
  BY <1>1, <1>2, CopiesStay DEF ParsingDone, HistoryGrows, detection
<1>9. LinesInOrder'
  <2> SUFFICES ASSUME Happened({"skip"})' = {}
               PROVE  /\ \A c \in Clients, i \in Nat \ {0} :
                           /\ <<"parse", c, i>> \in dropped' => i \in DOMAIN Raw[c] /\ Places(c, i) = {}
                           /\ <<"enrich", c, i>> \notin dropped'
                      /\ \A c \in Clients : NoGaps(normalized'[c], c) /\ NoGaps(enriched[c], c)
    BY <1>1 DEF LinesInOrder, NoGaps, NoGapBefore, LogLines, Places
  <2>1. Happened({"skip"}) = {}
    BY <1>2 DEF ParsingDone, HistoryGrows
  <2>2. \A c \in Clients : NoGaps(normalized'[c], c) /\ NoGaps(enriched[c], c)
    BY <1>2, <2>1 DEF ParsingDone, StreamInv, LinesInOrder
  <2>3. ASSUME NEW c \in Clients, NEW i \in Nat \ {0}
        PROVE  /\ <<"parse", c, i>> \in dropped' => i \in DOMAIN Raw[c] /\ Places(c, i) = {}
               /\ <<"enrich", c, i>> \notin dropped'
    <3>1. \A x \in dropped' \ dropped :
            \E d \in Clients : \E j \in DOMAIN Raw[d] : x = <<"parse", d, j>> /\ Places(d, j) = {}
      BY <1>2 DEF ParsingDone
    <3>2. /\ <<"parse", c, i>> \in dropped => i \in DOMAIN Raw[c] /\ Places(c, i) = {}
          /\ <<"enrich", c, i>> \notin dropped
      BY <2>1 DEF StreamInv, LinesInOrder
    <3>3. <<"parse", c, i>> \in dropped' \ dropped => i \in DOMAIN Raw[c] /\ Places(c, i) = {}
      BY <3>1
    <3>4. <<"enrich", c, i>> \notin dropped' \ dropped
      BY <3>1
    <3> QED BY <3>2, <3>3, <3>4
  <2> QED BY <2>2, <2>3
<1> QED BY <1>4, <1>5, <1>6, <1>7, <1>8, <1>9 DEF StreamInv

-----------------------------------------------------------------------------
(* C3.                                                                     *)

SmallCounters == {h \in Counters : Len(h.times) <= MaxPerClient}

\* No counter of C3 is longer than its bound.
LEMMA HitsAreSmall == StreamInv => hits \in Seq(SmallCounters) /\ Len(hits) <= MaxTracked
<1> SUFFICES ASSUME StreamInv PROVE hits \in Seq(SmallCounters) /\ Len(hits) <= MaxTracked
  OBVIOUS
<1>1. /\ hits \in Seq(Counters) /\ Len(hits) <= MaxTracked
      /\ \A n \in DOMAIN hits : Len(hits[n].times) <= MaxPerClient
  BY DEF StreamInv, StreamTypes, TypeOK
<1>2. DOMAIN hits = 1..Len(hits) /\ Len(hits) \in Nat /\ hits \in [1..Len(hits) -> Counters]
  BY <1>1, LenProperties
<1>3. \A n \in 1..Len(hits) : hits[n] \in SmallCounters
  BY <1>1, <1>2 DEF SmallCounters
<1>4. hits \in [1..Len(hits) -> SmallCounters]
  BY <1>2, <1>3
<1> QED BY <1>1, <1>2, <1>4

\* The times counted for c, after the record in hand: at the instants of the clock, and no
\* more than the cap.
LEMMA CountedFacts ==
  ASSUME StreamInv, NEW c \in Clients, NEW times, times = Append(C3!Times(c), clock)
  PROVE  /\ C3!Capped(C3!Trimmed(times)) \in Seq(Instants)
         /\ Len(C3!Capped(C3!Trimmed(times))) <= MaxPerClient
<1>1. C3!Times(c) \in Seq(Instants)
  <2>1. CASE C3!Counter(c) = {}
    BY <2>1, EmptySeq DEF C3!Times
  <2>2. CASE C3!Counter(c) # {}
    <3>1. PICK i \in DOMAIN hits : C3!Times(c) = hits[i].times
      BY <2>2 DEF C3!Times, C3!Counter
    <3>2. hits[i] \in Counters
      <4>1. hits \in Seq(Counters)
        BY DEF StreamInv, StreamTypes
      <4> QED BY <4>1, LenProperties, ElementOfSeq
    <3> QED BY <3>1, <3>2 DEF Counters
  <2> QED BY <2>1, <2>2
<1>2. times \in Seq(Instants)
  <2>1. clock \in Instants
    BY DEF StreamInv, TypeOK
  <2> QED BY <1>1, <2>1, AppendProperties
<1>3. PICK kept : kept = C3!Trimmed(times)
  OBVIOUS
<1>4. kept \in Seq(Instants)
  <2>1. kept = At(times, {n \in DOMAIN times : times[n] >= clock - RateWindow})
    BY <1>3, SameAt DEF C3!Trimmed
  <2>2. {n \in DOMAIN times : times[n] >= clock - RateWindow} \in SUBSET DOMAIN times
    OBVIOUS
  <2> QED BY <1>2, <2>1, <2>2, AtFacts
<1>5. MaxPerClient \in Nat /\ Len(kept) \in Nat /\ DOMAIN kept = 1..Len(kept)
  BY <1>4, StreamAssumption, LenProperties
<1>6. CASE Len(kept) <= MaxPerClient
  BY <1>3, <1>4, <1>6 DEF C3!Capped
<1>7. CASE Len(kept) > MaxPerClient
  <2>1. PICK first \in Int : first = Len(kept) - MaxPerClient + 1
    BY <1>5
  <2>2. C3!Capped(kept) = SubSeq(kept, first, Len(kept))
    BY <1>5, <1>7, <2>1 DEF C3!Capped
  <2>3. \A n \in first..Len(kept) : kept[n] \in Instants
    BY <1>4, <1>5, <1>7, <2>1, ElementOfSeq
  <2>4. /\ SubSeq(kept, first, Len(kept)) \in Seq(Instants)
        /\ Len(SubSeq(kept, first, Len(kept)))
             = IF first <= Len(kept) THEN Len(kept) - first + 1 ELSE 0
    BY <1>5, <2>1, <2>3, SubSeqProperties
  <2> QED BY <1>3, <1>5, <2>1, <2>2, <2>4
<1> QED BY <1>5, <1>6, <1>7

\* The counters after the record in hand: within both bounds, that of c the last one.
LEMMA RecordedFacts ==
  ASSUME StreamInv, NEW c \in Clients
  PROVE  /\ C3!Recorded(c) \in Seq(SmallCounters)
         /\ Len(C3!Recorded(c)) \in 1..MaxTracked
         /\ C3!Rate(c) \in Nat
<1>1. PICK times : times = Append(C3!Times(c), clock)
  OBVIOUS
<1>2. PICK hit : hit = [client |-> c, times |-> C3!Capped(C3!Trimmed(times))]
  OBVIOUS
<1>3. hit \in SmallCounters
  BY <1>1, <1>2, CountedFacts DEF SmallCounters, Counters
<1>4. PICK others : others = At(hits, DOMAIN hits \ C3!Counter(c))
  OBVIOUS
<1>5. /\ others \in Seq(SmallCounters) /\ Len(others) \in Nat /\ Len(others) <= MaxTracked
      /\ MaxTracked \in Nat \ {0}
  <2>1. hits \in Seq(SmallCounters) /\ Len(hits) <= MaxTracked /\ Len(hits) \in Nat
    BY HitsAreSmall, LenProperties
  <2>2. DOMAIN hits \ C3!Counter(c) \in SUBSET DOMAIN hits
    OBVIOUS
  <2>3. others \in Seq(SmallCounters) /\ Len(others) \in Nat /\ Len(others) <= Len(hits)
    BY <1>4, <2>1, <2>2, AtFacts
  <2> QED BY <2>1, <2>3, StreamAssumption
<1>6. PICK all : all = Append(others, hit)
  OBVIOUS
<1>7. all \in Seq(SmallCounters) /\ Len(all) = Len(others) + 1 /\ all # <<>>
  BY <1>3, <1>5, <1>6, AppendProperties
<1>8. C3!Recorded(c) = IF Len(all) > MaxTracked THEN Tail(all) ELSE all
  BY <1>1, <1>2, <1>4, <1>6, SameAt DEF C3!Recorded
<1>9. Tail(all) \in Seq(SmallCounters) /\ Len(Tail(all)) = Len(all) - 1
  BY <1>7, HeadTailProperties
<1>10. C3!Recorded(c) \in Seq(SmallCounters) /\ Len(C3!Recorded(c)) \in 1..MaxTracked
  BY <1>5, <1>7, <1>8, <1>9
<1>11. C3!Rate(c) \in Nat
  <2>1. PICK last : last = C3!Recorded(c)[Len(C3!Recorded(c))]
    OBVIOUS
  <2>2. Len(C3!Recorded(c)) \in 1..Len(C3!Recorded(c))
    BY <1>5, <1>10
  <2>3. last \in SmallCounters
    BY <1>10, <2>1, <2>2, ElementOfSeq
  <2>4. last.times \in Seq(Instants)
    BY <2>3 DEF SmallCounters, Counters
  <2> QED BY <2>1, <2>4, LenProperties DEF C3!Rate
<1> QED BY <1>10, <1>11

\* What a step of C3 brings about.
EnrichedGrows ==
  /\ DOMAIN enriched' = Clients
  /\ \A c \in Clients : enriched'[c] \in Seq(EnrichedLines(c)) /\ Grown(enriched[c], enriched'[c])

EnrichmentDone ==
  /\ HistoryGrows /\ EnrichedGrows
  /\ enrich' \in [Clients -> Nat] /\ enrichOk' \in [Clients -> Nat]
  /\ \A c \in Clients : enrichOk'[c] <= enrich'[c] /\ enrich'[c] <= Len(normalized[c])
  /\ hits' \in Seq(SmallCounters) /\ Len(hits') <= MaxTracked
  /\ \A c \in Clients : \A i \in 1..enrich'[c] :
       \/ <<"enrich", c, i>> \in dropped'
       \/ \E n \in DOMAIN enriched'[c] : enriched'[c][n].line = normalized[c][i].line
  /\ Happened({"skip"})' = {} => \A c \in Clients : NoGaps(enriched'[c], c)
  /\ dropped' = dropped \/ Happened({"skip"})' # {}
  /\ \A x \in dropped' \ dropped : x[1] = "enrich"

\* The records handled before stay where they are.
LEMMA EnrichedStaysKept ==
  ASSUME StreamInv, dropped \subseteq dropped', EnrichedGrows,
         NEW c \in Clients, NEW i \in 1..enrich[c]
  PROVE  \/ <<"enrich", c, i>> \in dropped'
         \/ \E n \in DOMAIN enriched'[c] : enriched'[c][n].line = normalized[c][i].line
<1>1. enriched[c] \in Seq(EnrichedLines(c)) /\ enriched'[c] \in Seq(EnrichedLines(c))
  BY DEF StreamInv, StreamTypes, EnrichedGrows
<1>2. /\ DOMAIN enriched[c] = 1..Len(enriched[c]) /\ Len(enriched[c]) \in Nat
      /\ DOMAIN enriched'[c] = 1..Len(enriched'[c]) /\ Len(enriched'[c]) \in Nat
  BY <1>1, LenProperties
<1>3. \A n \in DOMAIN enriched[c] : n \in DOMAIN enriched'[c] /\ enriched'[c][n] = enriched[c][n]
  BY <1>2 DEF EnrichedGrows, Grown
<1> QED BY <1>3 DEF StreamInv, EnrichedIsKept

\* When nothing is published, log.enriched is as complete and as ordered as before.
LEMMA EnrichedStays ==
  ASSUME StreamInv, enriched' = enriched, HistoryGrows
  PROVE  EnrichedGrows /\ (Happened({"skip"})' = {} => \A c \in Clients : NoGaps(enriched'[c], c))
<1>1. \A c \in Clients : Grown(enriched[c], enriched'[c])
  <2> TAKE c \in Clients
  <2>1. Len(enriched[c]) \in Nat
    BY LenProperties DEF StreamInv, StreamTypes
  <2> QED BY <2>1 DEF Grown
<1> QED BY <1>1 DEF StreamInv, StreamTypes, EnrichedGrows, HistoryGrows, LinesInOrder

\* The next record of c, behind those that are in the topic, leaves no gap.
RecordAppended(t, c, e) ==
  /\ t \in Seq(EnrichedLines(c)) /\ Grown(enriched[c], t)
  /\ \E n \in DOMAIN t : t[n].line = e.line
  /\ Happened({"skip"}) = {} => NoGaps(t, c)

\* The record that follows the handled ones leaves no gap in log.enriched.
LEMMA NextRecordAppended ==
  ASSUME StreamInv, NEW c \in Clients, NEW i \in 1..Len(normalized[c]), i = enrich[c] + 1,
         NEW e \in EnrichedLines(c), e.line = normalized[c][i].line,
         NEW t, t = Append(enriched[c], e)
  PROVE  RecordAppended(t, c, e)
<1> DEFINE s == enriched[c]
<1>1. s \in Seq(EnrichedLines(c)) /\ Len(s) \in Nat /\ DOMAIN s = 1..Len(s)
  BY LenProperties DEF StreamInv, StreamTypes
<1>2. normalized[c] \in Seq(Normalized(c)) /\ Len(normalized[c]) \in Nat
      /\ DOMAIN normalized[c] = 1..Len(normalized[c]) /\ enrich[c] \in Nat
  BY LenProperties DEF StreamInv, StreamTypes
<1> HIDE DEF s
<1>3. /\ t \in Seq(EnrichedLines(c)) /\ Len(t) = Len(s) + 1 /\ DOMAIN t = 1..(Len(s) + 1)
      /\ \A n \in 1..Len(s) : t[n] = s[n]
      /\ t[Len(s) + 1] = e
  BY <1>1, AppendProperties, LenProperties DEF s
<1>4. Grown(s, t)
  BY <1>1, <1>3 DEF Grown
<1>5. ASSUME Happened({"skip"}) = {}, NEW m \in DOMAIN t, NEW l \in LogLines(c), Before(l, t[m].line)
      PROVE  \E q \in 1..(m - 1) : t[q].line = l
  <2>1. CASE m \in 1..Len(s)
    <3>1. PICK q \in 1..(m - 1) : s[q].line = l
      BY <1>1, <1>3, <1>5, <2>1 DEF StreamInv, LinesInOrder, NoGaps, NoGapBefore, s
    <3>2. q \in 1..Len(s)
      BY <1>1, <2>1
    <3> QED BY <1>3, <3>1, <3>2
  <2>2. CASE m = Len(s) + 1
    <3>1. Before(l, normalized[c][i].line)
      BY <1>3, <1>5, <2>2
    <3>2. PICK j \in 1..(i - 1) : normalized[c][j].line = l
      <4>1. NoGaps(normalized[c], c)
        BY <1>5 DEF StreamInv, LinesInOrder
      <4>2. NoGapBefore(normalized[c], i, c)
        BY <1>2, <4>1 DEF NoGaps
      <4> QED BY <1>5, <3>1, <4>2 DEF NoGapBefore
    <3>3. j \in 1..enrich[c] /\ j \in Nat \ {0}
      BY <1>2
    <3>4. <<"enrich", c, j>> \notin dropped
      BY <1>5, <3>3 DEF StreamInv, LinesInOrder
    <3>5. PICK n \in DOMAIN s : s[n].line = l
      BY <3>2, <3>3, <3>4 DEF StreamInv, EnrichedIsKept, s
    <3>6. n \in 1..(m - 1) /\ n \in 1..Len(s)
      BY <1>1, <2>2
    <3> QED BY <1>3, <3>5, <3>6
  <2> QED BY <1>1, <1>3, <2>1, <2>2
<1>6. \E n \in DOMAIN t : t[n].line = e.line
  BY <1>1, <1>3
<1> QED BY <1>3, <1>4, <1>5, <1>6 DEF RecordAppended, NoGaps, NoGapBefore, s

\* The handler: skip, or count and publish.
LEMMA EnrichStep ==
  ASSUME StreamInv, NEW c \in Clients, C3!Enrich(c)
  PROVE  EnrichmentDone
<1> DEFINE i == enrich[c] + 1
<1>1. /\ enrich[c] < Len(normalized[c]) /\ enrich' = [enrich EXCEPT ![c] = i]
      /\ UNCHANGED <<clock, normalized, enrichOk>>
  BY DEF C3!Enrich, C3!NormalizedPolled
<1>2. /\ enrich \in [Clients -> Nat] /\ enrichOk \in [Clients -> Nat]
      /\ \A d \in Clients : enrichOk[d] <= enrich[d] /\ enrich[d] <= Len(normalized[d])
      /\ \A d \in Clients : normalized[d] \in Seq(Normalized(d)) /\ Len(normalized[d]) \in Nat
  BY LenProperties DEF StreamInv, StreamTypes, TypeOK
<1>3. /\ i \in 1..Len(normalized[c])
      /\ enrich' \in [Clients -> Nat] /\ enrichOk' \in [Clients -> Nat]
      /\ \A d \in Clients : enrichOk'[d] <= enrich'[d] /\ enrich'[d] <= Len(normalized[d])
  <2>1. i \in 1..Len(normalized[c]) /\ enrich' \in [Clients -> Nat] /\ enrichOk' \in [Clients -> Nat]
    BY <1>1, <1>2
  <2>2. ASSUME NEW d \in Clients
        PROVE  enrichOk'[d] <= enrich'[d] /\ enrich'[d] <= Len(normalized[d])
    <3>1. CASE d = c
      BY <1>1, <1>2, <3>1
    <3>2. CASE d # c
      BY <1>1, <1>2, <3>2
    <3> QED BY <3>1, <3>2
  <2> QED BY <2>1, <2>2
<1>4. hits \in Seq(SmallCounters) /\ Len(hits) <= MaxTracked
  BY HitsAreSmall
<1>5. ASSUME HistoryGrows, EnrichedGrows,
             Happened({"skip"})' = {} => \A d \in Clients : NoGaps(enriched'[d], d),
             hits' \in Seq(SmallCounters) /\ Len(hits') <= MaxTracked,
             \/ <<"enrich", c, i>> \in dropped'
             \/ \E n \in DOMAIN enriched'[c] : enriched'[c][n].line = normalized[c][i].line,
             \/ dropped' = dropped
             \/ dropped' = dropped \cup {<<"enrich", c, i>>} /\ Happened({"skip"})' # {}
      PROVE  EnrichmentDone
  <2>1. ASSUME NEW d \in Clients, NEW j \in 1..enrich'[d]
        PROVE \/ <<"enrich", d, j>> \in dropped'
              \/ \E n \in DOMAIN enriched'[d] : enriched'[d][n].line = normalized[d][j].line
    <3>1. CASE d = c /\ j = i
      BY <1>5, <3>1
    <3>2. CASE ~(d = c /\ j = i)
      <4>1. j \in 1..enrich[d]
        BY <1>1, <1>2, <3>2
      <4> QED BY <1>5, <4>1, EnrichedStaysKept DEF HistoryGrows
    <3> QED BY <3>1, <3>2
  <2>2. \A x \in dropped' \ dropped : x[1] = "enrich"
    BY <1>5
  <2>3. dropped' = dropped \/ Happened({"skip"})' # {}
    BY <1>5
  <2> QED BY <1>3, <1>5, <2>1, <2>2, <2>3 DEF EnrichmentDone
<1>6. CASE /\ C3!Fault("skip") /\ dropped' = dropped \cup {<<"enrich", c, i>>}
           /\ UNCHANGED <<enriched, hits, since>>
  <2>1. HistoryGrows /\ Happened({"skip"})' # {}
    BY <1>6, FaultGrows DEF C3!Fault, Kinds
  <2>2. EnrichedGrows
    BY <1>6, <2>1, EnrichedStays
  <2>3. hits' = hits /\ <<"enrich", c, i>> \in dropped'
    BY <1>6
  <2> HIDE DEF i
  <2> QED BY <1>4, <1>5, <1>6, <2>1, <2>2, <2>3
<1>7. CASE /\ hits' = C3!Recorded(c)
           /\ enriched' = [enriched EXCEPT
                             ![c] = Append(@, C3!Enriched(normalized[c][i], C3!Rate(c)))]
           /\ UNCHANGED <<dropped, faults>>
  <2>1. PICK e : e = C3!Enriched(normalized[c][i], C3!Rate(c))
    OBVIOUS
  <2>2. e \in EnrichedLines(c) /\ e.line = normalized[c][i].line
    <3>1. normalized[c][i] \in Normalized(c)
      BY <1>2, <1>3, ElementOfSeq
    <3>2. clock \in Instants /\ C3!Rate(c) \in Nat
      BY RecordedFacts DEF StreamInv, TypeOK
    <3> QED BY <2>1, <3>1, <3>2 DEF C3!Enriched, Normalized, EnrichedLines
  <2>3. HistoryGrows
    BY <1>7, HistoryStays
  <2>4. hits' \in Seq(SmallCounters) /\ Len(hits') <= MaxTracked
    <3>1. MaxTracked \in Nat
      BY StreamAssumption
    <3> QED BY <1>7, <3>1, RecordedFacts
  <2>5. PICK t : t = Append(enriched[c], e)
    OBVIOUS
  <2>6. RecordAppended(t, c, e)
    BY <1>3, <2>2, <2>5, NextRecordAppended
  <2>7. /\ DOMAIN enriched = Clients /\ \A d \in Clients : enriched[d] \in Seq(EnrichedLines(d))
        /\ \A d \in Clients : Len(enriched[d]) \in Nat
    BY LenProperties DEF StreamInv, StreamTypes
  <2>8. DOMAIN enriched' = Clients /\ enriched'[c] = t /\ \A d \in Clients \ {c} : enriched'[d] = enriched[d]
    BY <1>7, <2>1, <2>5, <2>7
  <2>9. EnrichedGrows
    <3>1. \A d \in Clients : enriched'[d] \in Seq(EnrichedLines(d)) /\ Grown(enriched[d], enriched'[d])
      <4> TAKE d \in Clients
      <4>1. CASE d = c
        BY <2>6, <2>8, <4>1 DEF RecordAppended
      <4>2. CASE d # c
        BY <2>7, <2>8, <4>2 DEF Grown
      <4> QED BY <4>1, <4>2
    <3> QED BY <2>8, <3>1 DEF EnrichedGrows
  <2>10. Happened({"skip"})' = {} => \A d \in Clients : NoGaps(enriched'[d], d)
    <3> SUFFICES ASSUME Happened({"skip"})' = {}, NEW d \in Clients PROVE NoGaps(enriched'[d], d)
      OBVIOUS
    <3>1. Happened({"skip"}) = {}
      BY <2>3 DEF HistoryGrows
    <3>2. CASE d = c
      BY <2>6, <2>8, <3>1, <3>2 DEF RecordAppended
    <3>3. CASE d # c
      BY <2>8, <3>1, <3>3 DEF StreamInv, LinesInOrder
    <3> QED BY <3>2, <3>3
  <2>11. \E n \in DOMAIN enriched'[c] : enriched'[c][n].line = normalized[c][i].line
    BY <2>2, <2>6, <2>8 DEF RecordAppended
  <2> HIDE DEF i
  <2> QED BY <1>5, <1>7, <2>3, <2>4, <2>9, <2>10, <2>11
<1> QED BY <1>6, <1>7 DEF C3!Enrich

\* A commit and a restart handle nothing.
LEMMA EnrichOffsetsMove ==
  ASSUME StreamInv, HistoryGrows, UNCHANGED <<normalized, enriched, dropped>>,
         hits' \in {hits, <<>>},
         enrich' \in {enrich, enrichOk}, enrichOk' \in {enrich, enrichOk},
         enrich' = enrichOk => enrichOk' = enrichOk
  PROVE  EnrichmentDone
<1>1. /\ enrich \in [Clients -> Nat] /\ enrichOk \in [Clients -> Nat]
      /\ \A c \in Clients : enrichOk[c] <= enrich[c] /\ enrich[c] <= Len(normalized[c])
      /\ \A c \in Clients : Len(normalized[c]) \in Nat
  BY LenProperties DEF StreamInv, StreamTypes, TypeOK
<1>2. /\ enrich' \in [Clients -> Nat] /\ enrichOk' \in [Clients -> Nat]
      /\ \A c \in Clients : /\ enrichOk'[c] <= enrich'[c] /\ enrich'[c] <= Len(normalized[c])
                            /\ enrich'[c] <= enrich[c]
  BY <1>1
<1>3. EnrichedGrows /\ (Happened({"skip"})' = {} => \A c \in Clients : NoGaps(enriched'[c], c))
  BY EnrichedStays
<1>4. ASSUME NEW c \in Clients, NEW i \in 1..enrich'[c]
      PROVE  \/ <<"enrich", c, i>> \in dropped'
             \/ \E n \in DOMAIN enriched'[c] : enriched'[c][n].line = normalized[c][i].line
  <2>1. i \in 1..enrich[c]
    BY <1>1, <1>2
  <2> QED BY <1>3, <2>1, EnrichedStaysKept
<1>5. hits' \in Seq(SmallCounters) /\ Len(hits') <= MaxTracked
  <2>1. MaxTracked \in Nat /\ <<>> \in Seq(SmallCounters) /\ Len(<<>>) = 0
    BY StreamAssumption, EmptySeq
  <2>2. CASE hits' = hits
    BY <2>2, HitsAreSmall
  <2>3. CASE hits' = <<>>
    BY <2>1, <2>3
  <2> QED BY <2>2, <2>3
<1>6. dropped' \ dropped = {} /\ dropped' = dropped
  OBVIOUS
<1> QED BY <1>2, <1>3, <1>4, <1>5, <1>6 DEF EnrichmentDone

\* Every step of C3.
LEMMA C3Step == StreamInv /\ EnrichmentStep => EnrichmentDone
<1> SUFFICES ASSUME StreamInv, EnrichmentStep PROVE EnrichmentDone
  OBVIOUS
<1>1. ASSUME NEW c \in Clients, C3!Enrich(c) PROVE EnrichmentDone
  BY <1>1, EnrichStep
<1>2. CASE C3!EnrichCommit
  <2>1. enrichOk' = enrich /\ UNCHANGED <<normalized, enriched, enrich, hits, dropped, faults>>
    BY <1>2 DEF C3!EnrichCommit
  <2>2. HistoryGrows
    BY <2>1, HistoryStays
  <2> QED BY <2>1, <2>2, EnrichOffsetsMove
<1>3. CASE C3!EnrichRestart
  <2>1. /\ C3!Fault("enrich") /\ enrich' = enrichOk /\ hits' = <<>>
        /\ UNCHANGED <<normalized, enriched, enrichOk, dropped>>
    BY <1>3 DEF C3!EnrichRestart
  <2>2. HistoryGrows
    BY <2>1, FaultGrows DEF C3!Fault, Kinds
  <2> QED BY <2>1, <2>2, EnrichOffsetsMove
<1> QED BY <1>1, <1>2, <1>3 DEF EnrichmentStep, C3!Next

\* The records of log.enriched are read as many as there are.
LEMMA InputLength ==
  ASSUME NEW topic, NEW c \in Clients, topic \in Seq(EnrichedLines(c))
  PROVE  Len([n \in DOMAIN topic |-> <<c, n>>]) = Len(topic) /\ Len(topic) \in Nat
<1>1. DOMAIN topic = 1..Len(topic) /\ Len(topic) \in Nat
  BY LenProperties
<1> QED BY <1>1

\* The other stages see a topic that grows at its end.
LEMMA EnrichmentKeeps == StreamInv /\ EnrichmentStep => StreamInv'
<1> SUFFICES ASSUME StreamInv, EnrichmentStep PROVE StreamInv'
  OBVIOUS
<1>1. UNCHANGED <<clock, normalized, byDomain, parsing, detection>>
  BY DEF EnrichmentStep, C3!Next, C3!Enrich, C3!EnrichCommit, C3!EnrichRestart
<1>2. EnrichmentDone
  BY C3Step
<1>3. /\ DOMAIN enriched = Clients /\ DOMAIN enriched' = Clients
      /\ \A c \in Clients :
           /\ enriched[c] \in Seq(EnrichedLines(c)) /\ enriched'[c] \in Seq(EnrichedLines(c))
           /\ Len(enriched[c]) \in Nat /\ Len(enriched'[c]) \in Nat
           /\ DOMAIN enriched[c] = 1..Len(enriched[c]) /\ DOMAIN enriched'[c] = 1..Len(enriched'[c])
           /\ Len(enriched[c]) <= Len(enriched'[c])
  BY <1>2, LenProperties DEF StreamInv, StreamTypes, EnrichmentDone, EnrichedGrows, Grown
<1>4. hits' \in Seq(Counters) /\ \A n \in DOMAIN hits' : Len(hits'[n].times) <= MaxPerClient
  <2>1. hits' \in Seq(SmallCounters) /\ SmallCounters \subseteq Counters
    BY <1>2 DEF EnrichmentDone, SmallCounters
  <2>2. DOMAIN hits' = 1..Len(hits') /\ \A n \in 1..Len(hits') : hits'[n] \in SmallCounters
    BY <2>1, LenProperties, ElementOfSeq
  <2> QED BY <2>1, <2>2, SeqMonotonic DEF SmallCounters
<1>5. StreamTypes'
  BY <1>1, <1>2, <1>3, <1>4
     DEF StreamInv, StreamTypes, EnrichmentDone, HistoryGrows, parsing, detection
<1>6. TypeOK'
  <2>1. (\A p \in Clients \cup Domains : posOk[p] <= pos[p] /\ pos[p] <= Len(Detector!Input(p)))'
    <3> SUFFICES ASSUME NEW p \in Clients \cup Domains
                 PROVE  posOk[p] <= pos[p] /\ pos[p] <= Len(Detector!Input(p)')
      BY <1>1 DEF detection
    <3>1. posOk[p] <= pos[p] /\ pos[p] <= Len(Detector!Input(p)) /\ pos[p] \in Nat
      BY DEF StreamInv, StreamTypes, TypeOK, Partitions
    <3>2. CASE p \in Clients
      <4>1. /\ Len(Detector!Input(p)) = Len(enriched[p])
            /\ Len(Detector!Input(p)') = Len(enriched'[p])
        BY <1>3, <3>2, InputLength DEF Detector!Input
      <4> QED BY <1>3, <3>1, <3>2, <4>1
    <3>3. CASE p \notin Clients
      BY <1>1, <3>1, <3>3 DEF Detector!Input
    <3> QED BY <3>2, <3>3
  <2>2. \A c \in Clients :
          /\ parsedOk'[c] <= parsed'[c] /\ parsed'[c] <= Len(Raw[c])
          /\ enrichOk'[c] <= enrich'[c] /\ enrich'[c] <= Len(normalized'[c])
    BY <1>1, <1>2 DEF EnrichmentDone, StreamInv, TypeOK, parsing
  <2> QED BY <1>1, <1>2, <1>4, <2>1, <2>2
          DEF StreamInv, TypeOK, EnrichmentDone, HistoryGrows, parsing, detection
<1>7. ParsedIsKept'
  <2> SUFFICES ASSUME NEW c \in Clients, NEW i \in 1..parsed[c]
               PROVE  \/ <<"parse", c, i>> \in dropped'
                      \/ \A k \in Places(c, i) :
                           \E n \in DOMAIN normalized[c] : normalized[c][n].line = <<c, i, k>>
    BY <1>1 DEF ParsedIsKept, Places, parsing
  <2> QED BY <1>2 DEF StreamInv, ParsedIsKept, EnrichmentDone, HistoryGrows
<1>8. EnrichedIsKept'
  BY <1>1, <1>2 DEF EnrichedIsKept, EnrichmentDone
<1>9. CopiedIsKept' /\ CopiesInOrder'
  <2>1. \A c \in Clients : DOMAIN enriched[c] \subseteq DOMAIN enriched'[c]
    BY <1>3
  <2> QED BY <1>1, <1>2, <2>1, CopiesStay DEF EnrichmentDone, HistoryGrows, detection
<1>10. LinesInOrder'
  <2> SUFFICES ASSUME Happened({"skip"})' = {}
               PROVE  /\ \A c \in Clients, i \in Nat \ {0} :
                           /\ <<"parse", c, i>> \in dropped' => i \in DOMAIN Raw[c] /\ Places(c, i) = {}
                           /\ <<"enrich", c, i>> \notin dropped'
                      /\ \A c \in Clients : NoGaps(normalized[c], c) /\ NoGaps(enriched'[c], c)
    BY <1>1 DEF LinesInOrder, NoGaps, NoGapBefore, LogLines, Places
  <2>1. Happened({"skip"}) = {} /\ dropped' = dropped
    BY <1>2 DEF EnrichmentDone, HistoryGrows
  <2> QED BY <1>2, <2>1 DEF EnrichmentDone, StreamInv, LinesInOrder
<1> QED BY <1>5, <1>6, <1>7, <1>8, <1>9, <1>10 DEF StreamInv

-----------------------------------------------------------------------------
(* The detector, in roles REPARTITION and DDOS.                            *)

\* A sequence is one of its own elements.
LEMMA OwnElements ==
  ASSUME NEW T, NEW s \in Seq(T)
  PROVE  s \in Seq({s[n] : n \in DOMAIN s})
<1>1. DOMAIN s = 1..Len(s) /\ Len(s) \in Nat /\ s \in [1..Len(s) -> T]
  BY LenProperties
<1> DEFINE U == {s[n] : n \in DOMAIN s}
<1>2. s \in [1..Len(s) -> U]
  BY <1>1
<1> HIDE DEF U
<1>3. s \in Seq(U)
  BY <1>1, <1>2
<1> QED BY <1>3 DEF U

\* The windows after w was used: within their bound.
LEMMA KeptFacts ==
  ASSUME StreamInv, NEW w, windows' = Detector!Kept(w)
  PROVE  windows' \in Seq({windows'[n] : n \in DOMAIN windows'}) /\ Len(windows') <= MaxTrackedDomains
<1> DEFINE W == {windows[n] : n \in DOMAIN windows}
           T == W \cup {w}
<1>1. /\ windows \in Seq(W) /\ Len(windows) <= MaxTrackedDomains
      /\ MaxTrackedDomains \in Nat \ {0}
  BY StreamAssumption DEF StreamInv, StreamTypes, TypeOK
<1>2. W \subseteq T /\ w \in T
  OBVIOUS
<1> HIDE DEF W, T
<1>3. PICK others : others = At(windows, DOMAIN windows \ Detector!Place(w.domain))
  OBVIOUS
<1>4. others \in Seq(T) /\ Len(others) \in Nat /\ Len(others) <= MaxTrackedDomains
  <2>1. windows \in Seq(T) /\ Len(windows) \in Nat
    BY <1>1, <1>2, SeqMonotonic, LenProperties
  <2>2. DOMAIN windows \ Detector!Place(w.domain) \in SUBSET DOMAIN windows
    OBVIOUS
  <2>3. others \in Seq(T) /\ Len(others) \in Nat /\ Len(others) <= Len(windows)
    BY <1>3, <2>1, <2>2, AtFacts
  <2> QED BY <1>1, <2>1, <2>3
<1>5. PICK all : all = Append(others, w)
  OBVIOUS
<1>6. all \in Seq(T) /\ Len(all) = Len(others) + 1 /\ all # <<>>
  BY <1>2, <1>4, <1>5, AppendProperties
<1>7. Tail(all) \in Seq(T) /\ Len(Tail(all)) = Len(all) - 1
  BY <1>6, HeadTailProperties
<1>8. PICK bound : bound = IF Len(all) > MaxTrackedDomains THEN Tail(all) ELSE all
  OBVIOUS
<1>9. bound \in Seq(T) /\ Len(bound) \in Nat /\ Len(bound) <= MaxTrackedDomains
  BY <1>1, <1>4, <1>6, <1>7, <1>8
<1>10. PICK recent : recent = {n \in DOMAIN bound : bound[n].lastProcessed >= clock - 2 * WindowSeconds}
  OBVIOUS
<1>11. At(bound, recent) \in Seq(T) /\ Len(At(bound, recent)) <= MaxTrackedDomains
  <2>1. recent \in SUBSET DOMAIN bound
    BY <1>10
  <2>2. At(bound, recent) \in Seq(T) /\ Len(At(bound, recent)) \in Nat
        /\ Len(At(bound, recent)) <= Len(bound)
    BY <1>9, <2>1, AtFacts
  <2> QED BY <1>1, <1>9, <2>2
<1>12. windows' = IF processed + 1 < CleanupEvery THEN bound ELSE At(bound, recent)
  <2>1. Detector!At(windows, DOMAIN windows \ Detector!Place(w.domain)) = others
    BY <1>3, SameAt
  <2>2. Detector!At(bound, recent) = At(bound, recent)
    BY SameAt
  <2>3. Detector!Kept(w) = IF processed + 1 < CleanupEvery THEN bound ELSE Detector!At(bound, recent)
    BY <1>5, <1>8, <1>10, <2>1 DEF Detector!Kept
  <2> QED BY <2>2, <2>3
<1>13. windows' \in Seq(T) /\ Len(windows') <= MaxTrackedDomains
  BY <1>9, <1>11, <1>12
<1> QED BY <1>13, OwnElements

\* What a step of the detector brings about.
DetectionDone ==
  /\ HistoryGrows
  /\ byDomain' \in [Domains -> Seq(Clients \X Nat)]
  /\ pos' \in [Partitions -> Nat] /\ posOk' \in [Partitions -> Nat]
  /\ \A p \in Partitions : posOk'[p] <= pos'[p] /\ pos'[p] <= Len(Detector!Input(p)')
  /\ windows' \in Seq({windows'[n] : n \in DOMAIN windows'}) /\ Len(windows') <= MaxTrackedDomains
  /\ processed' \in 0..(CleanupEvery - 1)
  /\ CopiedIsKept' /\ CopiesInOrder'
  /\ \A x \in dropped' \ dropped : x[1] = "detector"

\* The lengths of the inputs.
LEMMA InputFacts ==
  ASSUME StreamInv, NEW p \in Partitions
  PROVE  /\ Len(Detector!Input(p)) \in Nat
         /\ posOk[p] <= pos[p] /\ pos[p] <= Len(Detector!Input(p))
         /\ p \in Clients => Len(Detector!Input(p)) = Len(enriched[p])
         /\ p \notin Clients => p \in Domains /\ Detector!Input(p) = byDomain[p]
         /\ p \in Clients => p \notin Domains
         /\ pos \in [Partitions -> Nat] /\ posOk \in [Partitions -> Nat]
<1>1. CASE p \in Clients
  <2>1. enriched[p] \in Seq(EnrichedLines(p))
    BY <1>1 DEF StreamInv, StreamTypes
  <2>2. Detector!Input(p) = [n \in DOMAIN enriched[p] |-> <<p, n>>]
    BY <1>1 DEF Detector!Input
  <2>3. Len(Detector!Input(p)) = Len(enriched[p]) /\ Len(enriched[p]) \in Nat
    BY <1>1, <2>1, <2>2, InputLength
  <2> QED BY <1>1, <2>3, StreamAssumption DEF StreamInv, StreamTypes, TypeOK, Partitions
<1>2. CASE p \notin Clients
  <2>1. p \in Domains /\ Detector!Input(p) = byDomain[p]
    BY <1>2 DEF Detector!Input, Partitions
  <2>2. byDomain[p] \in Seq(Clients \X Nat)
    BY <2>1 DEF StreamInv, StreamTypes
  <2> QED BY <1>2, <2>1, <2>2, LenProperties DEF StreamInv, StreamTypes, TypeOK, Partitions
<1> QED BY <1>1, <1>2

\* The offsets after a record of p was processed.
LEMMA OffsetAdvances ==
  ASSUME StreamInv, NEW p \in Partitions, pos[p] < Len(Detector!Input(p)), enriched' = enriched,
         pos' = [pos EXCEPT ![p] = pos[p] + 1], posOk' = posOk,
         \A d \in Domains : Len(byDomain'[d]) \in Nat /\ Len(byDomain[d]) <= Len(byDomain'[d])
  PROVE  /\ pos' \in [Partitions -> Nat] /\ posOk' \in [Partitions -> Nat]
         /\ \A q \in Partitions : posOk'[q] <= pos'[q] /\ pos'[q] <= Len(Detector!Input(q)')
<1>1. pos \in [Partitions -> Nat] /\ posOk \in [Partitions -> Nat] /\ pos[p] \in Nat
  BY InputFacts
<1>2. pos' \in [Partitions -> Nat] /\ posOk' \in [Partitions -> Nat]
  BY <1>1
<1>3. ASSUME NEW q \in Partitions
      PROVE  posOk'[q] <= pos'[q] /\ pos'[q] <= Len(Detector!Input(q)')
  <2>1. /\ Len(Detector!Input(q)) \in Nat /\ posOk[q] <= pos[q]
        /\ pos[q] <= Len(Detector!Input(q)) /\ pos[q] \in Nat /\ posOk[q] \in Nat
    BY InputFacts
  <2>2. Len(Detector!Input(q)) <= Len(Detector!Input(q)') /\ Len(Detector!Input(q)') \in Nat
    <3>1. CASE q \in Clients
      <4>1. Detector!Input(q)' = Detector!Input(q)
        BY <3>1 DEF Detector!Input
      <4> QED BY <2>1, <4>1
    <3>2. CASE q \notin Clients
      <4>1. q \in Domains /\ Detector!Input(q) = byDomain[q] /\ Detector!Input(q)' = byDomain'[q]
        BY <3>2, InputFacts DEF Detector!Input
      <4> QED BY <4>1
    <3> QED BY <3>1, <3>2
  <2>3. CASE q = p
    <3>1. pos'[q] = pos[p] + 1 /\ posOk'[q] = posOk[q]
      BY <1>1, <2>3
    <3> QED BY <2>1, <2>2, <2>3, <3>1
  <2>4. CASE q # p
    <3>1. pos'[q] = pos[q] /\ posOk'[q] = posOk[q]
      BY <1>1, <2>4
    <3> QED BY <2>1, <2>2, <3>1
  <2> QED BY <2>3, <2>4
<1> QED BY <1>2, <1>3

\* A record that is not copied: dropped, or analysed.
LEMMA NotCopied ==
  ASSUME StreamInv, NEW p \in Partitions, pos[p] < Len(Detector!Input(p)), enriched' = enriched,
         pos' = [pos EXCEPT ![p] = pos[p] + 1], posOk' = posOk, byDomain' = byDomain,
         HistoryGrows,
         p \in Clients => <<"detector", p, pos[p] + 1>> \in dropped',
         \A x \in dropped' \ dropped : x[1] = "detector",
         windows' = windows \/ \E w : windows' = Detector!Kept(w),
         processed' = processed \/ processed' = (processed + 1) % CleanupEvery
  PROVE  DetectionDone
<1>1. \A d \in Domains : byDomain[d] \in Seq(Clients \X Nat) /\ Len(byDomain[d]) \in Nat
  BY LenProperties DEF StreamInv, StreamTypes
<1>2. /\ pos' \in [Partitions -> Nat] /\ posOk' \in [Partitions -> Nat]
      /\ \A q \in Partitions : posOk'[q] <= pos'[q] /\ pos'[q] <= Len(Detector!Input(q)')
  <2>1. \A d \in Domains : Len(byDomain'[d]) \in Nat /\ Len(byDomain[d]) <= Len(byDomain'[d])
    BY <1>1
  <2> QED BY <2>1, OffsetAdvances
<1>3. CopiedIsKept' /\ CopiesInOrder'
  <2>1. ASSUME NEW c \in Clients, NEW i \in 1..pos'[c]
        PROVE  i \in 1..pos[c] \/ <<"detector", c, i>> \in dropped'
    <3>1. pos \in [Partitions -> Nat] /\ c \in Partitions
      BY InputFacts DEF Partitions
    <3>2. pos[c] \in Nat /\ i \in Nat /\ 1 <= i /\ pos'[c] = IF c = p THEN pos[c] + 1 ELSE pos[c]
      BY <3>1
    <3>3. i <= pos[c] \/ (c = p /\ i = pos[p] + 1)
      BY <3>2
    <3> QED BY <3>2, <3>3
  <2> QED BY <2>1, CopiesStay DEF HistoryGrows
<1>4. windows' \in Seq({windows'[n] : n \in DOMAIN windows'}) /\ Len(windows') <= MaxTrackedDomains
  <2>1. CASE windows' = windows
    BY <2>1 DEF StreamInv, StreamTypes, TypeOK
  <2>2. CASE \E w : windows' = Detector!Kept(w)
    BY <2>2, KeptFacts
  <2> QED BY <2>1, <2>2
<1>5. processed' \in 0..(CleanupEvery - 1)
  <2>1. CleanupEvery \in Nat \ {0} /\ processed \in 0..(CleanupEvery - 1)
    BY StreamAssumption DEF StreamInv, TypeOK
  <2> QED BY <2>1
<1>6. byDomain' \in [Domains -> Seq(Clients \X Nat)]
  BY DEF StreamInv, StreamTypes
<1> QED BY <1>2, <1>3, <1>4, <1>5, <1>6 DEF DetectionDone

\* A record that REPARTITION copies to the partition of its domain.
LEMMA CopiedStep ==
  ASSUME StreamInv, NEW c \in Clients, NEW i, i = pos[c] + 1, pos[c] < Len(enriched[c]),
         enriched' = enriched, pos' = [pos EXCEPT ![c] = pos[c] + 1], posOk' = posOk,
         byDomain' = [byDomain EXCEPT ![DomainOf[c]] = Append(@, <<c, i>>)],
         UNCHANGED <<windows, processed, dropped, faults>>
  PROVE  DetectionDone
<1> DEFINE own == DomainOf[c]
<1>1. own \in Domains /\ c \in Partitions /\ pos \in [Partitions -> Nat]
  BY StreamAssumption, InputFacts DEF Partitions
<1>2. i \in Nat /\ i \in DOMAIN enriched[c]
  <2>1. enriched[c] \in Seq(EnrichedLines(c)) /\ pos[c] \in Nat
    BY <1>1 DEF StreamInv, StreamTypes
  <2>2. DOMAIN enriched[c] = 1..Len(enriched[c]) /\ Len(enriched[c]) \in Nat
    BY <2>1, LenProperties
  <2> QED BY <2>1, <2>2
<1>3. \A d \in Domains : /\ byDomain[d] \in Seq(Clients \X Nat) /\ Len(byDomain[d]) \in Nat
                         /\ DOMAIN byDomain[d] = 1..Len(byDomain[d])
  BY LenProperties DEF StreamInv, StreamTypes
<1>4. /\ byDomain \in [Domains -> Seq(Clients \X Nat)]
      /\ byDomain'[own] = Append(byDomain[own], <<c, i>>)
      /\ \A d \in Domains \ {own} : byDomain'[d] = byDomain[d]
      /\ DOMAIN byDomain' = Domains
  BY <1>1 DEF StreamInv, StreamTypes
<1> HIDE DEF own
<1>5. /\ byDomain'[own] \in Seq(Clients \X Nat)
      /\ Len(byDomain'[own]) = Len(byDomain[own]) + 1
      /\ DOMAIN byDomain'[own] = 1..(Len(byDomain[own]) + 1)
      /\ \A n \in 1..Len(byDomain[own]) : byDomain'[own][n] = byDomain[own][n]
      /\ byDomain'[own][Len(byDomain[own]) + 1] = <<c, i>>
  <2>1. <<c, i>> \in Clients \X Nat /\ byDomain[own] \in Seq(Clients \X Nat)
    BY <1>1, <1>2, <1>3
  <2> QED BY <1>4, <2>1, AppendProperties, LenProperties
<1>6. \A d \in Domains :
        /\ byDomain'[d] \in Seq(Clients \X Nat) /\ Len(byDomain'[d]) \in Nat
        /\ Len(byDomain[d]) <= Len(byDomain'[d])
        /\ \A n \in DOMAIN byDomain[d] : n \in DOMAIN byDomain'[d] /\ byDomain'[d][n] = byDomain[d][n]
  <2> TAKE d \in Domains
  <2>0. byDomain[d] \in Seq(Clients \X Nat) /\ Len(byDomain[d]) \in Nat /\ DOMAIN byDomain[d] = 1..Len(byDomain[d])
    BY <1>3
  <2>1. CASE d = own
    BY <1>5, <2>0, <2>1
  <2>2. CASE d # own
    BY <1>4, <2>0, <2>2
  <2> QED BY <2>1, <2>2
<1>7. byDomain' \in [Domains -> Seq(Clients \X Nat)]
  <2>1. byDomain' = [d \in Domains |-> byDomain'[d]]
    BY <1>4 DEF StreamInv, StreamTypes
  <2> QED BY <1>6, <2>1
<1>8. /\ pos' \in [Partitions -> Nat] /\ posOk' \in [Partitions -> Nat]
      /\ \A q \in Partitions : posOk'[q] <= pos'[q] /\ pos'[q] <= Len(Detector!Input(q)')
  <2>1. pos[c] < Len(Detector!Input(c))
    BY <1>1, InputFacts
  <2> QED BY <1>1, <1>6, <2>1, OffsetAdvances
<1>9. CopiedIsKept'
  <2>1. ASSUME NEW b \in Clients, NEW j \in 1..pos'[b]
        PROVE  \/ <<"detector", b, j>> \in dropped'
               \/ \E n \in DOMAIN byDomain'[DomainOf[b]] : byDomain'[DomainOf[b]][n] = <<b, j>>
    <3>1. CASE j \in 1..pos[b]
      <4>1. DomainOf[b] \in Domains
        BY StreamAssumption
      <4>2. \/ <<"detector", b, j>> \in dropped
            \/ \E n \in DOMAIN byDomain[DomainOf[b]] : byDomain[DomainOf[b]][n] = <<b, j>>
        BY <3>1 DEF StreamInv, CopiedIsKept
      <4> QED BY <1>6, <4>1, <4>2
    <3>2. CASE j \notin 1..pos[b]
      <4>1. b \in Partitions /\ pos[b] \in Nat /\ pos'[b] = IF b = c THEN pos[b] + 1 ELSE pos[b]
        BY <1>1 DEF Partitions
      <4>2. b = c /\ j = i
        BY <3>2, <4>1
      <4>3. Len(byDomain[own]) + 1 \in DOMAIN byDomain'[own]
        BY <1>1, <1>3, <1>5
      <4> QED BY <1>5, <4>2, <4>3 DEF own
    <3> QED BY <3>1, <3>2
  <2> QED BY <2>1 DEF CopiedIsKept
<1>10. ASSUME NEW d \in Domains, NEW m \in DOMAIN byDomain'[d]
       PROVE  CopyInOrder(d, m)'
  <2>1. CASE m \in DOMAIN byDomain[d]
    <3>1. PICK b \in Clients : \E k \in DOMAIN enriched[b] :
            /\ byDomain[d][m] = <<b, k>> /\ DomainOf[b] = d
            /\ \A j \in 1..(k - 1) :
                 <<"detector", b, j>> \in dropped \/ \E q \in 1..(m - 1) : byDomain[d][q] = <<b, j>>
      BY <2>1 DEF StreamInv, CopiesInOrder, CopyInOrder
    <3>2. PICK k \in DOMAIN enriched[b] :
            /\ byDomain[d][m] = <<b, k>> /\ DomainOf[b] = d
            /\ \A j \in 1..(k - 1) :
                 <<"detector", b, j>> \in dropped \/ \E q \in 1..(m - 1) : byDomain[d][q] = <<b, j>>
      BY <3>1
    <3>3. byDomain'[d][m] = <<b, k>> /\ \A q \in 1..(m - 1) : byDomain'[d][q] = byDomain[d][q]
      BY <1>3, <1>6, <2>1, <3>2, SMTT(30)
    <3>4. \A j \in 1..(k - 1) :
            <<"detector", b, j>> \in dropped' \/ \E q \in 1..(m - 1) : byDomain'[d][q] = <<b, j>>
      BY <3>2, <3>3
    <3> QED BY <3>2, <3>3, <3>4 DEF CopyInOrder
  <2>2. CASE m \notin DOMAIN byDomain[d]
    <3>1. d = own /\ m = Len(byDomain[own]) + 1
      <4>1. d = own
        BY <1>4, <2>2
      <4> QED BY <1>1, <1>3, <1>5, <2>2, <4>1
    <3>2. byDomain'[d][m] = <<c, i>> /\ DomainOf[c] = d
      BY <1>5, <3>1 DEF own
    <3>3. ASSUME NEW j \in 1..(i - 1), <<"detector", c, j>> \notin dropped'
          PROVE  \E q \in 1..(m - 1) : byDomain'[d][q] = <<c, j>>
      <4>1. j \in 1..pos[c] /\ <<"detector", c, j>> \notin dropped
        <5>1. pos[c] \in Nat
          BY <1>1
        <5> QED BY <3>3, <5>1
      <4>2. PICK n \in DOMAIN byDomain[d] : byDomain[d][n] = <<c, j>>
        BY <3>2, <4>1 DEF StreamInv, CopiedIsKept
      <4>3. n \in 1..(m - 1)
        <5>1. DOMAIN byDomain[d] = 1..Len(byDomain[d]) /\ Len(byDomain[d]) \in Nat
          BY <1>3
        <5> QED BY <3>1, <5>1
      <4>4. byDomain'[d][n] = byDomain[d][n]
        BY <1>6, <4>2
      <4> QED BY <4>2, <4>3, <4>4
    <3> QED BY <1>2, <3>2, <3>3 DEF CopyInOrder
  <2> QED BY <2>1, <2>2
<1>11. HistoryGrows /\ \A x \in dropped' \ dropped : x[1] = "detector"
  BY HistoryStays
<1>12. /\ windows' \in Seq({windows'[n] : n \in DOMAIN windows'}) /\ Len(windows') <= MaxTrackedDomains
       /\ processed' \in 0..(CleanupEvery - 1)
  BY DEF StreamInv, StreamTypes, TypeOK
<1>13. CopiesInOrder'
  BY <1>10 DEF CopiesInOrder
<1> QED BY <1>7, <1>8, <1>9, <1>11, <1>12, <1>13 DEF DetectionDone

\* The processor: dead letter, skip, copy or analyse.
LEMMA ProcessStep ==
  ASSUME StreamInv, NEW p \in Partitions, Detector!Process(p)
  PROVE  DetectionDone
<1>1. PICK i : i = pos[p] + 1
  OBVIOUS
<1>2. PICK e : e = Detector!Input(p)[i]
  OBVIOUS
<1>3. /\ pos[p] < Len(Detector!Input(p)) /\ pos' = [pos EXCEPT ![p] = pos[p] + 1]
      /\ posOk' = posOk /\ enriched' = enriched
  BY DEF Detector!Process
<1>4. CASE /\ dropped' = dropped \cup {<<"detector", p, i>>}
           /\ UNCHANGED <<byDomain, windows, processed>>
           /\ UNCHANGED faults \/ Detector!Fault("skip")
  <2>1. HistoryGrows
    <3>1. CASE UNCHANGED faults
      BY <1>4, <3>1, HistoryStays
    <3>2. CASE Detector!Fault("skip")
      BY <1>4, <3>2, FaultGrows DEF Detector!Fault, Kinds
    <3> QED BY <1>4, <3>1, <3>2
  <2>2. <<"detector", p, pos[p] + 1>> \in dropped' /\ \A x \in dropped' \ dropped : x[1] = "detector"
    BY <1>1, <1>4
  <2> QED BY <1>3, <1>4, <2>1, <2>2, NotCopied
<1>5. CASE Detector!Copy(p, e) /\ UNCHANGED <<dropped, faults>>
  <2>1. /\ p \in Clients /\ UNCHANGED <<windows, processed>>
        /\ byDomain' = [byDomain EXCEPT ![DomainOf[p]] = Append(@, e)]
    BY <1>5 DEF Detector!Copy
  <2>2. Len(Detector!Input(p)) = Len(enriched[p]) /\ pos[p] \in Nat
    BY <2>1, InputFacts
  <2>3. e = <<p, i>>
    <3>1. enriched[p] \in Seq(EnrichedLines(p))
      BY <2>1 DEF StreamInv, StreamTypes
    <3>2. i \in DOMAIN enriched[p]
      BY <1>1, <1>3, <2>2, <3>1, LenProperties
    <3> QED BY <1>2, <2>1, <3>2 DEF Detector!Input
  <2> QED BY <1>1, <1>3, <1>5, <2>1, <2>2, <2>3, CopiedStep
<1>6. CASE Detector!Analyse(p, i, e) /\ UNCHANGED <<dropped, faults>>
  <2>1. /\ p \in Domains /\ byDomain' = byDomain
        /\ processed' = (processed + 1) % CleanupEvery
        /\ \E w : windows' = Detector!Kept(w)
    BY <1>6 DEF Detector!Analyse
  <2>2. HistoryGrows
    BY <1>6, HistoryStays
  <2>3. p \notin Clients
    BY <2>1, StreamAssumption
  <2>4. \A x \in dropped' \ dropped : x[1] = "detector"
    BY <1>6
  <2> QED BY <1>3, <2>1, <2>2, <2>3, <2>4, NotCopied
<1> QED BY <1>1, <1>2, <1>4, <1>5, <1>6 DEF Detector!Process

\* A commit and a restart process nothing.
LEMMA DetectorOffsetsMove ==
  ASSUME StreamInv, HistoryGrows, UNCHANGED <<enriched, byDomain, dropped>>,
         pos' \in [Partitions -> Nat], posOk' \in [Partitions -> Nat],
         \A p \in Partitions : posOk'[p] <= pos'[p] /\ pos'[p] <= pos[p],
         windows' \in {windows, <<>>}, processed' \in {processed, 0}
  PROVE  DetectionDone
<1>1. \A p \in Partitions : pos'[p] <= Len(Detector!Input(p)')
  <2> TAKE p \in Partitions
  <2>1. Detector!Input(p)' = Detector!Input(p)
    BY DEF Detector!Input
  <2>2. /\ pos[p] <= Len(Detector!Input(p)) /\ Len(Detector!Input(p)) \in Nat
        /\ pos[p] \in Nat /\ pos'[p] \in Nat /\ pos'[p] <= pos[p]
    BY InputFacts
  <2> QED BY <2>1, <2>2
<1>2. CopiedIsKept' /\ CopiesInOrder'
  <2>1. ASSUME NEW c \in Clients, NEW i \in 1..pos'[c] PROVE i \in 1..pos[c]
    <3>1. c \in Partitions
      BY DEF Partitions
    <3>2. pos[c] \in Nat /\ pos'[c] \in Nat /\ pos'[c] <= pos[c]
      BY <3>1, InputFacts
    <3> QED BY <3>2
  <2> QED BY <2>1, CopiesStay
<1>3. windows' \in Seq({windows'[n] : n \in DOMAIN windows'}) /\ Len(windows') <= MaxTrackedDomains
  <2>1. CASE windows' = windows
    BY <2>1 DEF StreamInv, StreamTypes, TypeOK
  <2>2. CASE windows' = <<>>
    <3>1. MaxTrackedDomains \in Nat
      BY StreamAssumption
    <3> QED BY <2>2, <3>1, EmptySeq
  <2> QED BY <2>1, <2>2
<1>4. processed' \in 0..(CleanupEvery - 1)
  <2>1. CleanupEvery \in Nat \ {0} /\ processed \in 0..(CleanupEvery - 1)
    BY StreamAssumption DEF StreamInv, TypeOK
  <2> QED BY <2>1
<1>5. byDomain' \in [Domains -> Seq(Clients \X Nat)]
  BY DEF StreamInv, StreamTypes
<1>6. dropped' \ dropped = {}
  OBVIOUS
<1> QED BY <1>1, <1>2, <1>3, <1>4, <1>5, <1>6 DEF DetectionDone

\* Every step of REPARTITION and of DDOS.
LEMMA DetectorStep == StreamInv /\ DetectionStep => DetectionDone
<1> SUFFICES ASSUME StreamInv, DetectionStep PROVE DetectionDone
  OBVIOUS
<1>0. /\ pos \in [Partitions -> Nat] /\ posOk \in [Partitions -> Nat]
      /\ \A p \in Partitions : posOk[p] <= pos[p]
  BY DEF StreamInv, StreamTypes, TypeOK, Partitions
<1>1. ASSUME NEW p \in Partitions, Detector!Process(p) PROVE DetectionDone
  BY <1>1, ProcessStep
<1>2. ASSUME NEW role, Detector!Commit(role) PROVE DetectionDone
  <2>1. /\ posOk' = [p \in Partitions |-> IF p \in role THEN pos[p] ELSE posOk[p]]
        /\ UNCHANGED <<enriched, byDomain, pos, windows, processed, dropped, faults>>
    BY <1>2 DEF Detector!Commit, Detector!Partitions, Partitions
  <2>2. HistoryGrows
    BY <2>1, HistoryStays
  <2>3. /\ posOk' \in [Partitions -> Nat] /\ pos' \in [Partitions -> Nat]
        /\ \A p \in Partitions : posOk'[p] <= pos'[p] /\ pos'[p] <= pos[p]
    BY <1>0, <2>1
  <2> QED BY <2>1, <2>2, <2>3, DetectorOffsetsMove
<1>3. ASSUME NEW role, Detector!Restart(role) PROVE DetectionDone
  <2>1. /\ Detector!Fault(IF role = Clients THEN "copy" ELSE "ddos")
        /\ pos' = [p \in Partitions |-> IF p \in role THEN posOk[p] ELSE pos[p]]
        /\ windows' \in {windows, <<>>} /\ processed' \in {processed, 0}
        /\ UNCHANGED <<enriched, byDomain, posOk, dropped>>
    BY <1>3 DEF Detector!Restart, Detector!Partitions, Partitions
  <2>2. PICK kind \in Kinds : Detector!Fault(kind)
    BY <2>1 DEF Kinds
  <2>3. HistoryGrows
    BY <2>1, <2>2, FaultGrows DEF Detector!Fault
  <2>4. /\ posOk' \in [Partitions -> Nat] /\ pos' \in [Partitions -> Nat]
        /\ \A p \in Partitions : posOk'[p] <= pos'[p] /\ pos'[p] <= pos[p]
    BY <1>0, <2>1
  <2> QED BY <2>1, <2>3, <2>4, DetectorOffsetsMove
<1> QED BY <1>1, <1>2, <1>3 DEF DetectionStep, Detector!Next, Detector!Partitions, Partitions

\* The steps of the detector keep the invariant: what they publish follows what they read.
LEMMA DetectionKeeps == StreamInv /\ DetectionStep => StreamInv'
<1> SUFFICES ASSUME StreamInv, DetectionStep PROVE StreamInv'
  OBVIOUS
<1>1. UNCHANGED <<clock, normalized, enriched, parsing, enrichment>>
  BY DEF DetectionStep, Detector!Next, Detector!Process, Detector!Commit, Detector!Restart
<1>2. DetectionDone
  BY DetectorStep
<1>3. StreamTypes'
  BY <1>1, <1>2
     DEF StreamInv, StreamTypes, DetectionDone, HistoryGrows, parsing, enrichment
<1>4. TypeOK'
  <2>1. (\A p \in Clients \cup Domains : posOk[p] <= pos[p] /\ pos[p] <= Len(Detector!Input(p)))'
    BY <1>2 DEF DetectionDone, Partitions
  <2>2. \A c \in Clients :
          /\ parsedOk'[c] <= parsed'[c] /\ parsed'[c] <= Len(Raw[c])
          /\ enrichOk'[c] <= enrich'[c] /\ enrich'[c] <= Len(normalized'[c])
    BY <1>1 DEF StreamInv, TypeOK, parsing, enrichment
  <2> QED BY <1>1, <1>2, <2>1, <2>2
          DEF StreamInv, TypeOK, DetectionDone, HistoryGrows, parsing, enrichment
<1>5. ParsedIsKept'
  <2> SUFFICES ASSUME NEW c \in Clients, NEW i \in 1..parsed[c]
               PROVE  \/ <<"parse", c, i>> \in dropped'
                      \/ \A k \in Places(c, i) :
                           \E n \in DOMAIN normalized[c] : normalized[c][n].line = <<c, i, k>>
    BY <1>1 DEF ParsedIsKept, Places, parsing
  <2> QED BY <1>2 DEF StreamInv, ParsedIsKept, DetectionDone, HistoryGrows
<1>6. EnrichedIsKept'
  <2> SUFFICES ASSUME NEW c \in Clients, NEW i \in 1..enrich[c]
               PROVE  \/ <<"enrich", c, i>> \in dropped'
                      \/ \E n \in DOMAIN enriched[c] : enriched[c][n].line = normalized[c][i].line
    BY <1>1 DEF EnrichedIsKept, enrichment
  <2> QED BY <1>2 DEF StreamInv, EnrichedIsKept, DetectionDone, HistoryGrows
<1>7. LinesInOrder'
  <2> SUFFICES ASSUME Happened({"skip"})' = {}
               PROVE  /\ \A c \in Clients, i \in Nat \ {0} :
                           /\ <<"parse", c, i>> \in dropped' => i \in DOMAIN Raw[c] /\ Places(c, i) = {}
                           /\ <<"enrich", c, i>> \notin dropped'
                      /\ \A c \in Clients : NoGaps(normalized[c], c) /\ NoGaps(enriched[c], c)
    BY <1>1 DEF LinesInOrder, NoGaps, NoGapBefore, LogLines, Places
  <2>1. Happened({"skip"}) = {}
    BY <1>2 DEF DetectionDone, HistoryGrows
  <2>2. \A c, i : /\ <<"parse", c, i>> \in dropped' => <<"parse", c, i>> \in dropped
                  /\ <<"enrich", c, i>> \in dropped' => <<"enrich", c, i>> \in dropped
    BY <1>2 DEF DetectionDone
  <2> QED BY <2>1, <2>2 DEF StreamInv, LinesInOrder
<1> QED BY <1>2, <1>3, <1>4, <1>5, <1>6, <1>7 DEF StreamInv, DetectionDone

-----------------------------------------------------------------------------
(* The theorems.                                                           *)

\* At first there is nothing but the log.
LEMMA StreamInit == Init => StreamInv
<1> SUFFICES ASSUME Init PROVE StreamInv
  OBVIOUS
<1>1. /\ clock \in Instants
      /\ normalized = [c \in Clients |-> <<>>] /\ enriched = [c \in Clients |-> <<>>]
      /\ byDomain = [d \in Domains |-> <<>>]
      /\ parsed = [c \in Clients |-> 0] /\ parsedOk = [c \in Clients |-> 0]
      /\ enrich = [c \in Clients |-> 0] /\ enrichOk = [c \in Clients |-> 0]
      /\ pos = [p \in Partitions |-> 0] /\ posOk = [p \in Partitions |-> 0]
      /\ hits = <<>> /\ windows = <<>> /\ processed = 0
      /\ dropped = {} /\ faults = <<>>
  BY DEF Init, C2!Init, C3!Init, Detector!Init, Detector!Partitions, Partitions
<1>2. StreamTypes
  <2>1. \A T : <<>> \in Seq(T)
    BY EmptySeq
  <2> QED BY <1>1, <2>1 DEF StreamTypes
<1>3. TypeOK
  <2>1. MaxTracked \in Nat /\ MaxTrackedDomains \in Nat /\ MaxFaults \in Nat /\ CleanupEvery \in Nat \ {0}
    BY StreamAssumption
  <2>2. \A c \in Clients : Len(Raw[c]) \in Nat
    BY StreamAssumption
  <2>3. \A p \in Partitions : Detector!Input(p) = <<>>
    BY <1>1 DEF Detector!Input, Partitions
  <2>4. /\ Len(hits) <= MaxTracked /\ \A n \in DOMAIN hits : Len(hits[n].times) <= MaxPerClient
        /\ Len(windows) <= MaxTrackedDomains /\ processed \in 0..(CleanupEvery - 1)
        /\ Len(faults) <= MaxFaults
    BY <1>1, <2>1
  <2>5. \A c \in Clients : /\ parsedOk[c] <= parsed[c] /\ parsed[c] <= Len(Raw[c])
                           /\ enrichOk[c] <= enrich[c] /\ enrich[c] <= Len(normalized[c])
    BY <1>1, <2>2
  <2>6. \A p \in Clients \cup Domains : posOk[p] <= pos[p] /\ pos[p] <= Len(Detector!Input(p))
    BY <1>1, <2>3 DEF Partitions
  <2> QED BY <1>1, <2>4, <2>5, <2>6 DEF TypeOK
<1>4. 1..0 = {}
  OBVIOUS
<1>5. ParsedIsKept /\ EnrichedIsKept
  BY <1>1, <1>4 DEF ParsedIsKept, EnrichedIsKept
<1>6. CopiedIsKept
  BY <1>1, <1>4 DEF CopiedIsKept, Partitions
<1>7. LinesInOrder /\ CopiesInOrder
  BY <1>1 DEF LinesInOrder, CopiesInOrder, NoGaps
<1> QED BY <1>2, <1>3, <1>5, <1>6, <1>7 DEF StreamInv

\* No part of the invariant but the type of the clock is about the clock.
LEMMA ClockMoves ==
  ASSUME StreamInv, clock' \in Instants,
         UNCHANGED <<topics, parsing, enrichment, detection, dropped, faults>>
  PROVE  StreamInv'
<1>1. StreamTypes'
  BY DEF StreamInv, StreamTypes, topics, parsing, enrichment, detection
<1>2. TypeOK'
  BY DEF StreamInv, TypeOK, Detector!Input, topics, parsing, enrichment, detection
<1>3. ParsedIsKept' /\ EnrichedIsKept' /\ CopiedIsKept'
  <2>1. ParsedIsKept'
    BY DEF StreamInv, ParsedIsKept, Places, topics, parsing
  <2>2. EnrichedIsKept'
    BY DEF StreamInv, EnrichedIsKept, topics, enrichment
  <2>3. CopiedIsKept'
    BY DEF StreamInv, CopiedIsKept, topics, detection
  <2> QED BY <2>1, <2>2, <2>3
<1>4. LinesInOrder'
  BY DEF StreamInv, LinesInOrder, Happened, NoGaps, NoGapBefore, topics
<1>5. CopiesInOrder'
  <2>1. UNCHANGED <<enriched, byDomain, dropped>>
    BY DEF topics
  <2>2. ASSUME NEW d \in Domains, NEW m \in DOMAIN byDomain[d] PROVE CopyInOrder(d, m)'
    <3>1. CopyInOrder(d, m)
      BY DEF StreamInv, CopiesInOrder
    <3> QED BY <2>1, <3>1 DEF CopyInOrder
  <2> QED BY <2>1, <2>2 DEF CopiesInOrder
<1> QED BY <1>1, <1>2, <1>3, <1>4, <1>5 DEF StreamInv

\* Every step of a stage, a restart of one and the passing of time keep the invariant.
LEMMA StreamStep == StreamInv /\ [Next]_vars => StreamInv'
<1> SUFFICES ASSUME StreamInv, [Next]_vars PROVE StreamInv'
  OBVIOUS
<1>1. CASE ParsingStep
  BY <1>1, ParsingKeeps
<1>2. CASE EnrichmentStep
  BY <1>2, EnrichmentKeeps
<1>3. CASE DetectionStep
  BY <1>3, DetectionKeeps
<1>4. CASE Tick
  <2>1. clock' \in Instants
    BY <1>4 DEF Tick
  <2>2. UNCHANGED <<topics, parsing, enrichment, detection, dropped, faults>>
    BY <1>4 DEF Tick
  <2> QED BY <2>1, <2>2, ClockMoves
<1>5. CASE UNCHANGED vars
  <2>1. clock' \in Instants
    BY <1>5 DEF vars, StreamInv, TypeOK
  <2>2. UNCHANGED <<topics, parsing, enrichment, detection, dropped, faults>>
    BY <1>5 DEF vars
  <2> QED BY <2>1, <2>2, ClockMoves
<1> QED BY <1>1, <1>2, <1>3, <1>4, <1>5 DEF Next

\* What the stages have handled is in the topics, and without skips in the order of the log.
THEOREM StreamInvariant == Spec => []StreamInv
BY StreamInit, StreamStep, PTL DEF Spec

\* Offsets lie inside their logs, and counters, windows and faults within their bounds,
\* whatever the stages do and however often they are restarted.
THEOREM TypeCorrect == Spec => []TypeOK
<1>1. StreamInv => TypeOK
  BY DEF StreamInv
<1> QED BY <1>1, StreamInvariant, PTL

\* What a stage committed is in the next topic or was dropped: the offsets that a restart
\* goes back to never pass a record that did not come through.
THEOREM NothingIsLost == Spec => []NothingLost
<1>1. StreamInv => NothingLost
  <2> SUFFICES ASSUME StreamInv, NEW c \in Clients
               PROVE  /\ \A i \in 1..parsedOk[c] :
                           \/ <<"parse", c, i>> \in dropped
                           \/ \A k \in DOMAIN Raw[c][i] :
                                \/ Raw[c][i][k] = Malformed
                                \/ \E n \in DOMAIN normalized[c] : normalized[c][n].line = <<c, i, k>>
                      /\ \A i \in 1..enrichOk[c] :
                           \/ <<"enrich", c, i>> \in dropped
                           \/ \E n \in DOMAIN enriched[c] :
                                enriched[c][n].line = normalized[c][i].line
                      /\ \A i \in 1..posOk[c] :
                           \/ <<"detector", c, i>> \in dropped
                           \/ \E n \in DOMAIN byDomain[DomainOf[c]] :
                                byDomain[DomainOf[c]][n] = <<c, i>>
    BY DEF NothingLost
  <2>1. /\ parsedOk[c] \in Nat /\ parsed[c] \in Nat /\ parsedOk[c] <= parsed[c]
        /\ enrichOk[c] \in Nat /\ enrich[c] \in Nat /\ enrichOk[c] <= enrich[c]
        /\ posOk[c] \in Nat /\ pos[c] \in Nat /\ posOk[c] <= pos[c]
    BY DEF StreamInv, StreamTypes, TypeOK, Partitions
  <2>2. 1..parsedOk[c] \subseteq 1..parsed[c] /\ 1..enrichOk[c] \subseteq 1..enrich[c]
    BY <2>1
  <2>3. 1..posOk[c] \subseteq 1..pos[c]
    BY <2>1
  <2>4. ASSUME NEW i \in 1..parsedOk[c], <<"parse", c, i>> \notin dropped,
               NEW k \in DOMAIN Raw[c][i], Raw[c][i][k] # Malformed
        PROVE  \E n \in DOMAIN normalized[c] : normalized[c][n].line = <<c, i, k>>
    BY <2>2, <2>4 DEF StreamInv, ParsedIsKept, Places
  <2>5. ASSUME NEW i \in 1..enrichOk[c], <<"enrich", c, i>> \notin dropped
        PROVE  \E n \in DOMAIN enriched[c] : enriched[c][n].line = normalized[c][i].line
    BY <2>2, <2>5 DEF StreamInv, EnrichedIsKept
  <2>6. ASSUME NEW i \in 1..posOk[c], <<"detector", c, i>> \notin dropped
        PROVE  \E n \in DOMAIN byDomain[DomainOf[c]] : byDomain[DomainOf[c]][n] = <<c, i>>
    BY <2>3, <2>6 DEF StreamInv, CopiedIsKept
  <2> QED BY <2>4, <2>5, <2>6
<1> QED BY <1>1, StreamInvariant, PTL

\* In a topic without gaps a line after a later one is there for the second time.
LEMMA NoGapsIsInOrder ==
  ASSUME NEW c \in Clients, NEW s, NEW T, s \in Seq(T), \A r \in T : r.line \in LogLines(c),
         NoGaps(s, c)
  PROVE  InOrder(LinesOf(s))
<1>1. DOMAIN s = 1..Len(s) /\ Len(s) \in Nat /\ \A n \in DOMAIN s : s[n].line \in LogLines(c)
  BY ElementOfSeq, LenProperties
<1> SUFFICES ASSUME NEW m \in DOMAIN s, NEW n \in DOMAIN s, m < n, Before(s[n].line, s[m].line)
             PROVE  \E q \in 1..(m - 1) : LinesOf(s)[q] = LinesOf(s)[n]
  BY DEF InOrder, LinesOf
<1>2. PICK q \in 1..(m - 1) : s[q].line = s[n].line
  BY <1>1 DEF NoGaps, NoGapBefore
<1>3. q \in DOMAIN s
  BY <1>1
<1> QED BY <1>2, <1>3 DEF LinesOf

\* The copies that DDOS receives of the lines of a client, of which none was dropped.
LEMMA CopiedInOrder ==
  ASSUME StreamInv, NEW c \in Clients, NoGaps(enriched[c], c),
         \A i \in DOMAIN enriched[c] : <<"detector", c, i>> \notin dropped
  PROVE  InOrder(Copied(c))
<1> DEFINE own == DomainOf[c]
           all == byDomain[own]
           places == {n \in DOMAIN all : all[n][1] = c}
           of == At(all, places)
           size == Cardinality(places)
<1>1. own \in Domains /\ all \in Seq(Clients \X Nat) /\ DOMAIN all = 1..Len(all) /\ Len(all) \in Nat
  BY StreamAssumption, LenProperties DEF StreamInv, StreamTypes
<1>2. /\ IsFiniteSet(places) /\ places \subseteq Int /\ size \in Nat
      /\ of \in Seq(Clients \X Nat) /\ Len(of) = size
      /\ \A n \in 1..size : Nth(places, n) \in places /\ of[n] = all[Nth(places, n)]
      /\ \A k \in places : Rank(places, k) \in 1..size /\ of[Rank(places, k)] = all[k]
  <2>1. places \in SUBSET DOMAIN all
    OBVIOUS
  <2>2. of = At(all, places) /\ size = Cardinality(places)
    OBVIOUS
  <2> HIDE DEF all, places, of, size
  <2> QED BY <1>1, <2>1, <2>2, AtFacts, SMTT(30)
<1>3. DOMAIN of = 1..size
  BY <1>2, LenProperties
<1>4. Copied(c) = [n \in DOMAIN of |-> enriched[c][of[n][2]].line]
  BY DEF Copied
<1>5. /\ enriched[c] \in Seq(EnrichedLines(c)) /\ Len(enriched[c]) \in Nat
      /\ DOMAIN enriched[c] = 1..Len(enriched[c])
  BY LenProperties DEF StreamInv, StreamTypes
<1>6. \A i \in DOMAIN enriched[c] : enriched[c][i].line \in LogLines(c)
  <2>1. \A r \in EnrichedLines(c) : r.line \in LogLines(c)
    BY DEF EnrichedLines
  <2> QED BY <1>5, <2>1, ElementOfSeq
<1>7. \A k \in places : \E i \in DOMAIN enriched[c] :
        /\ all[k] = <<c, i>>
        /\ \A j \in 1..(i - 1) : \E q \in 1..(k - 1) : all[q] = <<c, j>>
  <2> TAKE k \in places
  <2>1. CopyInOrder(own, k)
    BY <1>1 DEF StreamInv, CopiesInOrder
  <2>2. PICK b \in Clients : \E i \in DOMAIN enriched[b] :
          /\ all[k] = <<b, i>>
          /\ \A j \in 1..(i - 1) :
               <<"detector", b, j>> \in dropped \/ \E q \in 1..(k - 1) : all[q] = <<b, j>>
    BY <2>1 DEF CopyInOrder
  <2>3. b = c
    BY <2>2
  <2>4. PICK i \in DOMAIN enriched[c] :
          /\ all[k] = <<c, i>>
          /\ \A j \in 1..(i - 1) :
               <<"detector", c, j>> \in dropped \/ \E q \in 1..(k - 1) : all[q] = <<c, j>>
    BY <2>2, <2>3
  <2>5. \A j \in 1..(i - 1) : j \in DOMAIN enriched[c]
    BY <1>5
  <2> QED BY <2>4, <2>5
<1>8. \A k \in places : k \in DOMAIN all /\ all[k][1] = c
  OBVIOUS
<1>9. \A k \in DOMAIN all : all[k][1] = c => k \in places
  OBVIOUS
<1> HIDE DEF own, all, places, of, size
<1> SUFFICES ASSUME NEW m \in 1..size, NEW n \in 1..size, m < n,
                    Before(enriched[c][of[n][2]].line, enriched[c][of[m][2]].line)
             PROVE  \E r \in 1..(m - 1) : Copied(c)[r] = Copied(c)[n]
  <2>1. DOMAIN Copied(c) = 1..size
    BY <1>3, <1>4
  <2>2. \A n \in 1..size : Copied(c)[n] = enriched[c][of[n][2]].line
    BY <1>3, <1>4
  <2> QED BY <2>1, <2>2 DEF InOrder
<1>10. PICK k \in places : of[m] = all[k] /\ Nth(places, m) = k
  BY <1>2
<1>11. PICK i \in DOMAIN enriched[c] :
         /\ all[k] = <<c, i>>
         /\ \A j \in 1..(i - 1) : \E q \in 1..(k - 1) : all[q] = <<c, j>>
  BY <1>7
<1>12. PICK l \in DOMAIN enriched[c] : of[n] = <<c, l>>
  <2>1. Nth(places, n) \in places /\ of[n] = all[Nth(places, n)]
    BY <1>2
  <2> QED BY <1>7, <2>1
<1>13. PICK j \in 1..(i - 1) : enriched[c][j].line = enriched[c][l].line
  <2>1. Before(enriched[c][l].line, enriched[c][i].line)
    BY <1>10, <1>11, <1>12
  <2> QED BY <1>6, <2>1 DEF NoGaps, NoGapBefore
<1>14. PICK q \in 1..(k - 1) : all[q] = <<c, j>>
  BY <1>11
<1>15. q \in places /\ q < k
  <2>1. k \in 1..Len(all) /\ q \in DOMAIN all /\ q < k
    BY <1>1, <1>8
  <2> QED BY <1>9, <1>14, <2>1
<1>16. Rank(places, k) = m
  BY <1>2, <1>10, NthFacts DEF size
<1>17. Rank(places, q) \in 1..(m - 1)
  <2>1. Rank(places, q) < Rank(places, k)
    BY <1>2, <1>15, RankFacts
  <2>2. Rank(places, q) \in 1..size
    BY <1>2, <1>15
  <2> QED BY <1>2, <1>16, <2>1, <2>2
<1>18. of[Rank(places, q)] = <<c, j>> /\ Rank(places, q) \in DOMAIN of /\ n \in DOMAIN of
  BY <1>2, <1>3, <1>14, <1>15
<1>19. Copied(c)[Rank(places, q)] = Copied(c)[n]
  BY <1>4, <1>12, <1>13, <1>18
<1> QED BY <1>17, <1>19

\* However often C2, C3 and REPARTITION restart, in the middle of a block too, what they
\* repeat never puts a line of a client before one that it follows for the first time.
THEOREM ClientOrderIsKept == Spec => []ClientOrderKept
<1>1. StreamInv => ClientOrderKept
  <2> SUFFICES ASSUME StreamInv, Happened({"skip"}) = {}, NEW c \in Clients
               PROVE  /\ InOrder(LinesOf(normalized[c])) /\ InOrder(LinesOf(enriched[c]))
                      /\ (\A i \in DOMAIN enriched[c] : <<"detector", c, i>> \notin dropped) =>
                           InOrder(Copied(c))
    BY DEF ClientOrderKept
  <2>1. NoGaps(normalized[c], c) /\ NoGaps(enriched[c], c)
    BY DEF StreamInv, LinesInOrder
  <2>2. normalized[c] \in Seq(Normalized(c)) /\ enriched[c] \in Seq(EnrichedLines(c))
    BY DEF StreamInv, StreamTypes
  <2>3. \A r \in Normalized(c) : r.line \in LogLines(c)
    BY DEF Normalized
  <2>4. \A r \in EnrichedLines(c) : r.line \in LogLines(c)
    BY DEF EnrichedLines
  <2>5. InOrder(LinesOf(normalized[c]))
    BY <2>1, <2>2, <2>3, NoGapsIsInOrder
  <2>6. InOrder(LinesOf(enriched[c]))
    BY <2>1, <2>2, <2>4, NoGapsIsInOrder
  <2> QED BY <2>1, <2>5, <2>6, CopiedInOrder
<1> QED BY <1>1, StreamInvariant, PTL

-----------------------------------------------------------------------------
(* Sums of counts.                                                         *)

\* The recursion that a sum over the finite set S unfolds to.
SumsUp(g, f, S) ==
  g = [s \in SUBSET S |->
         IF s = {} THEN 0
         ELSE LET x == CHOOSE x \in s : TRUE IN f[x] + g[s \ {x}]]

\* SumFunction is the value at its domain of some function of that recursion, if there is one.
LEMMA SumUnfolds ==
  ASSUME NEW S, NEW f, DOMAIN f = S, NEW h, SumsUp(h, f, S)
  PROVE  \E g : SumsUp(g, f, S) /\ Detector!SumFunction(f) = g[S]
<1> DEFINE g == CHOOSE g : SumsUp(g, f, S)
<1>1. SumsUp(g, f, S)
  BY Zenon
<1>2. Detector!SumFunction(f) = g[S]
  BY DEF Detector!SumFunction, Detector!SumFunctionOnSet, Detector!FoldFunctionOnSet, Detector!MapThenFoldSet, SumsUp
<1> QED BY <1>1, <1>2

\* That recursion has one solution, when S is finite.
LEMMA SumIsUnique ==
  ASSUME NEW S, IsFiniteSet(S), NEW f, NEW g, SumsUp(g, f, S), NEW h, SumsUp(h, f, S)
  PROVE  g[S] = h[S]
<1> DEFINE Differ == {s \in SUBSET S : g[s] # h[s]}
           Sizes == {Cardinality(s) : s \in Differ}
<1>1. \A s \in SUBSET S : IsFiniteSet(s) /\ Cardinality(s) \in Nat
  BY FS_Subset, FS_CardinalityType
<1>2. SUFFICES ASSUME Differ # {} PROVE FALSE
  BY Zenon
<1>3. Sizes \subseteq Nat /\ Sizes # {}
  BY <1>1, <1>2
<1>4. PICK n \in Sizes : \A m \in Sizes : ~ (<<m, n>> \in OpToRel(<, Nat))
  BY <1>3, NatLessThanWellFounded, WFMin
<1>5. PICK s \in Differ : Cardinality(s) = n
  BY <1>4
<1> DEFINE x == CHOOSE x \in s : TRUE
<1>6. s \in SUBSET S /\ g[s] # h[s] /\ IsFiniteSet(s) /\ Cardinality(s) \in Nat
  BY <1>1, <1>5
<1>7. s # {}
  BY <1>6 DEF SumsUp
<1>8. x \in s
  BY <1>7
<1>9. g[s] = f[x] + g[s \ {x}] /\ h[s] = f[x] + h[s \ {x}]
  BY <1>6, <1>7, Zenon DEF SumsUp
<1>10. s \ {x} \in Differ
  BY <1>6, <1>9
<1>11. Cardinality(s \ {x}) = Cardinality(s) - 1
  BY <1>6, <1>8, FS_RemoveElement
<1>12. Cardinality(s \ {x}) \in Sizes
  BY <1>10
<1>13. Cardinality(s \ {x}) \in Nat /\ Cardinality(s \ {x}) < n
  BY <1>3, <1>5, <1>6, <1>11, <1>12
<1> HIDE DEF Sizes, x
<1> QED BY <1>3, <1>4, <1>12, <1>13 DEF OpToRel

\* The sizes of the parts of a finite set add up to the size of what they cover.
LEMMA PartsAddUp ==
  ASSUME NEW I, IsFiniteSet(I), NEW key, NEW S, IsFiniteSet(S),
         NEW f, DOMAIN f = S, \A s \in S : f[s] = Cardinality({i \in I : key[i] = s})
  PROVE  Detector!SumFunction(f) = Cardinality({i \in I : key[i] \in S})
<1> DEFINE Over(s) == {i \in I : key[i] \in s}
           h == [s \in SUBSET S |-> Cardinality(Over(s))]
<1>1. \A s : IsFiniteSet(Over(s)) /\ Cardinality(Over(s)) \in Nat
  BY FS_Subset, FS_CardinalityType
<1>2. ASSUME NEW s \in SUBSET S, s = {} PROVE h[s] = 0
  <2>1. Over(s) = {}
    BY <1>2
  <2> QED BY <1>2, <2>1, FS_EmptySet
<1>3. ASSUME NEW s \in SUBSET S, NEW x \in s PROVE h[s] = f[x] + h[s \ {x}]
  <2> DEFINE one == {i \in I : key[i] = x}
             rest == Over(s \ {x})
  <2>1. one = Over({x}) /\ Over(s) = one \cup rest /\ one \cap rest = {}
    OBVIOUS
  <2>2. /\ IsFiniteSet(one) /\ Cardinality(one) \in Nat
        /\ IsFiniteSet(rest) /\ Cardinality(rest) \in Nat
    BY <1>1, <2>1
  <2>3. f[x] = Cardinality(one) /\ h[s] = Cardinality(Over(s)) /\ h[s \ {x}] = Cardinality(rest)
    OBVIOUS
  <2> HIDE DEF one, rest, Over, h
  <2>4. Cardinality(one \cup rest) = Cardinality(one) + Cardinality(rest) - Cardinality({})
    BY <2>1, <2>2, FS_Union
  <2> QED BY <2>1, <2>2, <2>3, <2>4, FS_EmptySet
<1>4. SumsUp(h, f, S)
  <2>1. ASSUME NEW s \in SUBSET S
        PROVE  h[s] = IF s = {} THEN 0
                      ELSE LET x == CHOOSE x \in s : TRUE IN f[x] + h[s \ {x}]
    <3> DEFINE x == CHOOSE x \in s : TRUE
    <3>1. CASE s = {}
      BY <1>2, <3>1, Zenon
    <3>2. CASE s # {}
      <4>1. x \in s
        BY <3>2
      <4>2. h[s] = f[x] + h[s \ {x}]
        BY <1>3, <4>1, Zenon
      <4> QED BY <3>2, <4>2, Zenon
    <3> QED BY <3>1, <3>2
  <2> DEFINE k == [s \in SUBSET S |->
                     IF s = {} THEN 0
                     ELSE LET x == CHOOSE x \in s : TRUE IN f[x] + h[s \ {x}]]
  <2>2. h = k
    <3>1. DOMAIN h = SUBSET S /\ h = [s \in SUBSET S |-> h[s]]
      OBVIOUS
    <3> HIDE DEF h
    <3> QED BY <2>1, <3>1, Zenon
  <2> HIDE DEF h
  <2> QED BY <2>2, Zenon DEF SumsUp
<1>5. PICK g : SumsUp(g, f, S) /\ Detector!SumFunction(f) = g[S]
  <2> HIDE DEF h
  <2> QED BY <1>4, SumUnfolds, Zenon
<1>6. g[S] = h[S]
  <2> HIDE DEF h
  <2> QED BY <1>4, <1>5, SumIsUnique
<1>7. h[S] = Cardinality(Over(S))
  OBVIOUS
<1> QED BY <1>5, <1>6, <1>7, Zenon

\* What is taken off for the parts S of a finite set leaves the size of the rest.
LEMMA TakenOff ==
  ASSUME NEW I, IsFiniteSet(I), NEW key, NEW S, IsFiniteSet(S),
         NEW f, DOMAIN f = S, \A s \in S : f[s] = Cardinality({i \in I : key[i] = s})
  PROVE  Cardinality(I) - Detector!SumFunction(f) = Cardinality({i \in I : key[i] \notin S})
<1> DEFINE out == {i \in I : key[i] \in S}
           left == {i \in I : key[i] \notin S}
<1>1. Detector!SumFunction(f) = Cardinality(out)
  BY PartsAddUp
<1>2. IsFiniteSet(out) /\ Cardinality(out) \in Nat /\ IsFiniteSet(left) /\ Cardinality(left) \in Nat
  BY FS_Subset, FS_CardinalityType
<1>3. I = out \cup left /\ out \cap left = {}
  OBVIOUS
<1> HIDE DEF out, left
<1>4. Cardinality(I) = Cardinality(out) + Cardinality(left) - Cardinality({})
  BY <1>2, <1>3, FS_Union
<1>5. Cardinality(I) - Detector!SumFunction(f) = Cardinality(left)
  BY <1>1, <1>2, <1>4, FS_EmptySet
<1> QED BY <1>5 DEF left

-----------------------------------------------------------------------------
(* What a window, or a bucket, counts of the requests K of the log L.      *)

Fields == {"domain", "buckets", "requests", "ips", "latest", "lastAlert", "lastProcessed"}

\* A window: a record of those fields.
IsWindow(w) == DOMAIN w = Fields /\ w = [f \in DOMAIN w |-> w[f]]

From(K, L, c) == {i \in K : L[i].client = c}

Tallies(r, K, L) ==
  /\ r.requests = Cardinality(K)
  /\ r.ips = [c \in Clients |-> Cardinality(From(K, L, c))]

Bucket == [requests : Nat, ips : [Clients -> Nat]]

OfSecond(K, L, s) == {i \in K : L[i].second = s}

\* The totals of window w tally the requests K, and each bucket those of its second.
Exact(w, K, L) ==
  /\ IsFiniteSet(K) /\ IsFiniteSet(DOMAIN w.buckets) /\ DOMAIN w.buckets \subseteq Int
  /\ Tallies(w, K, L)
  /\ \A s \in DOMAIN w.buckets :
       w.buckets[s] \in Bucket /\ Tallies(w.buckets[s], OfSecond(K, L, s), L)
  /\ \A i \in K : L[i].second \in DOMAIN w.buckets

\* A window or a bucket: a record with the two totals, and perhaps other fields.
HasTotals(r) == {"requests", "ips"} \subseteq DOMAIN r /\ r = [x \in DOMAIN r |-> r[x]]

\* Counting a request tallies one more.
LEMMA CountedTallies ==
  ASSUME NEW L, NEW K, IsFiniteSet(K), NEW i, i \notin K, NEW c \in Clients, L[i].client = c,
         NEW r, HasTotals(r), Tallies(r, K, L)
  PROVE  Tallies(Detector!Counted(r, c), K \cup {i}, L)
<1> DEFINE more == K \cup {i}
           d == Detector!Counted(r, c)
<1>1. /\ d.requests = r.requests + 1
      /\ d.ips = [b \in Clients |-> IF b = c THEN r.ips[c] + 1 ELSE r.ips[b]]
  <2>1. DOMAIN r.ips = Clients
    BY DEF Tallies
  <2>2. d.requests = r.requests + 1 /\ d.ips = [r.ips EXCEPT ![c] = r.ips[c] + 1]
    BY DEF Detector!Counted, HasTotals
  <2> HIDE DEF d
  <2> QED BY <2>1, <2>2
<1> HIDE DEF d
<1>2. d.requests = Cardinality(more)
  <2>1. d.requests = Cardinality(K) + 1
    BY <1>1 DEF Tallies
  <2> QED BY <2>1, FS_AddElement
<1>3. ASSUME NEW b \in Clients PROVE d.ips[b] = Cardinality(From(more, L, b))
  <2>1. IsFiniteSet(From(K, L, b)) /\ i \notin From(K, L, b)
    BY FS_Subset DEF From
  <2>2. r.ips[b] = Cardinality(From(K, L, b))
    BY DEF Tallies
  <2>3. CASE b = c
    <3>1. From(more, L, b) = From(K, L, b) \cup {i}
      BY <2>3 DEF From
    <3>2. d.ips[b] = Cardinality(From(K, L, b)) + 1
      BY <1>1, <2>2, <2>3
    <3> QED BY <2>1, <3>1, <3>2, FS_AddElement
  <2>4. CASE b # c
    <3>1. From(more, L, b) = From(K, L, b)
      BY <2>4 DEF From
    <3> QED BY <1>1, <2>2, <2>4, <3>1
  <2> QED BY <2>3, <2>4
<1>4. d.ips = [b \in Clients |-> Cardinality(From(more, L, b))]
  <2>1. d.ips = [b \in Clients |-> d.ips[b]]
    BY <1>1
  <2> HIDE DEF more
  <2> QED BY <1>3, <2>1
<1> HIDE DEF more
<1>5. Tallies(d, more, L)
  BY <1>2, <1>4 DEF Tallies
<1> QED BY <1>5 DEF d, more

\* A bucket stays one when a request is counted in it.
LEMMA CountedIsBucket ==
  ASSUME NEW b \in Bucket, NEW c \in Clients
  PROVE  Detector!Counted(b, c) \in Bucket
<1> DEFINE d == Detector!Counted(b, c)
<1>1. DOMAIN b = {"requests", "ips"} /\ b.requests \in Nat /\ b.ips \in [Clients -> Nat]
  BY DEF Bucket
<1>2. /\ DOMAIN d = {"requests", "ips"} /\ d = [x \in DOMAIN d |-> d[x]]
      /\ d.requests = b.requests + 1 /\ d.ips = [b.ips EXCEPT ![c] = b.ips[c] + 1]
  BY <1>1 DEF Detector!Counted
<1>3. d.requests \in Nat /\ d.ips \in [Clients -> Nat]
  <2> HIDE DEF d
  <2> QED BY <1>1, <1>2
<1> HIDE DEF d
<1>4. d = [requests |-> d.requests, ips |-> d.ips]
  BY <1>2
<1>5. d \in Bucket
  BY <1>3, <1>4 DEF Bucket
<1> QED BY <1>5 DEF d

\* Adding a request that the window did not cover leaves it exact.
LEMMA AddIsExact ==
  ASSUME NEW w, IsWindow(w), NEW L, NEW K, Exact(w, K, L),
         NEW i, i \notin K, NEW t \in Int, NEW c \in Clients, L[i].second = t, L[i].client = c
  PROVE  Exact(Detector!Add(w, t, c), K \cup {i}, L)
<1> DEFINE empty == [requests |-> 0, ips |-> [b \in Clients |-> 0]]
           old == IF t \in DOMAIN w.buckets THEN w.buckets[t] ELSE empty
           buckets == [s \in DOMAIN w.buckets \cup {t} |->
                         IF s = t THEN Detector!Counted(old, c) ELSE w.buckets[s]]
           d == Detector!Counted(w, c)
           more == K \cup {i}
           a == [d EXCEPT !.buckets = buckets]
<1>1. /\ IsFiniteSet(K) /\ IsFiniteSet(DOMAIN w.buckets) /\ DOMAIN w.buckets \subseteq Int
      /\ Tallies(w, K, L)
      /\ \A s \in DOMAIN w.buckets :
           w.buckets[s] \in Bucket /\ Tallies(w.buckets[s], OfSecond(K, L, s), L)
      /\ \A j \in K : L[j].second \in DOMAIN w.buckets
  BY DEF Exact
<1>2. DOMAIN w = Fields /\ w = [x \in DOMAIN w |-> w[x]] /\ {"requests", "ips"} \subseteq DOMAIN w
  BY DEF IsWindow, Fields
<1>3. Tallies(d, more, L) /\ d = [x \in DOMAIN w |-> d[x]]
  <2>1. HasTotals(w)
    BY <1>2 DEF HasTotals
  <2>2. Tallies(Detector!Counted(w, c), K \cup {i}, L)
    BY <1>1, <2>1, CountedTallies
  <2>3. Detector!Counted(w, c) = [x \in DOMAIN w |-> Detector!Counted(w, c)[x]]
    BY <1>2 DEF Detector!Counted
  <2> QED BY <2>2, <2>3
<1>4. a.buckets = buckets /\ a.requests = d.requests /\ a.ips = d.ips
  <2> HIDE DEF d, buckets
  <2> QED BY <1>2, <1>3 DEF Fields
<1>5. Tallies(a, more, L)
  <2> HIDE DEF d, a, more
  <2> QED BY <1>3, <1>4 DEF Tallies
<1>6. /\ IsFiniteSet(more) /\ IsFiniteSet(DOMAIN buckets) /\ DOMAIN buckets \subseteq Int
      /\ DOMAIN buckets = DOMAIN w.buckets \cup {t}
  <2>1. IsFiniteSet(more) /\ IsFiniteSet(DOMAIN w.buckets \cup {t})
    BY <1>1, FS_AddElement
  <2>2. DOMAIN buckets = DOMAIN w.buckets \cup {t}
    OBVIOUS
  <2> HIDE DEF buckets, more
  <2> QED BY <1>1, <2>1, <2>2
<1>7. old \in Bucket /\ Tallies(old, OfSecond(K, L, t), L)
  <2>1. CASE t \in DOMAIN w.buckets
    BY <1>1, <2>1
  <2>2. CASE t \notin DOMAIN w.buckets
    <3>1. OfSecond(K, L, t) = {}
      BY <1>1, <2>2 DEF OfSecond
    <3>2. \A b \in Clients : From({}, L, b) = {}
      BY DEF From
    <3>3. Tallies(empty, {}, L)
      BY <3>2, FS_EmptySet DEF Tallies
    <3>4. empty \in Bucket
      BY DEF Bucket
    <3> QED BY <2>2, <3>1, <3>3, <3>4
  <2> QED BY <2>1, <2>2
<1>8. Detector!Counted(old, c) \in Bucket
  <2> HIDE DEF old
  <2> QED BY <1>7, CountedIsBucket
<1>9. Tallies(Detector!Counted(old, c), OfSecond(K, L, t) \cup {i}, L)
  <2>1. IsFiniteSet(OfSecond(K, L, t)) /\ i \notin OfSecond(K, L, t)
    BY <1>1, FS_Subset DEF OfSecond
  <2> HIDE DEF old
  <2>2. HasTotals(old)
    BY <1>7 DEF Bucket, HasTotals
  <2> QED BY <1>7, <2>1, <2>2, CountedTallies
<1>10. OfSecond(more, L, t) = OfSecond(K, L, t) \cup {i}
  BY DEF OfSecond
<1>11. \A s : s # t => OfSecond(more, L, s) = OfSecond(K, L, s)
  BY DEF OfSecond
<1>12. ASSUME NEW s \in DOMAIN buckets
       PROVE  buckets[s] \in Bucket /\ Tallies(buckets[s], OfSecond(more, L, s), L)
  <2>1. CASE s = t
    <3>1. buckets[s] = Detector!Counted(old, c)
      BY <2>1
    <3> HIDE DEF old, buckets, more
    <3> QED BY <1>8, <1>9, <1>10, <2>1, <3>1
  <2>2. CASE s # t
    <3>1. buckets[s] = w.buckets[s] /\ s \in DOMAIN w.buckets
      BY <2>2
    <3> HIDE DEF old, buckets, more
    <3> QED BY <1>1, <1>11, <2>2, <3>1
  <2> QED BY <2>1, <2>2
<1>13. \A j \in more : L[j].second \in DOMAIN buckets
  BY <1>1, <1>6
<1>14. Detector!Add(w, t, c) = a
  BY Zenon DEF Detector!Add
<1> HIDE DEF a, more, buckets
<1>15. Exact(a, more, L)
  BY <1>4, <1>5, <1>6, <1>12, <1>13 DEF Exact
<1> QED BY <1>14, <1>15 DEF more

\* Expiring the buckets up to oldest takes off exactly the requests up to oldest.
LEMMA ExpireIsExact ==
  ASSUME NEW w, IsWindow(w), NEW L, NEW K, Exact(w, K, L), NEW oldest \in Int
  PROVE  Exact(Detector!Expire(w, oldest), {i \in K : L[i].second > oldest}, L)
<1> DEFINE gone == {s \in DOMAIN w.buckets : s <= oldest}
           left == DOMAIN w.buckets \ gone
           rest == {i \in K : L[i].second > oldest}
           key == [i \in K |-> L[i].second]
           requests == [s \in gone |-> w.buckets[s].requests]
           ips(c) == [s \in gone |-> w.buckets[s].ips[c]]
           buckets == [s \in left |-> w.buckets[s]]
           a == Detector!Expire(w, oldest)
<1>1. /\ IsFiniteSet(K) /\ IsFiniteSet(DOMAIN w.buckets) /\ DOMAIN w.buckets \subseteq Int
      /\ Tallies(w, K, L)
      /\ \A s \in DOMAIN w.buckets :
           w.buckets[s] \in Bucket /\ Tallies(w.buckets[s], OfSecond(K, L, s), L)
      /\ \A i \in K : L[i].second \in DOMAIN w.buckets
  BY DEF Exact
<1>2. /\ a.buckets = buckets
      /\ a.requests = w.requests - Detector!SumFunction(requests)
      /\ a.ips = [c \in Clients |-> w.ips[c] - Detector!SumFunction(ips(c))]
  BY DEF Detector!Expire, IsWindow, Fields
<1>3. IsFiniteSet(gone) /\ IsFiniteSet(left) /\ left \subseteq Int
  BY <1>1, FS_Subset
<1>4. \A i \in K : key[i] \notin gone <=> i \in rest
  BY <1>1
<1>5. \A s \in gone : Tallies(w.buckets[s], OfSecond(K, L, s), L)
  BY <1>1
<1>6. a.requests = Cardinality(rest)
  <2>1. ASSUME NEW s \in gone PROVE requests[s] = Cardinality({i \in K : key[i] = s})
    <3>1. OfSecond(K, L, s) = {i \in K : key[i] = s}
      BY DEF OfSecond
    <3>2. requests[s] = w.buckets[s].requests
      OBVIOUS
    <3> HIDE DEF requests, gone, key
    <3> QED BY <1>5, <3>1, <3>2 DEF Tallies
  <2>2. DOMAIN requests = gone
    OBVIOUS
  <2>3. {i \in K : key[i] \notin gone} = rest
    <3> HIDE DEF gone, key
    <3> QED BY <1>4 DEF rest
  <2> HIDE DEF requests, gone, key, rest, a
  <2>4. Cardinality(K) - Detector!SumFunction(requests) = Cardinality({i \in K : key[i] \notin gone})
    BY <1>1, <1>3, <2>1, <2>2, TakenOff
  <2> QED BY <1>1, <1>2, <2>3, <2>4 DEF Tallies
<1>7. ASSUME NEW c \in Clients PROVE a.ips[c] = Cardinality(From(rest, L, c))
  <2> DEFINE I == From(K, L, c)
             f == ips(c)
  <2>1. ASSUME NEW s \in gone PROVE f[s] = Cardinality({i \in I : key[i] = s})
    <3>1. From(OfSecond(K, L, s), L, c) = {i \in I : key[i] = s}
      BY DEF OfSecond, From
    <3>2. f[s] = w.buckets[s].ips[c]
      OBVIOUS
    <3>3. w.buckets[s].ips[c] = Cardinality(From(OfSecond(K, L, s), L, c))
      <4> HIDE DEF gone
      <4> QED BY <1>5 DEF Tallies
    <3> HIDE DEF f, gone, key, I
    <3> QED BY <3>1, <3>2, <3>3
  <2>2. DOMAIN f = gone /\ IsFiniteSet(I) /\ I \subseteq K
    BY <1>1, FS_Subset DEF From
  <2>3. {i \in I : key[i] \notin gone} = From(rest, L, c)
    <3> HIDE DEF gone, key, rest
    <3> QED BY <1>4 DEF From, rest
  <2>4. a.ips[c] = w.ips[c] - Detector!SumFunction(f)
    <3> HIDE DEF a, gone
    <3> QED BY <1>2
  <2> HIDE DEF f, gone, key, rest, a, I
  <2>5. Cardinality(I) - Detector!SumFunction(f) = Cardinality({i \in I : key[i] \notin gone})
    BY <1>3, <2>1, <2>2, TakenOff
  <2>6. w.ips[c] = Cardinality(I)
    BY <1>1 DEF Tallies, I
  <2> QED BY <2>3, <2>4, <2>5, <2>6
<1>8. a.ips = [c \in Clients |-> Cardinality(From(rest, L, c))]
  <2>1. a.ips = [c \in Clients |-> a.ips[c]]
    BY <1>2
  <2> HIDE DEF a, rest
  <2> QED BY <1>7, <2>1
<1>9. ASSUME NEW s \in left
      PROVE  /\ s \in DOMAIN w.buckets /\ buckets[s] = w.buckets[s]
             /\ OfSecond(rest, L, s) = OfSecond(K, L, s)
  <2>1. s \in DOMAIN w.buckets /\ s > oldest /\ buckets[s] = w.buckets[s]
    BY <1>1
  <2>2. OfSecond(rest, L, s) = OfSecond(K, L, s)
    BY <2>1 DEF OfSecond
  <2> QED BY <2>1, <2>2
<1>10. IsFiniteSet(rest) /\ DOMAIN buckets = left
  BY <1>1, FS_Subset
<1>11. \A i \in rest : L[i].second \in left
  BY <1>1
<1> HIDE DEF a, rest, left, buckets
<1>12. Tallies(a, rest, L)
  BY <1>6, <1>8 DEF Tallies
<1>13. \A s \in left : buckets[s] \in Bucket /\ Tallies(buckets[s], OfSecond(rest, L, s), L)
  BY <1>1, <1>9
<1>14. Exact(a, rest, L)
  BY <1>2, <1>3, <1>10, <1>11, <1>12, <1>13 DEF Exact
<1> QED BY <1>14 DEF a, rest

\* Only the totals and the buckets of a window count.
LEMMA SameTotals ==
  ASSUME NEW w, NEW L, NEW K, Exact(w, K, L),
         NEW v, v.buckets = w.buckets, v.requests = w.requests, v.ips = w.ips
  PROVE  Exact(v, K, L)
<1>1. Tallies(v, K, L)
  BY DEF Exact, Tallies
<1> QED BY <1>1 DEF Exact

\* Only the requests that are counted count.
LEMMA SameRequests ==
  ASSUME NEW w, NEW L, NEW K, Exact(w, K, L), NEW M, \A i \in K : M[i] = L[i]
  PROVE  Exact(w, K, M)
<1>1. ASSUME NEW J \in SUBSET K, NEW r, Tallies(r, J, L) PROVE Tallies(r, J, M)
  <2>1. \A c : From(J, L, c) = From(J, M, c)
    BY DEF From
  <2>2. [c \in Clients |-> Cardinality(From(J, L, c))] = [c \in Clients |-> Cardinality(From(J, M, c))]
    BY <2>1
  <2> QED BY <1>1, <2>2, Zenon DEF Tallies
<1>2. \A s : OfSecond(K, L, s) \in SUBSET K /\ OfSecond(K, L, s) = OfSecond(K, M, s)
  BY DEF OfSecond
<1>3. Tallies(w, K, M)
  BY <1>1 DEF Exact
<1>4. \A s \in DOMAIN w.buckets :
        w.buckets[s] \in Bucket /\ Tallies(w.buckets[s], OfSecond(K, M, s), M)
  BY <1>1, <1>2 DEF Exact
<1>5. \A i \in K : M[i].second \in DOMAIN w.buckets
  BY DEF Exact
<1> QED BY <1>3, <1>4, <1>5 DEF Exact

\* The requests of V that the window still covers.
Covered(w, V, L) == {i \in V : L[i].second > w.latest - WindowSeconds}

\* The window w is that of the requests V of the log L: the newest is its latest second.
WindowOf(w, V, L) ==
  /\ IsWindow(w) /\ w.latest \in Int
  /\ Exact(w, Covered(w, V, L), L)
  /\ \A i \in V : L[i].second <= w.latest
  /\ IF V = {} THEN w.latest = Detector!Never ELSE \E i \in V : L[i].second = w.latest

\* Sliding the window over one request more keeps it exact, however late the request is.
LEMMA SlideIsExact ==
  ASSUME NEW w, NEW V, NEW L, WindowOf(w, V, L), \A j \in V : L[j].second \in Nat,
         NEW i, i \notin V, NEW s \in Nat, NEW c \in Clients, L[i].second = s, L[i].client = c
  PROVE  /\ WindowOf(Detector!Slide(w, s, c), V \cup {i}, L)
         /\ Detector!Slide(w, s, c).domain = w.domain
         /\ Detector!Slide(w, s, c).lastAlert = w.lastAlert
<1> DEFINE latest == Detector!Latest(w, s)
           oldest == latest - WindowSeconds
           expired == Detector!Expire(w, oldest)
           slid == [expired EXCEPT !.latest = latest, !.lastProcessed = clock]
           K == Covered(w, V, L)
           rest == {j \in K : L[j].second > oldest}
           all == V \cup {i}
           v == Detector!Slide(w, s, c)
<1>1. IsWindow(w) /\ w.latest \in Int /\ WindowSeconds \in Nat
  BY StreamAssumption DEF WindowOf
<1>2. latest \in Int /\ oldest \in Int /\ latest >= w.latest /\ latest >= s
  BY <1>1 DEF Detector!Latest
<1>3. rest = {j \in V : L[j].second > oldest}
  BY <1>1, <1>2 DEF Covered
<1>4. Exact(expired, rest, L)
  <2> HIDE DEF oldest, K
  <2> QED BY <1>1, <1>2, ExpireIsExact DEF K, WindowOf
<1>5. IsWindow(expired) /\ expired.domain = w.domain /\ expired.lastAlert = w.lastAlert
  BY <1>1 DEF IsWindow, Fields, Detector!Expire
<1>6. /\ slid.buckets = expired.buckets /\ slid.requests = expired.requests
      /\ slid.ips = expired.ips /\ slid.latest = latest /\ slid.domain = w.domain
      /\ slid.lastAlert = w.lastAlert /\ IsWindow(slid)
  <2> HIDE DEF expired, latest
  <2> QED BY <1>5 DEF IsWindow, Fields
<1>7. Exact(slid, rest, L)
  <2> HIDE DEF slid, rest, expired
  <2> QED BY <1>4, <1>6, SameTotals
<1>8. v = IF s <= oldest THEN slid ELSE Detector!Add(slid, s, c)
  BY Zenon DEF Detector!Slide
<1>9. /\ IsWindow(v) /\ v.latest = latest /\ v.domain = w.domain /\ v.lastAlert = w.lastAlert
      /\ Exact(v, {j \in all : L[j].second > oldest}, L)
  <2>1. CASE s > oldest
    <3>1. v = Detector!Add(slid, s, c)
      BY <1>2, <1>8, <2>1
    <3>2. /\ IsWindow(Detector!Add(slid, s, c))
          /\ Detector!Add(slid, s, c).latest = slid.latest
          /\ Detector!Add(slid, s, c).domain = slid.domain
          /\ Detector!Add(slid, s, c).lastAlert = slid.lastAlert
      <4> HIDE DEF slid
      <4> QED BY <1>6 DEF Detector!Add, Detector!Counted, IsWindow, Fields
    <3>3. i \notin rest
      BY <1>3
    <3>4. Exact(Detector!Add(slid, s, c), rest \cup {i}, L)
      <4> HIDE DEF slid, rest
      <4>1. IsWindow(slid) /\ Exact(slid, rest, L) /\ i \notin rest /\ s \in Int
        BY <1>6, <1>7, <3>3
      <4> QED BY <4>1, AddIsExact
    <3>5. {j \in all : L[j].second > oldest} = rest \cup {i}
      BY <1>3, <2>1
    <3> HIDE DEF v, slid, rest, latest, oldest, all
    <3> QED BY <1>6, <3>1, <3>2, <3>4, <3>5
  <2>2. CASE ~ (s > oldest)
    <3>1. v = slid
      BY <1>2, <1>8, <2>2
    <3>2. {j \in all : L[j].second > oldest} = rest
      BY <1>3, <2>2
    <3> HIDE DEF v, slid, rest, latest, oldest, all
    <3> QED BY <1>6, <1>7, <3>1, <3>2
  <2> QED BY <2>1, <2>2
<1>10. \A j \in all : L[j].second <= latest
  <2>1. ASSUME NEW j \in V PROVE L[j].second <= latest
    <3>1. L[j].second <= w.latest /\ L[j].second \in Nat
      BY DEF WindowOf
    <3> HIDE DEF latest
    <3> QED BY <1>1, <1>2, <3>1
  <2> QED BY <1>2, <2>1
<1>11. all # {} /\ \E j \in all : L[j].second = latest
  <2>1. CASE s > w.latest
    <3>1. latest = s
      BY <2>1 DEF Detector!Latest
    <3> QED BY <3>1
  <2>2. CASE ~ (s > w.latest)
    <3>1. latest = w.latest
      BY <2>2 DEF Detector!Latest
    <3>2. V # {}
      BY <1>1, <2>2 DEF WindowOf, Detector!Never
    <3> QED BY <3>1, <3>2 DEF WindowOf
  <2> QED BY <2>1, <2>2
<1>12. Covered(v, all, L) = {j \in all : L[j].second > oldest}
  <2> HIDE DEF v, all
  <2> QED BY <1>9 DEF Covered
<1> HIDE DEF v, all, latest, oldest
<1>13. WindowOf(v, all, L)
  BY <1>2, <1>9, <1>10, <1>11, <1>12 DEF WindowOf
<1> QED BY <1>9, <1>13 DEF v, all

\* A new window is that of no request.
LEMMA NewIsExact ==
  ASSUME NEW d, NEW L
  PROVE  /\ WindowOf(Detector!NewWindow(d), {}, L)
         /\ Detector!NewWindow(d).domain = d /\ Detector!NewWindow(d).lastAlert = Detector!Never
<1> DEFINE w == Detector!NewWindow(d)
<1>1. /\ IsWindow(w) /\ w.domain = d /\ w.lastAlert = Detector!Never /\ w.latest = Detector!Never
      /\ DOMAIN w.buckets = {} /\ w.requests = 0 /\ w.ips = [c \in Clients |-> 0]
  BY DEF Detector!NewWindow, Detector!EmptyFunction, IsWindow, Fields
<1> HIDE DEF w
<1>2. Covered(w, {}, L) = {} /\ \A c \in Clients : From({}, L, c) = {}
  BY DEF Covered, From
<1>3. IsFiniteSet({}) /\ Cardinality({}) = 0
  BY FS_EmptySet
<1>4. Tallies(w, {}, L)
  BY <1>1, <1>2, <1>3 DEF Tallies
<1>5. Exact(w, {}, L)
  BY <1>1, <1>3, <1>4 DEF Exact
<1>6. w.latest \in Int
  BY <1>1 DEF Detector!Never
<1>7. WindowOf(w, {}, L)
  BY <1>1, <1>2, <1>5, <1>6 DEF WindowOf
<1> QED BY <1>1, <1>7 DEF w

\* The window of requests that are the same in another log is the same window.
LEMMA SameWindow ==
  ASSUME NEW w, NEW V, NEW L, WindowOf(w, V, L), NEW M, \A i \in V : M[i] = L[i]
  PROVE  WindowOf(w, V, M)
<1>1. Covered(w, V, M) = Covered(w, V, L) /\ \A i \in Covered(w, V, L) : M[i] = L[i]
  BY DEF Covered
<1>2. Exact(w, Covered(w, V, L), M)
  BY <1>1, SameRequests DEF WindowOf
<1>3. \A i \in V : M[i].second = L[i].second
  OBVIOUS
<1> QED BY <1>1, <1>2, <1>3 DEF WindowOf

-----------------------------------------------------------------------------
(* An ordered map, as the sequence of its items.                           *)

\* The field f is the key of the items.
OneEach(s, f) == \A m, n \in DOMAIN s : s[m][f] = s[n][f] => m = n

\* A part of the items, in their order, is such a map, too.
LEMMA PartOfMap ==
  ASSUME NEW T, NEW s \in Seq(T), NEW S \in SUBSET DOMAIN s, NEW f, OneEach(s, f)
  PROVE  /\ At(s, S) \in Seq(T) /\ OneEach(At(s, S), f)
         /\ \A n \in DOMAIN At(s, S) : \E k \in S : At(s, S)[n] = s[k]
<1>1. /\ IsFiniteSet(S) /\ S \subseteq Int /\ Cardinality(S) \in Nat
      /\ At(s, S) \in Seq(T) /\ DOMAIN At(s, S) = 1..Cardinality(S)
      /\ \A n \in 1..Cardinality(S) : Nth(S, n) \in S /\ At(s, S)[n] = s[Nth(S, n)]
  BY AtFacts DEF At
<1>2. \A m, n \in 1..Cardinality(S) : Nth(S, m) = Nth(S, n) => m = n
  <2>1. \A n \in 1..Cardinality(S) : Rank(S, Nth(S, n)) = n
    BY <1>1, NthFacts
  <2> QED BY <2>1
<1>3. OneEach(At(s, S), f)
  <2> SUFFICES ASSUME NEW m \in 1..Cardinality(S), NEW n \in 1..Cardinality(S),
                      At(s, S)[m][f] = At(s, S)[n][f]
               PROVE  m = n
    BY <1>1 DEF OneEach
  <2>1. Nth(S, m) \in DOMAIN s /\ Nth(S, n) \in DOMAIN s /\ s[Nth(S, m)][f] = s[Nth(S, n)][f]
    BY <1>1
  <2> QED BY <1>2, <2>1 DEF OneEach
<1> QED BY <1>1, <1>3

\* The map t ends with the item x, behind items of s.
EndsWith(t, x, s, f) ==
  /\ OneEach(t, f) /\ t[Len(t)] = x
  /\ \A n \in DOMAIN t : n = Len(t) \/ \E k \in DOMAIN s : t[n] = s[k]

\* A new item behind the others, with a key of its own, and the first one removed.
LEMMA LastOfMap ==
  ASSUME NEW T, NEW s \in Seq(T), NEW x \in T, NEW f, OneEach(s, f),
         \A n \in DOMAIN s : s[n][f] # x[f], NEW all, all = Append(s, x)
  PROVE  /\ all \in Seq(T) /\ Len(all) = Len(s) + 1 /\ EndsWith(all, x, s, f)
         /\ Len(s) > 0 =>
              Tail(all) \in Seq(T) /\ Len(Tail(all)) = Len(s) /\ EndsWith(Tail(all), x, s, f)
<1>1. Len(s) \in Nat /\ DOMAIN s = 1..Len(s)
  BY LenProperties
<1>2. /\ all \in Seq(T) /\ Len(all) = Len(s) + 1 /\ DOMAIN all = 1..(Len(s) + 1)
      /\ \A n \in 1..Len(s) : all[n] = s[n]
      /\ all[Len(s) + 1] = x
  BY <1>1, AppendProperties, LenProperties
<1>3. \A n \in DOMAIN all : n \in DOMAIN s \/ n = Len(all)
  BY <1>1, <1>2
<1>4. OneEach(all, f)
  <2> SUFFICES ASSUME NEW m \in DOMAIN all, NEW n \in DOMAIN all, all[m][f] = all[n][f] PROVE m = n
    BY DEF OneEach
  <2>1. CASE m \in DOMAIN s /\ n \in DOMAIN s
    BY <1>1, <1>2, <2>1 DEF OneEach
  <2>2. CASE m = Len(all) \/ n = Len(all)
    BY <1>1, <1>2, <1>3, <2>2
  <2> QED BY <1>3, <2>1, <2>2
<1>5. \A n \in DOMAIN all : n = Len(all) \/ \E k \in DOMAIN s : all[n] = s[k]
  BY <1>1, <1>2, <1>3
<1>6. ASSUME Len(s) > 0
      PROVE  Tail(all) \in Seq(T) /\ Len(Tail(all)) = Len(s) /\ EndsWith(Tail(all), x, s, f)
  <2>1. all # <<>>
    BY <1>1, <1>2
  <2>2. /\ Tail(all) \in Seq(T) /\ Len(Tail(all)) = Len(all) - 1
        /\ \A n \in 1..Len(Tail(all)) : Tail(all)[n] = all[n + 1]
    BY <1>2, <2>1, HeadTailProperties
  <2>3. /\ Len(Tail(all)) = Len(s) /\ DOMAIN Tail(all) = 1..Len(s)
        /\ \A n \in 1..Len(s) : n + 1 \in DOMAIN all /\ Tail(all)[n] = all[n + 1]
    BY <1>1, <1>2, <2>2, LenProperties
  <2>4. OneEach(Tail(all), f)
    <3> SUFFICES ASSUME NEW m \in 1..Len(s), NEW n \in 1..Len(s), all[m + 1][f] = all[n + 1][f]
                 PROVE  m = n
      BY <2>3 DEF OneEach
    <3>1. m + 1 = n + 1
      BY <1>4, <2>3 DEF OneEach
    <3> QED BY <1>1, <3>1
  <2>5. Tail(all)[Len(s)] = x
    BY <1>1, <1>2, <1>6, <2>3
  <2>6. ASSUME NEW n \in 1..Len(s), n # Len(s) PROVE \E k \in DOMAIN s : Tail(all)[n] = s[k]
    <3>0. PICK k : k = Len(s)
      OBVIOUS
    <3>1. n + 1 \in 1..Len(s)
      <4>1. k \in Nat /\ n \in 1..k /\ n # k
        BY <1>1, <2>6, <3>0
      <4>2. n + 1 \in 1..k
        BY <4>1
      <4> QED BY <3>0, <4>2
    <3>2. Tail(all)[n] = s[n + 1]
      BY <1>2, <2>3, <3>1
    <3> QED BY <1>1, <3>1, <3>2
  <2> QED BY <2>2, <2>3, <2>4, <2>5, <2>6 DEF EndsWith
<1> QED BY <1>2, <1>4, <1>5, <1>6 DEF EndsWith

\* The windows after w was used: it and old ones of other domains, one for each domain.
LEMMA KeptWindows ==
  ASSUME StreamInv, OneEach(windows, "domain"), NEW w, NEW kept, kept = Detector!Kept(w)
  PROVE  /\ OneEach(kept, "domain")
         /\ \A n \in DOMAIN kept :
              \/ kept[n] = w
              \/ \E m \in DOMAIN windows : windows[m].domain # w.domain /\ kept[n] = windows[m]
<1> DEFINE W == {windows[n] : n \in DOMAIN windows}
           S == DOMAIN windows \ Detector!Place(w.domain)
           Other(x) == \E m \in DOMAIN windows : windows[m].domain # w.domain /\ x = windows[m]
<1>0. PICK T : T = W \cup {w}
  OBVIOUS
<1>1. windows \in Seq(W) /\ W \subseteq T /\ w \in T
  BY <1>0 DEF StreamInv, StreamTypes
<1>2. S \in SUBSET DOMAIN windows /\ \A n \in S : windows[n].domain # w.domain
  BY DEF Detector!Place
<1> HIDE DEF W, S
<1>3. windows \in Seq(T)
  BY <1>1, SeqMonotonic
<1>4. PICK others : others = At(windows, S)
  OBVIOUS
<1>5. /\ others \in Seq(T) /\ OneEach(others, "domain")
      /\ \A n \in DOMAIN others : \E k \in S : others[n] = windows[k]
  BY <1>2, <1>3, <1>4, PartOfMap
<1>6. /\ \A n \in DOMAIN others : others[n]["domain"] # w["domain"]
      /\ \A n \in DOMAIN others : Other(others[n])
  BY <1>2, <1>5
<1>7. PICK all : all = Append(others, w)
  OBVIOUS
<1>8. Len(others) \in Nat /\ MaxTrackedDomains \in Nat \ {0}
  BY <1>5, LenProperties, StreamAssumption
<1>9. /\ all \in Seq(T) /\ Len(all) = Len(others) + 1 /\ EndsWith(all, w, others, "domain")
      /\ Len(others) > 0 => Tail(all) \in Seq(T) /\ EndsWith(Tail(all), w, others, "domain")
  <2>1. PICK f : f = "domain"
    OBVIOUS
  <2>2. OneEach(others, f) /\ \A n \in DOMAIN others : others[n][f] # w[f]
    BY <1>5, <1>6, <2>1
  <2>3. others \in Seq(T) /\ w \in T /\ all = Append(others, w)
    BY <1>1, <1>5, <1>7
  <2>4. all \in Seq(T) /\ EndsWith(all, w, others, f)
    BY <2>2, <2>3, LastOfMap
  <2>5. Len(others) > 0 => Tail(all) \in Seq(T) /\ EndsWith(Tail(all), w, others, f)
    BY <2>2, <2>3, LastOfMap
  <2>6. Len(all) = Len(others) + 1
    BY <2>3, AppendProperties
  <2> QED BY <2>1, <2>4, <2>5, <2>6
<1>10. PICK bound : bound = IF Len(all) > MaxTrackedDomains THEN Tail(all) ELSE all
  OBVIOUS
<1>11. /\ bound \in Seq(T) /\ OneEach(bound, "domain")
       /\ \A n \in DOMAIN bound : bound[n] = w \/ Other(bound[n])
  <2>1. CASE Len(all) > MaxTrackedDomains
    <3>1. Len(others) > 0 /\ bound = Tail(all)
      BY <1>8, <1>9, <1>10, <2>1
    <3> HIDE DEF Other
    <3> QED BY <1>6, <1>9, <3>1 DEF EndsWith
  <2>2. CASE ~ (Len(all) > MaxTrackedDomains)
    <3>1. bound = all
      BY <1>10, <2>2
    <3> HIDE DEF Other
    <3> QED BY <1>6, <1>9, <3>1 DEF EndsWith
  <2> QED BY <2>1, <2>2
<1>12. PICK recent : recent = {n \in DOMAIN bound : bound[n].lastProcessed >= clock - 2 * WindowSeconds}
  OBVIOUS
<1>13. /\ OneEach(At(bound, recent), "domain")
       /\ \A n \in DOMAIN At(bound, recent) : At(bound, recent)[n] = w \/ Other(At(bound, recent)[n])
  <2>1. recent \in SUBSET DOMAIN bound
    BY <1>12
  <2>2. /\ OneEach(At(bound, recent), "domain")
        /\ \A n \in DOMAIN At(bound, recent) : \E k \in recent : At(bound, recent)[n] = bound[k]
    BY <1>11, <2>1, PartOfMap
  <2> HIDE DEF Other
  <2> QED BY <1>11, <2>1, <2>2
<1>14. kept = IF processed + 1 < CleanupEvery THEN bound ELSE At(bound, recent)
  <2>1. Detector!At(windows, DOMAIN windows \ Detector!Place(w.domain)) = others
    BY <1>4, SameAt DEF S
  <2>2. Detector!At(bound, recent) = At(bound, recent)
    BY SameAt
  <2>3. Detector!Kept(w) = IF processed + 1 < CleanupEvery THEN bound ELSE Detector!At(bound, recent)
    BY <1>7, <1>10, <1>12, <2>1 DEF Detector!Kept
  <2> QED BY <2>2, <2>3
<1> QED BY <1>11, <1>13, <1>14

-----------------------------------------------------------------------------
(* The topics only grow, and so do the requests that DDOS has seen.        *)

TopicsGrow ==
  /\ \A c \in Clients : Grown(normalized[c], normalized'[c]) /\ Grown(enriched[c], enriched'[c])
  /\ \A d \in Domains : Grown(byDomain[d], byDomain'[d])

\* Whatever a step does, what is in a topic stays where it is.
LEMMA StepGrows == StreamInv /\ [Next]_vars => TopicsGrow
<1> SUFFICES ASSUME StreamInv, [Next]_vars PROVE TopicsGrow
  OBVIOUS
<1>1. /\ \A c \in Clients : Len(normalized[c]) \in Nat /\ Len(enriched[c]) \in Nat
      /\ \A d \in Domains : byDomain[d] \in Seq(Clients \X Nat) /\ Len(byDomain[d]) \in Nat
  BY LenProperties DEF StreamInv, StreamTypes
<1>2. ASSUME normalized' = normalized PROVE \A c \in Clients : Grown(normalized[c], normalized'[c])
  BY <1>1, <1>2 DEF Grown
<1>3. ASSUME enriched' = enriched PROVE \A c \in Clients : Grown(enriched[c], enriched'[c])
  BY <1>1, <1>3 DEF Grown
<1>4. ASSUME byDomain' = byDomain PROVE \A d \in Domains : Grown(byDomain[d], byDomain'[d])
  BY <1>1, <1>4 DEF Grown
<1>5. CASE ParsingStep
  <2>1. ParsingDone /\ UNCHANGED <<enriched, byDomain>>
    BY <1>5, C2Step DEF ParsingStep
  <2> QED BY <1>3, <1>4, <2>1 DEF ParsingDone, NormalizedGrows, TopicsGrow
<1>6. CASE EnrichmentStep
  <2>1. EnrichmentDone /\ UNCHANGED <<normalized, byDomain>>
    BY <1>6, C3Step
       DEF EnrichmentStep, C3!Next, C3!Enrich, C3!EnrichCommit, C3!EnrichRestart
  <2> QED BY <1>2, <1>4, <2>1 DEF EnrichmentDone, EnrichedGrows, TopicsGrow
<1>7. CASE DetectionStep
  <2>1. UNCHANGED <<normalized, enriched>>
    BY <1>7 DEF DetectionStep, Detector!Next, Detector!Process, Detector!Commit, Detector!Restart
  <2>2. \/ byDomain' = byDomain
        \/ \E c, e : byDomain' = [byDomain EXCEPT ![DomainOf[c]] = Append(@, e)]
    BY <1>7 DEF DetectionStep, Detector!Next, Detector!Process, Detector!Commit, Detector!Restart,
                Detector!Copy, Detector!Analyse
  <2>3. ASSUME NEW c, NEW e, byDomain' = [byDomain EXCEPT ![DomainOf[c]] = Append(@, e)],
               NEW d \in Domains
        PROVE  Grown(byDomain[d], byDomain'[d])
    <3>1. CASE d = DomainOf[c]
      <4>1. PICK t : t = Append(byDomain[d], e)
        OBVIOUS
      <4>2. byDomain'[d] = t
        BY <2>3, <3>1, <4>1 DEF StreamInv, StreamTypes
      <4>3. Len(t) = Len(byDomain[d]) + 1 /\ \A n \in 1..Len(byDomain[d]) : t[n] = byDomain[d][n]
        BY <1>1, <4>1
      <4> QED BY <1>1, <4>2, <4>3 DEF Grown
    <3>2. CASE d # DomainOf[c]
      <4>1. byDomain'[d] = byDomain[d]
        BY <2>3, <3>2 DEF StreamInv, StreamTypes
      <4> QED BY <1>1, <4>1 DEF Grown
    <3> QED BY <3>1, <3>2
  <2> QED BY <1>2, <1>3, <1>4, <2>1, <2>2, <2>3 DEF TopicsGrow
<1>8. CASE Tick \/ UNCHANGED vars
  <2>1. UNCHANGED <<normalized, enriched, byDomain>>
    BY <1>8 DEF Tick, vars, topics
  <2> QED BY <1>2, <1>3, <1>4, <2>1 DEF TopicsGrow
<1> QED BY <1>5, <1>6, <1>7, <1>8 DEF Next

\* The requests for domain d: their times and addresses.
Request == [second : Nat, client : Clients]
Requests(d) ==
  [j \in DOMAIN byDomain[d] |-> [second |-> Detector!Second(byDomain[d][j]),
                                 client |-> byDomain[d][j][1]]]

\* The place in log.enriched to which a record of domain d refers.
LEMMA PlaceOfRequest ==
  ASSUME StreamInv, NEW d \in Domains, NEW j \in DOMAIN byDomain[d]
  PROVE  /\ byDomain[d][j][1] \in Clients
         /\ byDomain[d][j][2] \in DOMAIN enriched[byDomain[d][j][1]]
         /\ enriched[byDomain[d][j][1]][byDomain[d][j][2]] \in EnrichedLines(byDomain[d][j][1])
         /\ Requests(d)[j] \in Request
         /\ Requests(d)[j] = [second |-> Detector!Second(byDomain[d][j]), client |-> byDomain[d][j][1]]
<1>0. PICK c \in Clients : \E i \in DOMAIN enriched[c] : byDomain[d][j] = <<c, i>>
  BY DEF StreamInv, CopiesInOrder, CopyInOrder
<1>1. PICK i \in DOMAIN enriched[c] : byDomain[d][j] = <<c, i>>
  BY <1>0
<1>2. enriched[c] \in Seq(EnrichedLines(c))
  BY DEF StreamInv, StreamTypes
<1>3. enriched[c][i] \in EnrichedLines(c)
  BY <1>2, LenProperties, ElementOfSeq
<1>4. Detector!Second(<<c, i>>) \in Nat
  <2>1. PICK r : r = enriched[c][i]
    OBVIOUS
  <2>2. r.time \in Nat \cup {NoTime} /\ r.timestamp \in Nat
    BY <1>3, <2>1, StreamAssumption DEF EnrichedLines
  <2>3. Detector!Second(<<c, i>>) = IF r.time = NoTime THEN r.timestamp ELSE r.time
    BY <2>1 DEF Detector!Second
  <2> QED BY <2>2, <2>3
<1> QED BY <1>1, <1>3, <1>4 DEF Requests, Request

\* A record keeps its place, what it refers to and its time.
LEMMA RequestStays ==
  ASSUME StreamInv, TopicsGrow, NEW d \in Domains, NEW j \in DOMAIN byDomain[d]
  PROVE  /\ byDomain'[d][j] = byDomain[d][j]
         /\ enriched'[byDomain[d][j][1]][byDomain[d][j][2]]
              = enriched[byDomain[d][j][1]][byDomain[d][j][2]]
         /\ Detector!Second(byDomain[d][j])' = Detector!Second(byDomain[d][j])
<1>1. byDomain'[d][j] = byDomain[d][j]
  <2>1. byDomain[d] \in Seq(Clients \X Nat)
    BY DEF StreamInv, StreamTypes
  <2>2. j \in 1..Len(byDomain[d])
    BY <2>1, LenProperties
  <2> QED BY <2>2 DEF TopicsGrow, Grown
<1>2. PICK c, i : c = byDomain[d][j][1] /\ i = byDomain[d][j][2]
  OBVIOUS
<1>3. enriched'[c][i] = enriched[c][i]
  <2>1. c \in Clients /\ i \in DOMAIN enriched[c]
    BY <1>2, PlaceOfRequest
  <2>2. enriched[c] \in Seq(EnrichedLines(c))
    BY <2>1 DEF StreamInv, StreamTypes
  <2>3. i \in 1..Len(enriched[c])
    BY <2>1, <2>2, LenProperties
  <2> QED BY <2>1, <2>3 DEF TopicsGrow, Grown
<1>4. Detector!Second(byDomain[d][j])' = Detector!Second(byDomain[d][j])
  BY <1>1, <1>2, <1>3 DEF Detector!Second
<1> QED BY <1>1, <1>2, <1>3, <1>4

\* So do the requests.
LEMMA RequestsStay ==
  ASSUME StreamInv, StreamInv', TopicsGrow, NEW d \in Domains, NEW j \in DOMAIN byDomain[d]
  PROVE  j \in DOMAIN byDomain'[d] /\ Requests(d)'[j] = Requests(d)[j]
<1>1. j \in DOMAIN byDomain'[d]
  <2>1. byDomain[d] \in Seq(Clients \X Nat) /\ byDomain'[d] \in Seq(Clients \X Nat)
    BY DEF StreamInv, StreamTypes
  <2>2. /\ DOMAIN byDomain[d] = 1..Len(byDomain[d]) /\ Len(byDomain[d]) \in Nat
        /\ DOMAIN byDomain'[d] = 1..Len(byDomain'[d]) /\ Len(byDomain'[d]) \in Nat
    BY <2>1, LenProperties
  <2> QED BY <2>2 DEF TopicsGrow, Grown
<1>2. Requests(d)'[j] = [second |-> Detector!Second(byDomain[d][j])', client |-> byDomain'[d][j][1]]
  BY <1>1 DEF Requests
<1>3. Requests(d)[j] = [second |-> Detector!Second(byDomain[d][j]), client |-> byDomain[d][j][1]]
  BY DEF Requests
<1> QED BY <1>1, <1>2, <1>3, RequestStays

-----------------------------------------------------------------------------
(* The windows of DDOS and its alerts.                                     *)

\* The records of domain d handled with an alert.
Alerted(d) == {j \in 1..pos[d] : <<d, j>> \in alerts}

\* The window w is that of the requests V of the log L, its last alert that of one of A.
Right(w, V, L, A) ==
  /\ WindowOf(w, V, L)
  /\ w.lastAlert # Detector!Never => \E j \in A : L[j].second = w.lastAlert

\* There is a window for each domain at most, and it is right.
DomainWindows ==
  /\ OneEach(windows, "domain")
  /\ seen \in [Domains -> SUBSET Nat] /\ \A d \in Domains : seen[d] \subseteq 1..pos[d]
  /\ \A n \in DOMAIN windows : windows[n].domain \in Domains
  /\ \A n \in DOMAIN windows, d \in Domains :
       windows[n].domain = d => Right(windows[n], seen[d], Requests(d), Alerted(d))

\* More alerts and another log of the same requests leave a window right.
LEMMA RightStays ==
  ASSUME NEW w, NEW V, NEW L, NEW A, Right(w, V, L, A),
         NEW M, NEW B, A \subseteq B, \A j \in V \cup A : M[j] = L[j]
  PROVE  Right(w, V, M, B)
<1>1. WindowOf(w, V, M)
  BY SameWindow DEF Right
<1> QED BY <1>1 DEF Right

\* The addresses counted by a window are those of its requests.
LEMMA Addresses ==
  ASSUME NEW w, NEW L, NEW K, Exact(w, K, L), \A i \in K : L[i] \in Request
  PROVE  \A c : c \in Clients /\ w.ips[c] > 0 <=> \E i \in K : c = L[i].client
<1>1. IsFiniteSet(K) /\ w.ips = [c \in Clients |-> Cardinality(From(K, L, c))]
  BY DEF Exact, Tallies
<1>2. ASSUME NEW c \in Clients PROVE w.ips[c] > 0 <=> c \in {L[i].client : i \in K}
  <2>1. IsFiniteSet(From(K, L, c)) /\ Cardinality(From(K, L, c)) \in Nat
    BY <1>1, FS_Subset, FS_CardinalityType DEF From
  <2>2. Cardinality(From(K, L, c)) = 0 <=> From(K, L, c) = {}
    BY <2>1, FS_EmptySet
  <2>3. w.ips[c] > 0 <=> From(K, L, c) # {}
    BY <1>1, <2>1, <2>2
  <2> QED BY <2>3 DEF From
<1>3. \A i \in K : L[i].client \in Clients
  BY DEF Request
<1> QED BY <1>2, <1>3

\* The cardinality that the instance of Ddos speaks of.
LEMMA DetectorCardinality == \A S : Detector!Cardinality(S) = Cardinality(S)
BY DEF Detector!Cardinality, Cardinality

\* What the analysis of record i of domain p, behind the records V, does.
Verdict(p, i, w, V, alert) ==
  /\ alert \in BOOLEAN
  /\ V \subseteq 1..pos[p] /\ i = pos[p] + 1 /\ i \in DOMAIN byDomain[p] /\ i \notin V
  /\ WindowOf(w, V \cup {i}, Requests(p)) /\ w.domain = p
  /\ w.lastAlert # Detector!Never => \E j \in Alerted(p) : Requests(p)[j].second = w.lastAlert
  /\ alert <=>
       /\ Requests(p)[i].second > w.latest - WindowSeconds
       /\ w.requests >= RequestThreshold
       /\ Cardinality({c \in Clients : w.ips[c] > 0}) >= UniqueIpThreshold
       /\ ~(w.lastAlert # Detector!Never /\ Requests(p)[i].second - w.lastAlert < Cooldown)
  /\ windows' = Detector!Kept(IF alert THEN [w EXCEPT !.lastAlert = Requests(p)[i].second] ELSE w)
  /\ alerts' = IF alert THEN alerts \cup {<<p, i>>} ELSE alerts
  /\ seen' = [seen EXCEPT ![p] = V \cup {i}]
  /\ \/ V = seen[p] /\ lost' = lost
     \/ V = {} /\ lost' = [lost EXCEPT ![p] = i - 1]
  /\ pos' = [pos EXCEPT ![p] = i] /\ UNCHANGED <<enriched, byDomain, dropped, faults>>

\* The requests of domain d that lie before its position are in its partition.
LEMMA HandledAreRecords ==
  ASSUME StreamInv, NEW d \in Domains
  PROVE  /\ pos[d] \in Nat /\ pos[d] <= Len(byDomain[d]) /\ Len(byDomain[d]) \in Nat
         /\ DOMAIN byDomain[d] = 1..Len(byDomain[d]) /\ 1..pos[d] \subseteq DOMAIN byDomain[d]
         /\ \A j \in 1..pos[d] : Requests(d)[j] \in Request
<1>1. d \in Partitions /\ d \notin Clients
  BY StreamAssumption DEF Partitions
<1>2. pos[d] \in Nat /\ pos[d] <= Len(byDomain[d])
  BY <1>1, InputFacts
<1>3. byDomain[d] \in Seq(Clients \X Nat)
  BY DEF StreamInv, StreamTypes
<1>4. Len(byDomain[d]) \in Nat /\ DOMAIN byDomain[d] = 1..Len(byDomain[d])
  BY <1>3, LenProperties
<1>5. 1..pos[d] \subseteq DOMAIN byDomain[d]
  BY <1>2, <1>4
<1> QED BY <1>2, <1>4, <1>5, PlaceOfRequest

\* The window of a domain, or a new one.
LEMMA WindowFacts ==
  ASSUME DomainWindows, NEW p \in Domains,
         NEW V, V = IF Detector!Place(p) = {} THEN {} ELSE seen[p]
  PROVE  /\ Right(Detector!Window(p), V, Requests(p), Alerted(p))
         /\ Detector!Window(p).domain = p
         /\ V \subseteq 1..pos[p]
<1>1. CASE Detector!Place(p) = {}
  <2>1. Detector!Window(p) = Detector!NewWindow(p) /\ V = {}
    BY <1>1 DEF Detector!Window
  <2> QED BY <2>1, NewIsExact DEF Right
<1>2. CASE Detector!Place(p) # {}
  <2>1. PICK n \in DOMAIN windows : Detector!Window(p) = windows[n] /\ windows[n].domain = p
    BY <1>2 DEF Detector!Window, Detector!Place
  <2>2. V = seen[p]
    BY <1>2
  <2> QED BY <2>1, <2>2 DEF DomainWindows
<1> QED BY <1>1, <1>2

\* Role DDOS analyses a record.
LEMMA AnalyseEffect ==
  ASSUME StreamInv, DomainWindows, NEW p \in Domains, Detector!Process(p),
         Detector!Analyse(p, pos[p] + 1, Detector!Input(p)[pos[p] + 1]),
         UNCHANGED <<dropped, faults>>
  PROVE  \E i, w, V, alert : Verdict(p, i, w, V, alert)
<1>1. PICK i : i = pos[p] + 1
  OBVIOUS
<1>2. PICK e : e = byDomain[p][i]
  OBVIOUS
<1>3. Detector!Input(p) = byDomain[p]
  BY StreamAssumption DEF Detector!Input
<1>4. /\ i \in DOMAIN byDomain[p] /\ pos[p] \in Nat /\ pos' = [pos EXCEPT ![p] = i]
      /\ UNCHANGED <<enriched, byDomain>>
  <2>1. /\ pos[p] < Len(Detector!Input(p)) /\ pos' = [pos EXCEPT ![p] = pos[p] + 1]
        /\ enriched' = enriched /\ byDomain' = byDomain
    BY DEF Detector!Process, Detector!Analyse
  <2>2. pos[p] \in Nat /\ Len(byDomain[p]) \in Nat /\ DOMAIN byDomain[p] = 1..Len(byDomain[p])
    BY HandledAreRecords
  <2> QED BY <1>1, <1>3, <2>1, <2>2
<1>5. PICK L : L = Requests(p)
  OBVIOUS
<1>6. PICK s, c : s = Detector!Second(e) /\ c = e[1]
  OBVIOUS
<1>7. L[i].second = s /\ L[i].client = c /\ s \in Nat /\ c \in Clients
  <2>1. /\ Requests(p)[i] \in Request
        /\ Requests(p)[i] = [second |-> Detector!Second(byDomain[p][i]), client |-> byDomain[p][i][1]]
    BY <1>4, PlaceOfRequest
  <2>2. L[i] \in Request /\ L[i] = [second |-> s, client |-> c]
    BY <1>2, <1>5, <1>6, <2>1
  <2> QED BY <2>2 DEF Request
<1>8. PICK V : V = IF Detector!Place(p) = {} THEN {} ELSE seen[p]
  OBVIOUS
<1>9. PICK before : before = Detector!Window(p)
  OBVIOUS
<1>10. /\ Right(before, V, L, Alerted(p)) /\ before.domain = p /\ V \subseteq 1..pos[p]
  BY <1>5, <1>8, <1>9, WindowFacts
<1>11. i \notin V /\ \A j \in V : L[j].second \in Nat
  <2>1. i \notin 1..pos[p]
    BY <1>1, <1>4
  <2> QED BY <1>5, <1>10, <2>1, HandledAreRecords DEF Request
<1>12. PICK w : w = Detector!Slide(before, s, c)
  OBVIOUS
<1>13. WindowOf(w, V \cup {i}, L) /\ w.domain = p /\ w.lastAlert = before.lastAlert
  <2>1. /\ WindowOf(before, V, L) /\ i \notin V /\ \A j \in V : L[j].second \in Nat
        /\ s \in Nat /\ c \in Clients /\ L[i].second = s /\ L[i].client = c
    BY <1>7, <1>10, <1>11 DEF Right
  <2>2. /\ WindowOf(Detector!Slide(before, s, c), V \cup {i}, L)
        /\ Detector!Slide(before, s, c).domain = before.domain
        /\ Detector!Slide(before, s, c).lastAlert = before.lastAlert
    BY <2>1, SlideIsExact, ZenonT(60)
  <2>3. before.domain = p
    BY <1>10
  <2> QED BY <1>12, <2>2, <2>3
<1>14. PICK alert : alert = Detector!Alerts(before, w, s)
  OBVIOUS
<1>15. alert \in BOOLEAN
  BY <1>14 DEF Detector!Alerts
<1>16. /\ windows' = Detector!Kept(IF alert THEN [w EXCEPT !.lastAlert = s] ELSE w)
       /\ alerts' = IF alert THEN alerts \cup {<<p, i>>} ELSE alerts
       /\ seen' = [seen EXCEPT ![p] = (IF Detector!Place(p) = {} THEN {} ELSE @) \cup {i}]
       /\ lost' = IF Detector!Place(p) = {} THEN [lost EXCEPT ![p] = i - 1] ELSE lost
  <2>1. Detector!Analyse(p, i, e)
    BY <1>1, <1>2, <1>3
  <2>2. w = Detector!Slide(Detector!Window(p), Detector!Second(e), e[1])
    BY <1>6, <1>9, <1>12
  <2>3. alert = Detector!Alerts(Detector!Window(p), w, s)
    BY <1>9, <1>14
  <2>8. Detector!Slide(Detector!Window(p), Detector!Second(e), e[1]) = w /\ Detector!Second(e) = s
    BY <1>6, <2>2
  <2> DEFINE W == Detector!Slide(Detector!Window(p), Detector!Second(e), e[1])
             A == Detector!Alerts(Detector!Window(p), W, Detector!Second(e))
  <2>9. /\ windows' = Detector!Kept(IF A THEN [W EXCEPT !.lastAlert = Detector!Second(e)] ELSE W)
        /\ alerts' = IF A THEN alerts \cup {<<p, i>>} ELSE alerts
        /\ seen' = [seen EXCEPT ![p] = (IF Detector!Place(p) = {} THEN {} ELSE @) \cup {i}]
        /\ lost' = IF Detector!Place(p) = {} THEN [lost EXCEPT ![p] = i - 1] ELSE lost
    <3>1. windows' = Detector!Kept(IF A THEN [W EXCEPT !.lastAlert = Detector!Second(e)] ELSE W)
      BY <2>1 DEF Detector!Analyse
    <3>2. alerts' = IF A THEN alerts \cup {<<p, i>>} ELSE alerts
      BY <2>1 DEF Detector!Analyse
    <3>3. seen' = [seen EXCEPT ![p] = (IF Detector!Place(p) = {} THEN {} ELSE @) \cup {i}]
      BY <2>1 DEF Detector!Analyse
    <3>4. lost' = IF Detector!Place(p) = {} THEN [lost EXCEPT ![p] = i - 1] ELSE lost
      BY <2>1 DEF Detector!Analyse
    <3> QED BY <3>1, <3>2, <3>3, <3>4
  <2>10. A = alert /\ W = w
    BY <2>3, <2>8
  <2> HIDE DEF W, A
  <2>4. windows' = Detector!Kept(IF alert THEN [w EXCEPT !.lastAlert = s] ELSE w)
    BY <2>8, <2>9, <2>10
  <2>5. alerts' = IF alert THEN alerts \cup {<<p, i>>} ELSE alerts
    BY <2>9, <2>10
  <2>6. seen' = [seen EXCEPT ![p] = (IF Detector!Place(p) = {} THEN {} ELSE @) \cup {i}]
    BY <2>9
  <2>7. lost' = IF Detector!Place(p) = {} THEN [lost EXCEPT ![p] = i - 1] ELSE lost
    BY <2>9
  <2> QED BY <2>4, <2>5, <2>6, <2>7
<1>17. seen' = [seen EXCEPT ![p] = V \cup {i}] /\ seen'[p] = V \cup {i}
  BY <1>8, <1>16 DEF DomainWindows
<1>18. \/ V = seen[p] /\ lost' = lost
       \/ V = {} /\ lost' = [lost EXCEPT ![p] = i - 1]
  BY <1>8, <1>16
<1>22. alert <=> /\ s > w.latest - WindowSeconds
                 /\ w.requests >= RequestThreshold
                 /\ Cardinality({b \in Clients : w.ips[b] > 0}) >= UniqueIpThreshold
                 /\ ~(w.lastAlert # Detector!Never /\ s - w.lastAlert < Cooldown)
  <2>1. alert <=> Detector!Alerts(before, w, s)
    BY <1>14
  <2> HIDE DEF Detector!Never
  <2>2. Detector!Alerts(before, w, s) <=>
          /\ s > w.latest - WindowSeconds
          /\ w.requests >= RequestThreshold
          /\ Cardinality({b \in Clients : w.ips[b] > 0}) >= UniqueIpThreshold
          /\ ~(before.lastAlert # Detector!Never /\ s - before.lastAlert < Cooldown)
    <3>1. Detector!Cardinality({b \in Clients : w.ips[b] > 0}) = Cardinality({b \in Clients : w.ips[b] > 0})
      BY DetectorCardinality
    <3>2. Detector!Alerts(before, w, s) <=>
          /\ s > w.latest - WindowSeconds
          /\ w.requests >= RequestThreshold
          /\ Detector!Cardinality({b \in Clients : w.ips[b] > 0}) >= UniqueIpThreshold
          /\ ~(before.lastAlert # Detector!Never /\ s - before.lastAlert < Cooldown)
      BY DEF Detector!Alerts
    <3> QED BY <3>1, <3>2
  <2>3. w.lastAlert = before.lastAlert
    BY <1>13
  <2> QED BY <2>1, <2>2, <2>3, Zenon
<1>23. w.lastAlert # Detector!Never => \E j \in Alerted(p) : L[j].second = w.lastAlert
  BY <1>10, <1>13 DEF Right
<1>24. Verdict(p, i, w, V, alert)
  <2>1. Requests(p) = L /\ L[i].second = s
    BY <1>5, <1>7
  <2>2. /\ windows' = Detector!Kept(IF alert THEN [w EXCEPT !.lastAlert = L[i].second] ELSE w)
        /\ alert <=> /\ L[i].second > w.latest - WindowSeconds
                     /\ w.requests >= RequestThreshold
                     /\ Cardinality({b \in Clients : w.ips[b] > 0}) >= UniqueIpThreshold
                     /\ ~(w.lastAlert # Detector!Never /\ L[i].second - w.lastAlert < Cooldown)
    BY <1>16, <1>22, <2>1
  <2>3. \/ V = seen[p] /\ lost' = lost
        \/ V = {} /\ lost' = [lost EXCEPT ![p] = i - 1]
    BY <1>18
  <2>4. alerts' = IF alert THEN alerts \cup {<<p, i>>} ELSE alerts
    BY <1>16
  <2>5. seen' = [seen EXCEPT ![p] = V \cup {i}]
    BY <1>17
  <2> HIDE DEF Detector!Never
  <2>6. /\ alert \in BOOLEAN
        /\ V \subseteq 1..pos[p] /\ i = pos[p] + 1 /\ i \in DOMAIN byDomain[p] /\ i \notin V
        /\ WindowOf(w, V \cup {i}, L) /\ w.domain = p
        /\ w.lastAlert # Detector!Never => \E j \in Alerted(p) : L[j].second = w.lastAlert
        /\ pos' = [pos EXCEPT ![p] = i] /\ UNCHANGED <<enriched, byDomain, dropped, faults>>
    BY <1>1, <1>4, <1>10, <1>11, <1>13, <1>15, <1>23
  <2> QED BY <2>1, <2>2, <2>3, <2>4, <2>5, <2>6, Zenon DEF Verdict
<1> QED BY <1>24

\* Noting an alert in a window changes nothing else of it.
LEMMA AlertedWindow ==
  ASSUME NEW w, NEW V, NEW L, WindowOf(w, V, L), NEW s, NEW v, v = [w EXCEPT !.lastAlert = s]
  PROVE  WindowOf(v, V, L) /\ v.domain = w.domain /\ v.lastAlert = s
<1>1. DOMAIN w = Fields /\ w = [f \in DOMAIN w |-> w[f]]
  BY DEF WindowOf, IsWindow
<1>2. /\ DOMAIN v = Fields /\ v = [f \in DOMAIN v |-> v[f]] /\ v.lastAlert = s
      /\ v.domain = w.domain /\ v.buckets = w.buckets /\ v.requests = w.requests
      /\ v.ips = w.ips /\ v.latest = w.latest
  BY <1>1 DEF Fields
<1>3. Covered(v, V, L) = Covered(w, V, L)
  BY <1>2 DEF Covered
<1>4. Exact(v, Covered(v, V, L), L)
  BY <1>2, <1>3 DEF WindowOf, Exact, Tallies
<1>5. IsWindow(v)
  BY <1>2 DEF IsWindow
<1> QED BY <1>2, <1>4, <1>5 DEF WindowOf

\* The window of the domain of the record is right after its analysis, and so are the others.
LEMMA AnalysisKeepsWindows ==
  ASSUME StreamInv, StreamInv', DomainWindows, NEW p \in Domains,
         NEW i, NEW w, NEW V, NEW alert, Verdict(p, i, w, V, alert)
  PROVE  DomainWindows'
<1>1. /\ pos \in [Partitions -> Nat] /\ p \in Partitions /\ \A d \in Domains : d \in Partitions
  BY DEF StreamInv, StreamTypes, Partitions
<1>2. \A d \in Domains : Requests(d)' = Requests(d)
  BY DEF Verdict, Requests, Detector!Second
<1>3. \A d \in Domains : 1..pos[d] \subseteq 1..pos'[d] /\ Alerted(d) \subseteq Alerted(d)'
  <2> TAKE d \in Domains
  <2>1. pos[d] \in Nat /\ pos[p] \in Nat /\ pos' = [pos EXCEPT ![p] = i] /\ i = pos[p] + 1
    BY <1>1 DEF Verdict
  <2>2. pos'[d] \in Nat /\ pos[d] <= pos'[d]
    BY <1>1, <2>1
  <2>3. alerts \subseteq alerts'
    BY DEF Verdict
  <2> QED BY <2>1, <2>2, <2>3 DEF Alerted
<1>4. pos'[p] = i /\ pos[p] \in Nat /\ i = pos[p] + 1
  BY <1>1 DEF Verdict
<1>5. PICK L : L = Requests(p)
  OBVIOUS
<1>6. PICK v : v = IF alert THEN [w EXCEPT !.lastAlert = L[i].second] ELSE w
  OBVIOUS
<1>7. Right(v, V \cup {i}, L, Alerted(p)') /\ v.domain = p
  <2>1. /\ WindowOf(w, V \cup {i}, L) /\ w.domain = p /\ alert \in BOOLEAN
        /\ w.lastAlert # Detector!Never => \E j \in Alerted(p) : L[j].second = w.lastAlert
        /\ alerts' = IF alert THEN alerts \cup {<<p, i>>} ELSE alerts
    BY <1>5 DEF Verdict
  <2>2. CASE alert
    <3>1. v = [w EXCEPT !.lastAlert = L[i].second]
      BY <1>6, <2>2
    <3>2. WindowOf(v, V \cup {i}, L) /\ v.domain = p /\ v.lastAlert = L[i].second
      BY <2>1, <3>1, AlertedWindow
    <3>3. i \in Alerted(p)'
      BY <1>4, <2>1, <2>2 DEF Alerted
    <3> QED BY <3>2, <3>3 DEF Right
  <2>3. CASE ~alert
    <3>1. v = w
      BY <1>6, <2>3
    <3> HIDE DEF Detector!Never
    <3> QED BY <1>3, <2>1, <3>1 DEF Right
  <2> QED BY <2>1, <2>2, <2>3
<1>8. /\ OneEach(windows', "domain")
      /\ \A n \in DOMAIN windows' :
           \/ windows'[n] = v
           \/ \E m \in DOMAIN windows : windows[m].domain # p /\ windows'[n] = windows[m]
  <2>1. windows' = Detector!Kept(v)
    BY <1>5, <1>6 DEF Verdict
  <2> QED BY <1>7, <2>1, KeptWindows DEF DomainWindows
<1>9. /\ seen \in [Domains -> SUBSET Nat] /\ \A d \in Domains : seen[d] \subseteq 1..pos[d]
      /\ seen' = [seen EXCEPT ![p] = V \cup {i}] /\ V \subseteq 1..pos[p]
  BY DEF DomainWindows, Verdict
<1>10. seen' \in [Domains -> SUBSET Nat] /\ \A d \in Domains : seen'[d] \subseteq 1..pos'[d]
  <2>1. PICK k : k = pos[p]
    OBVIOUS
  <2>2. k \in Nat /\ i = k + 1 /\ V \subseteq 1..k
    BY <1>4, <1>9, <2>1
  <2>3. \A j \in 1..k : j \in 1..i /\ j \in Nat
    BY <2>2
  <2>4. i \in 1..i /\ i \in Nat
    BY <2>2
  <2>5. V \cup {i} \subseteq 1..i /\ V \cup {i} \subseteq Nat
    BY <2>2, <2>3, <2>4
  <2> QED BY <1>3, <1>4, <1>9, <2>5
<1>11. ASSUME NEW n \in DOMAIN windows', NEW d, windows'[n].domain = d
       PROVE  d \in Domains /\ Right(windows'[n], seen'[d], Requests(d)', Alerted(d)')
  <2>1. CASE windows'[n] = v
    <3>1. d = p
      BY <1>7, <1>11, <2>1
    <3>2. seen'[p] = V \cup {i} /\ Requests(p)' = L
      BY <1>2, <1>5, <1>9
    <3>3. Right(v, seen'[p], Requests(p)', Alerted(p)')
      BY <1>7, <3>2
    <3> QED BY <2>1, <3>1, <3>3
  <2>2. ASSUME NEW m \in DOMAIN windows, windows[m].domain # p, windows'[n] = windows[m]
        PROVE  d \in Domains /\ Right(windows'[n], seen'[d], Requests(d)', Alerted(d)')
    <3>2. d \in Domains /\ d # p /\ Right(windows[m], seen[d], Requests(d), Alerted(d))
      BY <1>11, <2>2 DEF DomainWindows
    <3>3. seen'[d] = seen[d] /\ Requests(d)' = Requests(d)
      BY <1>2, <1>9, <3>2
    <3>4. Right(windows[m], seen[d], Requests(d)', Alerted(d)')
      BY <1>3, <3>2, <3>3, RightStays
    <3> QED BY <2>2, <3>2, <3>3, <3>4
  <2> QED BY <1>8, <2>1, <2>2
<1> QED BY <1>8, <1>10, <1>11 DEF DomainWindows

\* A step that leaves the windows and takes no record back leaves them right.
LEMMA WindowsStay ==
  ASSUME StreamInv, StreamInv', TopicsGrow, DomainWindows,
         UNCHANGED <<windows, seen>>, alerts \subseteq alerts',
         \A d \in Domains : pos'[d] \in Nat /\ pos[d] <= pos'[d]
  PROVE  DomainWindows'
<1>1. \A d \in Domains : 1..pos[d] \subseteq 1..pos'[d] /\ Alerted(d) \subseteq Alerted(d)'
  <2> TAKE d \in Domains
  <2>1. pos[d] \in Nat /\ pos'[d] \in Nat /\ pos[d] <= pos'[d]
    BY HandledAreRecords
  <2> QED BY <2>1 DEF Alerted
<1>2. ASSUME NEW n \in DOMAIN windows, NEW d, d = windows[n].domain
      PROVE  d \in Domains /\ Right(windows[n], seen[d], Requests(d)', Alerted(d)')
  <2>1. d \in Domains /\ Right(windows[n], seen[d], Requests(d), Alerted(d)) /\ seen[d] \subseteq 1..pos[d]
    BY <1>2 DEF DomainWindows
  <2>2. \A j \in seen[d] \cup Alerted(d) : Requests(d)'[j] = Requests(d)[j]
    <3> TAKE j \in seen[d] \cup Alerted(d)
    <3>1. j \in DOMAIN byDomain[d]
      BY <2>1, HandledAreRecords DEF Alerted
    <3> QED BY <2>1, <3>1, RequestsStay
  <2> QED BY <1>1, <2>1, <2>2, RightStays
<1>3. /\ \A n \in DOMAIN windows' : windows'[n].domain \in Domains
      /\ \A n \in DOMAIN windows', d \in Domains :
           windows'[n].domain = d => Right(windows'[n], seen'[d], Requests(d)', Alerted(d)')
  BY <1>2
<1>4. OneEach(windows', "domain") /\ seen' \in [Domains -> SUBSET Nat]
  BY DEF DomainWindows
<1>5. \A d \in Domains : seen'[d] \subseteq 1..pos'[d]
  BY <1>1 DEF DomainWindows
<1> QED BY <1>3, <1>4, <1>5 DEF DomainWindows

\* A step without an alert: the windows stay, and what DDOS passes it drops; or DDOS restarts.
Silent ==
  /\ alerts' = alerts /\ dropped \subseteq dropped'
  /\ \/ /\ UNCHANGED <<windows, seen, lost>>
        /\ \A d \in Domains :
             /\ pos'[d] \in Nat /\ pos[d] <= pos'[d]
             /\ \A i \in (pos[d] + 1)..pos'[d] : <<"detector", d, i>> \in dropped'
     \/ /\ windows' = <<>> /\ seen' = [d \in Domains |-> {}]
        /\ lost' = [d \in Domains |-> pos'[d]] /\ \A d \in Domains : pos'[d] \in Nat

\* A step that leaves DDOS where it is, or takes nothing but a record to drop, is silent.
LEMMA SilentSteps ==
  ASSUME StreamInv, UNCHANGED <<windows, seen, lost, alerts>>, dropped \subseteq dropped',
         \A d \in Domains :
           \/ pos'[d] = pos[d]
           \/ pos'[d] = pos[d] + 1 /\ <<"detector", d, pos[d] + 1>> \in dropped'
  PROVE  Silent
<1> SUFFICES ASSUME NEW d \in Domains
             PROVE  /\ pos'[d] \in Nat /\ pos[d] <= pos'[d]
                    /\ \A i \in (pos[d] + 1)..pos'[d] : <<"detector", d, i>> \in dropped'
  BY DEF Silent
<1>1. PICK k, m : k = pos[d] /\ m = pos'[d]
  OBVIOUS
<1>2. k \in Nat
  BY <1>1 DEF StreamInv, StreamTypes, Partitions
<1>3. CASE m = k
  <2>1. \A i \in (k + 1)..m : FALSE
    BY <1>2, <1>3
  <2> QED BY <1>1, <1>2, <1>3, <2>1
<1>4. CASE m = k + 1 /\ <<"detector", d, k + 1>> \in dropped'
  <2>1. \A i \in (k + 1)..m : i = k + 1
    BY <1>2, <1>4
  <2>2. m \in Nat /\ k <= m
    BY <1>2, <1>4
  <2> QED BY <1>1, <1>4, <2>1, <2>2
<1> QED BY <1>1, <1>3, <1>4

\* What a record does to DDOS.
LEMMA ProcessCases ==
  ASSUME StreamInv, DomainWindows, NEW p \in Partitions, Detector!Process(p)
  PROVE  \/ Silent
         \/ p \in Domains /\ \E i, w, V, alert : Verdict(p, i, w, V, alert)
<1>1. /\ pos \in [Partitions -> Nat] /\ \A d \in Domains : d \in Partitions
      /\ pos' = [pos EXCEPT ![p] = pos[p] + 1]
  BY DEF StreamInv, StreamTypes, Partitions, Detector!Process
<1>2. CASE /\ UNCHANGED <<windows, seen, lost, alerts>>
           /\ dropped' = dropped \cup {<<"detector", p, pos[p] + 1>>}
  <2>1. \A d \in Domains :
          \/ pos'[d] = pos[d]
          \/ pos'[d] = pos[d] + 1 /\ <<"detector", d, pos[d] + 1>> \in dropped'
    BY <1>1, <1>2
  <2> QED BY <1>2, <2>1, SilentSteps
<1>3. CASE UNCHANGED <<windows, seen, lost, alerts, dropped>> /\ p \in Clients
  <2>1. \A d \in Domains : pos'[d] = pos[d]
    BY <1>1, <1>3, StreamAssumption
  <2> QED BY <1>3, <2>1, SilentSteps
<1>4. CASE /\ Detector!Analyse(p, pos[p] + 1, Detector!Input(p)[pos[p] + 1])
           /\ UNCHANGED <<dropped, faults>>
  <2>1. p \in Domains
    BY <1>4 DEF Detector!Analyse
  <2>2. \E i, w, V, alert : Verdict(p, i, w, V, alert)
    BY <1>4, <2>1, AnalyseEffect
  <2> QED BY <2>1, <2>2
<1>5. \/ /\ UNCHANGED <<windows, seen, lost, alerts>>
         /\ dropped' = dropped \cup {<<"detector", p, pos[p] + 1>>}
      \/ UNCHANGED <<windows, seen, lost, alerts, dropped>> /\ p \in Clients
      \/ /\ Detector!Analyse(p, pos[p] + 1, Detector!Input(p)[pos[p] + 1])
         /\ UNCHANGED <<dropped, faults>>
  BY DEF Detector!Process, Detector!Copy
<1> QED BY <1>2, <1>3, <1>4, <1>5

\* What a step does to DDOS.
LEMMA StepCases ==
  ASSUME StreamInv, DomainWindows, [Next]_vars
  PROVE  \/ Silent
         \/ \E p \in Domains : \E i, w, V, alert : Verdict(p, i, w, V, alert)
<1>1. /\ pos \in [Partitions -> Nat] /\ posOk \in [Partitions -> Nat]
      /\ \A d \in Domains : d \in Partitions
  BY DEF StreamInv, StreamTypes, Partitions
<1>2. CASE UNCHANGED detection /\ dropped \subseteq dropped'
  <2>1. UNCHANGED <<windows, seen, lost, alerts, pos>>
    BY <1>2 DEF detection
  <2> QED BY <1>2, <2>1, SilentSteps
<1>3. ASSUME NEW p \in Partitions, Detector!Process(p)
      PROVE  Silent \/ \E q \in Domains : \E i, w, V, alert : Verdict(q, i, w, V, alert)
  BY <1>3, ProcessCases
<1>4. ASSUME NEW role, Detector!Commit(role) PROVE Silent
  <2>1. UNCHANGED <<windows, seen, lost, alerts, pos, dropped>>
    BY <1>4 DEF Detector!Commit
  <2> QED BY <2>1, SilentSteps
<1>5. ASSUME Detector!Restart(Clients) PROVE Silent
  <2>1. /\ UNCHANGED <<windows, seen, lost, alerts, dropped>>
        /\ pos' = [p \in Partitions |-> IF p \in Clients THEN posOk[p] ELSE pos[p]]
    BY <1>5 DEF Detector!Restart, Detector!Partitions, Partitions
  <2>2. \A d \in Domains : d \notin Clients
    BY StreamAssumption
  <2>3. \A d \in Domains : pos'[d] = pos[d]
    BY <1>1, <2>1, <2>2
  <2> QED BY <2>1, <2>3, SilentSteps
<1>6. ASSUME Detector!Restart(Domains) PROVE Silent
  <2>1. CASE Domains = Clients
    BY <1>5, <1>6, <2>1
  <2>2. CASE Domains # Clients
    <3>1. /\ alerts' = alerts /\ windows' = <<>> /\ seen' = [d \in Domains |-> {}]
          /\ lost' = [d \in Domains |-> posOk[d]] /\ dropped' = dropped
          /\ pos' = [p \in Partitions |-> IF p \in Domains THEN posOk[p] ELSE pos[p]]
      BY <1>6, <2>2 DEF Detector!Restart, Detector!Partitions, Partitions
    <3>2. \A d \in Domains : pos'[d] = posOk[d] /\ pos'[d] \in Nat
      BY <1>1, <3>1
    <3>3. lost' = [d \in Domains |-> pos'[d]]
      BY <3>1, <3>2
    <3> QED BY <3>1, <3>2, <3>3 DEF Silent
  <2> QED BY <2>1, <2>2
<1>7. CASE DetectionStep
  BY <1>3, <1>4, <1>5, <1>6, <1>7 DEF DetectionStep, Detector!Next, Detector!Partitions, Partitions
<1>8. CASE ParsingStep
  <2>1. dropped \subseteq dropped'
    BY <1>8, C2Step DEF ParsingDone, HistoryGrows
  <2> QED BY <1>2, <1>8, <2>1 DEF ParsingStep
<1>9. CASE EnrichmentStep
  <2>1. dropped \subseteq dropped'
    BY <1>9, C3Step DEF EnrichmentDone, HistoryGrows
  <2> QED BY <1>2, <1>9, <2>1 DEF EnrichmentStep
<1>10. CASE Tick \/ UNCHANGED vars
  BY <1>2, <1>10 DEF Tick, vars
<1> QED BY <1>7, <1>8, <1>9, <1>10 DEF Next

\* The windows stay right in every step.
LEMMA WindowsStep ==
  ASSUME StreamInv, StreamInv', DomainWindows, [Next]_vars
  PROVE  DomainWindows'
<1>1. CASE Silent
  <2>1. CASE UNCHANGED <<windows, seen>> /\ \A d \in Domains : pos'[d] \in Nat /\ pos[d] <= pos'[d]
    BY <1>1, <2>1, StepGrows, WindowsStay DEF Silent
  <2>2. CASE windows' = <<>> /\ seen' = [d \in Domains |-> {}]
    BY <2>2 DEF DomainWindows, OneEach
  <2> QED BY <1>1, <2>1, <2>2 DEF Silent
<1>2. ASSUME NEW p \in Domains, NEW i, NEW w, NEW V, NEW alert, Verdict(p, i, w, V, alert)
      PROVE  DomainWindows'
  BY <1>2, AnalysisKeepsWindows
<1> QED BY <1>1, <1>2, StepCases

\* Right windows count exactly.
LEMMA RightIsExact == StreamInv /\ DomainWindows => Detector!DomainWindowIsExact
<1> SUFFICES ASSUME StreamInv, DomainWindows, NEW n \in DOMAIN windows
             PROVE  LET w == windows[n]
                        of == byDomain[w.domain]
                        real == {i \in seen[w.domain] : Detector!Second(of[i]) > w.latest - WindowSeconds} IN
                    /\ \A i \in seen[w.domain] : Detector!Second(of[i]) <= w.latest
                    /\ w.requests = Detector!Cardinality(real)
                    /\ \A c \in Clients : w.ips[c] = Detector!Cardinality({i \in real : of[i][1] = c})
  BY DEF Detector!DomainWindowIsExact
<1> DEFINE w == windows[n]
           of == byDomain[w.domain]
           V == seen[w.domain]
           real == {i \in V : Detector!Second(of[i]) > w.latest - WindowSeconds}
<1>1. PICK d : d = w.domain
  OBVIOUS
<1>2. d \in Domains /\ Right(w, V, Requests(d), Alerted(d)) /\ V \subseteq 1..pos[d]
  BY <1>1 DEF DomainWindows
<1>3. PICK L : L = Requests(d)
  OBVIOUS
<1>4. WindowOf(w, V, L)
  BY <1>2, <1>3 DEF Right
<1>5. \A i \in V : L[i].second = Detector!Second(of[i]) /\ L[i].client = of[i][1]
  <2> TAKE i \in V
  <2>1. i \in DOMAIN byDomain[d]
    BY <1>2, HandledAreRecords
  <2>2. Requests(d)[i] = [second |-> Detector!Second(byDomain[d][i]), client |-> byDomain[d][i][1]]
    BY <1>2, <2>1, PlaceOfRequest
  <2> QED BY <1>1, <1>3, <2>2
<1>6. real = Covered(w, V, L)
  BY <1>5 DEF Covered
<1>7. /\ w.requests = Cardinality(real)
      /\ w.ips = [c \in Clients |-> Cardinality(From(real, L, c))]
  BY <1>4, <1>6 DEF WindowOf, Exact, Tallies
<1>8. \A c \in Clients : From(real, L, c) = {i \in real : of[i][1] = c}
  BY <1>5 DEF From
<1>9. \A i \in V : Detector!Second(of[i]) <= w.latest
  BY <1>4, <1>5 DEF WindowOf
<1>10. w.requests = Detector!Cardinality(real)
  BY <1>7, DetectorCardinality
<1>11. ASSUME NEW c \in Clients PROVE w.ips[c] = Detector!Cardinality({i \in real : of[i][1] = c})
  <2>1. PICK S : S = {i \in real : of[i][1] = c}
    OBVIOUS
  <2>2. w.ips[c] = Cardinality(From(real, L, c)) /\ From(real, L, c) = S
    <3> HIDE DEF real, of, V, w
    <3> QED BY <1>7, <1>8, <2>1
  <2>3. Detector!Cardinality(S) = Cardinality(S)
    BY DetectorCardinality
  <2> QED BY <2>1, <2>2, <2>3
<1> QED BY <1>9, <1>10, <1>11

\* Initially there is no window.
LEMMA WindowsInit == Init => DomainWindows
<1> SUFFICES ASSUME Init PROVE DomainWindows
  OBVIOUS
<1>1. windows = <<>> /\ seen = [d \in Domains |-> {}]
  BY DEF Init, Detector!Init
<1> QED BY <1>1 DEF DomainWindows, OneEach

-----------------------------------------------------------------------------
(* Bursts are missed only where the loss of a window splits them.          *)

\* Alerts are of records that are there.
OfRecords(K) == \A k \in K : \E d \in Domains : \E i \in DOMAIN byDomain[d] : k = <<d, i>>

\* Request i of the log L of domain d: an alert in A, or one a little older.
Answered(d, i, L, A) ==
  \E j \in 1..i : <<d, j>> \in A /\ (j = i \/ L[j].second > L[i].second - Cooldown)

\* Of the requests V of the log L up to i, those less than a window before the newest.
Recent(V, L, i) ==
  {j \in V : j <= i /\ \A m \in V : m <= i => L[m].second - WindowSeconds < L[j].second}

\* With request i the requests V of the log L reach both thresholds.
Reached(V, L, i) ==
  /\ i \in Recent(V, L, i) /\ Cardinality(Recent(V, L, i)) >= RequestThreshold
  /\ Cardinality({L[j].client : j \in Recent(V, L, i)}) >= UniqueIpThreshold

\* What DDOS passed since the last loss it has seen or dropped, and bursts are answered.
Bursts ==
  /\ OfRecords(alerts) /\ lost \in [Domains -> Nat]
  /\ \A d \in Domains :
       /\ \A i \in (lost[d] + 1)..pos[d] : i \in seen[d] \/ <<"detector", d, i>> \in dropped
       /\ \A i \in seen[d] : Reached(seen[d], Requests(d), i) => Answered(d, i, Requests(d), alerts)

\* Later requests, and another log of the same ones, make no difference to a burst.
LEMMA ReachedStays ==
  ASSUME NEW V, NEW L, NEW W, NEW M, NEW i \in V, Reached(W, M, i),
         \A j : j \in W /\ j <= i <=> j \in V /\ j <= i, \A j \in V : M[j] = L[j]
  PROVE  Reached(V, L, i)
<1>1. Recent(W, M, i) = Recent(V, L, i)
  BY DEF Recent
<1>2. {M[j].client : j \in Recent(W, M, i)} = {L[j].client : j \in Recent(V, L, i)}
  <2>1. \A j \in Recent(V, L, i) : M[j] = L[j]
    BY DEF Recent
  <2> QED BY <1>1, <2>1
<1> QED BY <1>1, <1>2 DEF Reached

\* Records stay where they are.
LEMMA RecordsStay ==
  ASSUME StreamInv, StreamInv', TopicsGrow, NEW K, OfRecords(K)
  PROVE  OfRecords(K)'
<1>1. ASSUME NEW k \in K, NEW d \in Domains, NEW i \in DOMAIN byDomain[d], k = <<d, i>>
      PROVE  i \in DOMAIN byDomain'[d]
  BY RequestsStay
<1> QED BY <1>1 DEF OfRecords

\* What the window w of record i counts, of the requests real in the log L.
WindowCounts(i, w, L, real) ==
  /\ w.requests = Cardinality(real) /\ real \subseteq 1..i /\ i \in Nat
  /\ {c \in Clients : w.ips[c] > 0} = {L[j].client : j \in real}
  /\ \A j \in 1..i : L[j] \in Request
  /\ (i \in real <=> L[i].second > w.latest - WindowSeconds)
  /\ \E j \in 1..i : L[j].second = w.latest
  /\ \A j \in real : w.latest - WindowSeconds < L[j].second /\ L[j].second <= w.latest

LEMMA VerdictCounts ==
  ASSUME StreamInv, NEW p \in Domains, NEW i, NEW w, NEW V, NEW alert, Verdict(p, i, w, V, alert)
  PROVE  /\ WindowCounts(i, w, Requests(p), Covered(w, V \cup {i}, Requests(p)))
         /\ 1..i \subseteq DOMAIN byDomain[p]
<1>0. PICK L, real : L = Requests(p) /\ real = Covered(w, V \cup {i}, L)
  OBVIOUS
<1>1. WindowOf(w, V \cup {i}, L) /\ V \subseteq 1..pos[p] /\ i = pos[p] + 1 /\ i \in DOMAIN byDomain[p]
  BY <1>0 DEF Verdict
<1>2. pos[p] \in Nat /\ Len(byDomain[p]) \in Nat /\ DOMAIN byDomain[p] = 1..Len(byDomain[p])
  BY HandledAreRecords
<1>3. V \cup {i} \subseteq 1..i /\ i \in Nat /\ i \in 1..i
  <2>1. PICK k : k = pos[p]
    OBVIOUS
  <2>2. k \in Nat /\ i = k + 1 /\ V \subseteq 1..k
    BY <1>1, <1>2, <2>1
  <2>3. \A j \in 1..k : j \in 1..i
    BY <2>2
  <2>4. i \in 1..i /\ i \in Nat
    BY <2>2
  <2> QED BY <2>2, <2>3, <2>4
<1>4. \A j \in 1..i : j \in DOMAIN byDomain[p]
  BY <1>1, <1>2, <1>3
<1>5. \A j \in 1..i : L[j] \in Request
  BY <1>0, <1>4, PlaceOfRequest
<1>6. real \subseteq 1..i /\ (i \in real <=> L[i].second > w.latest - WindowSeconds)
  BY <1>0, <1>3 DEF Covered
<1>7. Exact(w, real, L) /\ w.requests = Cardinality(real)
  BY <1>0, <1>1 DEF WindowOf, Exact, Tallies
<1>8. {c \in Clients : w.ips[c] > 0} = {L[j].client : j \in real}
  <2>1. \A j \in real : L[j] \in Request
    BY <1>5, <1>6
  <2>2. \A c : c \in Clients /\ w.ips[c] > 0 <=> \E j \in real : c = L[j].client
    BY <1>7, <2>1, Addresses
  <2> QED BY <2>2
<1>9. /\ \E j \in 1..i : L[j].second = w.latest
      /\ \A j \in real : w.latest - WindowSeconds < L[j].second /\ L[j].second <= w.latest
  <2>1. V \cup {i} # {}
    OBVIOUS
  <2> HIDE DEF Detector!Never
  <2>2. \E j \in V \cup {i} : L[j].second = w.latest
    BY <1>1, <2>1 DEF WindowOf
  <2>3. \A j \in V \cup {i} : L[j].second <= w.latest
    BY <1>1 DEF WindowOf
  <2>4. \A j \in real : j \in V \cup {i} /\ L[j].second > w.latest - WindowSeconds
    BY <1>0 DEF Covered
  <2>5. \A j \in real : w.latest \in Int /\ L[j].second \in Nat
    BY <1>1, <1>5, <1>6 DEF WindowOf, Request
  <2>6. WindowSeconds \in Nat
    BY StreamAssumption
  <2> QED BY <1>3, <2>2, <2>3, <2>4, <2>5, <2>6
<1>10. WindowCounts(i, w, L, real)
  BY <1>3, <1>5, <1>6, <1>7, <1>8, <1>9 DEF WindowCounts
<1> QED BY <1>0, <1>4, <1>10

\* When a record is analysed, the window covers the recent ones of the requests it has seen.
LEMMA CoveredAreRecent ==
  ASSUME StreamInv, NEW p \in Domains, NEW i, NEW w, NEW V, NEW alert, Verdict(p, i, w, V, alert)
  PROVE  Recent(V \cup {i}, Requests(p), i) = Covered(w, V \cup {i}, Requests(p))
<1>1. PICK L, W : L = Requests(p) /\ W = V \cup {i}
  OBVIOUS
<1>2. WindowOf(w, W, L) /\ V \subseteq 1..pos[p] /\ i = pos[p] + 1 /\ pos[p] \in Nat
  BY <1>1, HandledAreRecords DEF Verdict
<1>3. \A j \in W : j <= i /\ L[j] \in Request
  <2> TAKE j \in W
  <2>1. j \in 1..i /\ i \in Nat /\ 1..i \subseteq DOMAIN byDomain[p]
    <3>1. PICK k : k = pos[p]
      OBVIOUS
    <3>2. k \in Nat /\ i = k + 1 /\ (j \in 1..k \/ j = i)
      BY <1>1, <1>2, <3>1
    <3>3. j \in 1..i /\ i \in Nat
      BY <3>2
    <3>4. 1..i \subseteq DOMAIN byDomain[p]
      BY VerdictCounts
    <3> QED BY <3>3, <3>4
  <2>2. j <= i
    BY <2>1
  <2> QED BY <1>1, <2>1, <2>2, PlaceOfRequest
<1>4. \A j \in W : L[j].second \in Nat /\ L[j].second <= w.latest
  BY <1>2, <1>3 DEF WindowOf, Request
<1>5. PICK n \in W : L[n].second = w.latest
  <2>1. W # {}
    BY <1>1
  <2> HIDE DEF Detector!Never
  <2> QED BY <1>2, <2>1 DEF WindowOf
<1>6. w.latest \in Int /\ WindowSeconds \in Nat
  BY <1>2, StreamAssumption DEF WindowOf
<1>7. ASSUME NEW j \in W
      PROVE  (\A m \in W : m <= i => L[m].second - WindowSeconds < L[j].second)
               <=> L[j].second > w.latest - WindowSeconds
  BY <1>3, <1>4, <1>5, <1>6
<1>8. Recent(W, L, i) = Covered(w, W, L)
  BY <1>3, <1>7 DEF Recent, Covered
<1> QED BY <1>1, <1>8

\* A record that completes a burst is alerted when it is analysed, or an alert holds it back.
LEMMA NewBurst ==
  ASSUME StreamInv, NEW p \in Domains, NEW i, NEW w, NEW V, NEW alert, Verdict(p, i, w, V, alert),
         Reached(V \cup {i}, Requests(p), i)
  PROVE  Answered(p, i, Requests(p), alerts')
<1>1. PICK L, real : L = Requests(p) /\ real = Covered(w, V \cup {i}, L)
  OBVIOUS
<1>2. /\ i \in real /\ Cardinality(real) >= RequestThreshold
      /\ Cardinality({L[j].client : j \in real}) >= UniqueIpThreshold
  <2>1. Recent(V \cup {i}, L, i) = real
    BY <1>1, CoveredAreRecent
  <2>2. Reached(V \cup {i}, L, i)
    BY <1>1
  <2> HIDE DEF Recent
  <2> QED BY <2>1, <2>2 DEF Reached
<1>3. /\ w.requests = Cardinality(real) /\ i \in Nat
      /\ {c \in Clients : w.ips[c] > 0} = {L[j].client : j \in real}
      /\ \A j \in 1..i : L[j] \in Request
      /\ L[i].second > w.latest - WindowSeconds
  <2>1. WindowCounts(i, w, L, real)
    BY <1>1, VerdictCounts
  <2> QED BY <1>2, <2>1 DEF WindowCounts
<1>4. /\ alerts' = IF alert THEN alerts \cup {<<p, i>>} ELSE alerts
      /\ alert \in BOOLEAN /\ i = pos[p] + 1
  BY DEF Verdict
<1>5. i \in 1..i
  BY <1>4, HandledAreRecords
<1>6. CASE alert
  <2>1. <<p, i>> \in alerts'
    BY <1>4, <1>6
  <2> QED BY <1>5, <2>1 DEF Answered
<1>7. CASE ~alert
  <2> HIDE DEF Detector!Never
  <2>1. w.lastAlert # Detector!Never /\ L[i].second - w.lastAlert < Cooldown
    BY <1>1, <1>2, <1>3, <1>7 DEF Verdict
  <2>2. PICK j \in Alerted(p) : L[j].second = w.lastAlert
    BY <1>1, <2>1 DEF Verdict
  <2>3. j \in 1..pos[p] /\ <<p, j>> \in alerts /\ pos[p] \in Nat
    BY HandledAreRecords DEF Alerted
  <2>4. j \in 1..i
    <3>1. PICK k : k = pos[p]
      OBVIOUS
    <3>2. k \in Nat /\ j \in 1..k /\ i = k + 1
      BY <1>4, <2>3, <3>1
    <3> QED BY <3>2
  <2>5. L[j].second \in Nat /\ L[i].second \in Nat /\ Cooldown \in Nat
    BY <1>3, <1>5, <2>4, StreamAssumption DEF Request
  <2>6. L[j].second > L[i].second - Cooldown
    BY <2>1, <2>2, <2>5
  <2> QED BY <1>1, <1>4, <2>3, <2>4, <2>6 DEF Answered
<1> QED BY <1>4, <1>6, <1>7

\* A burst answered stays answered.
LEMMA AnsweredStays ==
  ASSUME StreamInv, StreamInv', TopicsGrow, DomainWindows, Bursts, alerts \subseteq alerts',
         NEW d \in Domains, NEW i \in seen[d],
         \A j : j \in seen'[d] /\ j <= i <=> j \in seen[d] /\ j <= i,
         Reached(seen'[d], Requests(d)', i)
  PROVE  Answered(d, i, Requests(d)', alerts')
<1>1. seen[d] \subseteq DOMAIN byDomain[d]
  BY HandledAreRecords DEF DomainWindows
<1>2. PICK V, W, L, M : /\ V = seen[d] /\ W = seen'[d]
                        /\ L = Requests(d) /\ M = Requests(d)'
  OBVIOUS
<1>3. \A j \in DOMAIN byDomain[d] : M[j] = L[j]
  BY <1>2, RequestsStay
<1>4. Reached(V, L, i)
  <2>1. Reached(W, M, i) /\ (\A j : j \in W /\ j <= i <=> j \in V /\ j <= i)
    BY <1>2
  <2>2. i \in V /\ \A j \in V : M[j] = L[j]
    BY <1>1, <1>2, <1>3
  <2> QED BY <2>1, <2>2, ReachedStays
<1>5. PICK j \in 1..i : <<d, j>> \in alerts /\ (j = i \/ L[j].second > L[i].second - Cooldown)
  BY <1>2, <1>4 DEF Bursts, Answered
<1>6. i \in DOMAIN byDomain[d] /\ j \in DOMAIN byDomain[d]
  BY <1>1, <1>5 DEF Bursts, OfRecords
<1>7. M[i] = L[i] /\ M[j] = L[j]
  BY <1>3, <1>6
<1> QED BY <1>2, <1>5, <1>7 DEF Answered

\* Every burst stays answered, and a step loses no more than it may.
LEMMA BurstsStep ==
  ASSUME StreamInv, StreamInv', DomainWindows, Bursts, [Next]_vars
  PROVE  Bursts'
<1>1. TopicsGrow
  BY StepGrows
<1>2. \A d \in Domains : seen[d] \subseteq 1..pos[d] /\ pos[d] \in Nat /\ lost[d] \in Nat
  BY HandledAreRecords DEF DomainWindows, Bursts
<1>3. CASE Silent
  <2>1. OfRecords(alerts)'
    <3>1. PICK K : K = alerts
      OBVIOUS
    <3>2. OfRecords(K)'
      BY <1>1, <3>1, RecordsStay DEF Bursts
    <3> QED BY <1>3, <3>1, <3>2 DEF Silent
  <2>2. CASE /\ UNCHANGED <<windows, seen, lost>>
             /\ \A d \in Domains :
                  /\ pos'[d] \in Nat /\ pos[d] <= pos'[d]
                  /\ \A i \in (pos[d] + 1)..pos'[d] : <<"detector", d, i>> \in dropped'
    <3>1. ASSUME NEW d \in Domains, NEW i \in (lost[d] + 1)..pos'[d]
          PROVE  i \in seen[d] \/ <<"detector", d, i>> \in dropped'
      <4>1. i \in (lost[d] + 1)..pos[d] \/ i \in (pos[d] + 1)..pos'[d]
        BY <1>2, <2>2
      <4> QED BY <1>3, <2>2, <4>1 DEF Bursts, Silent
    <3>2. ASSUME NEW d \in Domains, NEW i \in seen[d], Reached(seen'[d], Requests(d)', i)
          PROVE  Answered(d, i, Requests(d)', alerts')
      <4>1. seen'[d] = seen[d] /\ alerts \subseteq alerts'
        BY <1>3, <2>2 DEF Silent
      <4> QED BY <1>1, <3>2, <4>1, AnsweredStays
    <3> QED BY <2>1, <2>2, <3>1, <3>2 DEF Bursts
  <2>3. CASE /\ windows' = <<>> /\ seen' = [d \in Domains |-> {}]
             /\ lost' = [d \in Domains |-> pos'[d]] /\ \A d \in Domains : pos'[d] \in Nat
    <3>1. \A d \in Domains : \A i \in (lost'[d] + 1)..pos'[d] : FALSE
      <4> SUFFICES ASSUME NEW d \in Domains, NEW i \in (lost'[d] + 1)..pos'[d] PROVE FALSE
        OBVIOUS
      <4>1. PICK k : k = pos'[d]
        OBVIOUS
      <4>2. k \in Nat /\ i \in (k + 1)..k
        BY <2>3, <4>1
      <4> QED BY <4>2
    <3>2. \A d \in Domains : seen'[d] = {}
      BY <2>3
    <3>3. lost' \in [Domains -> Nat]
      BY <2>3
    <3> QED BY <2>1, <3>1, <3>2, <3>3 DEF Bursts
  <2> QED BY <1>3, <2>2, <2>3 DEF Silent
<1>4. ASSUME NEW p \in Domains, NEW i, NEW w, NEW V, NEW alert, Verdict(p, i, w, V, alert)
      PROVE  Bursts'
  <2>1. /\ alerts' = IF alert THEN alerts \cup {<<p, i>>} ELSE alerts
        /\ V \subseteq 1..pos[p] /\ i = pos[p] + 1 /\ i \in DOMAIN byDomain[p]
        /\ seen' = [seen EXCEPT ![p] = V \cup {i}]
        /\ \/ V = seen[p] /\ lost' = lost
           \/ V = {} /\ lost' = [lost EXCEPT ![p] = i - 1]
        /\ pos' = [pos EXCEPT ![p] = i] /\ UNCHANGED <<enriched, byDomain, dropped>>
    BY <1>4 DEF Verdict
  <2>2. alerts \subseteq alerts'
    BY <2>1
  <2>3. OfRecords(alerts)'
    <3>1. alerts' \subseteq alerts \cup {<<p, i>>}
      BY <2>1
    <3> QED BY <2>1, <3>1 DEF Bursts, OfRecords
  <2>4. /\ lost \in [Domains -> Nat] /\ seen \in [Domains -> SUBSET Nat]
        /\ pos \in [Partitions -> Nat] /\ \A d \in Domains : d \in Partitions
    BY DEF Bursts, DomainWindows, StreamInv, StreamTypes, Partitions
  <2>5. PICK k : k = pos[p] /\ k \in Nat /\ i = k + 1 /\ i - 1 = k
    BY <1>2, <2>1
  <2>6. /\ seen'[p] = V \cup {i} /\ pos'[p] = i /\ lost' \in [Domains -> Nat]
        /\ \A d \in Domains \ {p} : seen'[d] = seen[d] /\ lost'[d] = lost[d] /\ pos'[d] = pos[d]
    BY <2>1, <2>4, <2>5
  <2>7. ASSUME NEW d \in Domains, NEW j \in (lost'[d] + 1)..pos'[d]
        PROVE  j \in seen'[d] \/ <<"detector", d, j>> \in dropped'
    <3>1. CASE d # p
      BY <2>1, <2>6, <2>7, <3>1 DEF Bursts
    <3>2. CASE d = p /\ V = seen[p] /\ lost' = lost
      <4>1. j \in (lost[p] + 1)..k \/ j = i
        BY <1>2, <2>5, <2>6, <2>7, <3>2
      <4> QED BY <2>1, <2>5, <2>6, <3>2, <4>1 DEF Bursts
    <3>3. CASE d = p /\ lost'[p] = k
      <4>1. j = i
        BY <2>5, <2>6, <2>7, <3>3
      <4> QED BY <2>6, <3>3, <4>1
    <3>4. (V = seen[p] /\ lost' = lost) \/ lost'[p] = k
      BY <2>1, <2>4, <2>5
    <3> QED BY <3>1, <3>2, <3>3, <3>4
  <2>8. ASSUME NEW d \in Domains, NEW j \in seen'[d], Reached(seen'[d], Requests(d)', j)
        PROVE  Answered(d, j, Requests(d)', alerts')
    <3>1. CASE d # p
      <4>1. seen'[d] = seen[d]
        BY <2>6, <3>1
      <4> QED BY <1>1, <2>2, <2>8, <4>1, AnsweredStays
    <3>2. CASE d = p /\ j \in V
      <4>1. V = seen[p] /\ j \in 1..k /\ \A m \in V : m \in 1..k
        BY <2>1, <2>5, <3>2
      <4>2. \A m : m \in V \cup {i} /\ m <= j <=> m \in V /\ m <= j
        BY <2>5, <4>1
      <4>3. \A m : m \in seen'[p] /\ m <= j <=> m \in seen[p] /\ m <= j
        BY <2>6, <4>1, <4>2
      <4> QED BY <1>1, <2>2, <2>8, <3>2, <4>1, <4>3, AnsweredStays
    <3>3. CASE d = p /\ j = i
      <4>1. Requests(p)' = Requests(p)
        BY <2>1 DEF Requests, Detector!Second
      <4>2. Reached(V \cup {i}, Requests(p), i)
        BY <2>6, <2>8, <3>3, <4>1
      <4> QED BY <1>4, <3>3, <4>1, <4>2, NewBurst
    <3> QED BY <2>6, <2>8, <3>1, <3>2, <3>3
  <2> QED BY <2>3, <2>6, <2>7, <2>8 DEF Bursts
<1> QED BY <1>3, <1>4, StepCases

\* Initially nothing is lost, seen or alerted.
LEMMA BurstsInit == Init => Bursts
<1> SUFFICES ASSUME Init PROVE Bursts
  OBVIOUS
<1>1. /\ alerts = {} /\ lost = [d \in Domains |-> 0] /\ seen = [d \in Domains |-> {}]
      /\ pos = [p \in Partitions |-> 0] /\ \A d \in Domains : d \in Partitions
  BY DEF Init, Detector!Init, Detector!Partitions, Partitions
<1>2. \A d \in Domains : \A i \in (lost[d] + 1)..pos[d] : FALSE
  BY <1>1
<1> QED BY <1>1, <1>2 DEF Bursts, OfRecords

\* A burst in the words of Ddos.
LEMMA BurstIsReached ==
  ASSUME StreamInv, NEW d \in Domains, seen[d] \subseteq DOMAIN byDomain[d],
         NEW i \in seen[d], Detector!Burst(d, i)
  PROVE  Reached(seen[d], Requests(d), i)
<1> DEFINE second(j) == Detector!Second(byDomain[d][j])
           upTo == {j \in seen[d] : j <= i}
           real == {j \in upTo : \A m \in upTo : second(m) - WindowSeconds < second(j)}
<1>1. PICK L : L = Requests(d)
  OBVIOUS
<1>2. \A j \in seen[d] : L[j].second = second(j) /\ L[j].client = byDomain[d][j][1]
  <2> TAKE j \in seen[d]
  <2>1. Requests(d)[j] = [second |-> Detector!Second(byDomain[d][j]), client |-> byDomain[d][j][1]]
    BY PlaceOfRequest
  <2> QED BY <1>1, <2>1
<1>3. real = Recent(seen[d], L, i)
  BY <1>2 DEF Recent
<1>4. {byDomain[d][j][1] : j \in real} = {L[j].client : j \in real}
  BY <1>2
<1>5. /\ i \in real /\ Detector!Cardinality(real) >= RequestThreshold
      /\ Detector!Cardinality({byDomain[d][j][1] : j \in real}) >= UniqueIpThreshold
  BY DEF Detector!Burst
<1>6. PICK K, from : K = real /\ from = {byDomain[d][j][1] : j \in real}
  OBVIOUS
<1>7. /\ K = Recent(seen[d], L, i) /\ from = {L[j].client : j \in K}
      /\ i \in K /\ Detector!Cardinality(K) >= RequestThreshold
      /\ Detector!Cardinality(from) >= UniqueIpThreshold
  BY <1>3, <1>4, <1>5, <1>6
<1>8. Cardinality(K) >= RequestThreshold /\ Cardinality(from) >= UniqueIpThreshold
  BY <1>7, DetectorCardinality
<1> HIDE DEF real
<1> QED BY <1>1, <1>7, <1>8 DEF Reached

\* Bursts answered are bursts alerted.
LEMMA BurstsAreAlerted == StreamInv /\ DomainWindows /\ Bursts => BurstIsAlerted
<1> SUFFICES ASSUME StreamInv, DomainWindows, Bursts, NEW d \in Domains
             PROVE  /\ \A i \in (lost[d] + 1)..pos[d] : i \in seen[d] \/ <<"detector", d, i>> \in dropped
                    /\ \A i \in seen[d] :
                         Detector!Burst(d, i) =>
                           \E j \in 1..i :
                             /\ <<d, j>> \in alerts
                             /\ \/ j = i
                                \/ Detector!Second(byDomain[d][j])
                                     > Detector!Second(byDomain[d][i]) - Cooldown
  BY DEF BurstIsAlerted, Detector!BurstIsAlerted
<1>1. seen[d] \subseteq DOMAIN byDomain[d]
  BY HandledAreRecords DEF DomainWindows
<1>2. ASSUME NEW i \in seen[d], Detector!Burst(d, i)
      PROVE  \E j \in 1..i :
               /\ <<d, j>> \in alerts
               /\ j = i \/ Detector!Second(byDomain[d][j]) > Detector!Second(byDomain[d][i]) - Cooldown
  <2>1. PICK j \in 1..i : /\ <<d, j>> \in alerts
                          /\ j = i \/ Requests(d)[j].second > Requests(d)[i].second - Cooldown
    BY <1>1, <1>2, BurstIsReached DEF Bursts, Answered
  <2>2. j \in DOMAIN byDomain[d] /\ i \in DOMAIN byDomain[d]
    BY <1>1, <2>1 DEF Bursts, OfRecords
  <2>3. \A n \in {i, j} : Requests(d)[n].second = Detector!Second(byDomain[d][n])
    <3> TAKE n \in {i, j}
    <3>1. Requests(d)[n] = [second |-> Detector!Second(byDomain[d][n]), client |-> byDomain[d][n][1]]
      BY <2>2, PlaceOfRequest
    <3> QED BY <3>1
  <2> QED BY <2>1, <2>3
<1> QED BY <1>2 DEF Bursts

-----------------------------------------------------------------------------
(* The rates of C3.                                                        *)

Sorted(s) == \A m, n \in DOMAIN s : m <= n => s[m] <= s[n]

\* u is the end of v.
EndOf(u, v) ==
  /\ Len(u) \in Nat /\ Len(u) <= Len(v) /\ DOMAIN u = 1..Len(u)
  /\ \A j \in 1..Len(u) : u[j] = v[Len(v) - Len(u) + j]

\* The n-th number of an interval.
LEMMA NthOfInterval ==
  ASSUME NEW f \in Nat, NEW m \in Nat, f <= m, NEW n \in 1..(m - f + 1)
  PROVE  Nth(f..m, n) = f + n - 1
<1>1. PICK k : k = f + n - 1
  OBVIOUS
<1>2. k \in f..m /\ k - f + 1 = n
  BY <1>1
<1>3. {j \in f..m : j <= k} = f..k
  BY <1>2
<1>4. Rank(f..m, k) = n
  <2>1. Cardinality(f..k) = k - f + 1
    BY <1>2, FS_Interval
  <2> QED BY <1>2, <1>3, <2>1 DEF Rank
<1>5. IsFiniteSet(f..m) /\ f..m \subseteq Int
  BY FS_Interval
<1>6. Nth(f..m, Rank(f..m, k)) = k
  BY <1>2, <1>5, NthFacts
<1> QED BY <1>1, <1>4, <1>6

\* What is not below a bound in an ascending sequence is its end.
LEMMA TrimLeavesEnd ==
  ASSUME NEW v \in Seq(Nat), Sorted(v), NEW x \in Int,
         NEW S, S = {n \in DOMAIN v : v[n] >= x}, NEW u, u = At(v, S)
  PROVE  /\ EndOf(u, v) /\ u \in Seq(Nat)
         /\ \A n \in 1..(Len(v) - Len(u)) : v[n] < x
         /\ \A n \in (Len(v) - Len(u) + 1)..Len(v) : v[n] >= x
<1>0. PICK m : m = Len(v)
  OBVIOUS
<1>1. m \in Nat /\ DOMAIN v = 1..m /\ \A n \in 1..m : v[n] \in Nat
  BY <1>0, LenProperties, ElementOfSeq
<1>2. S \in SUBSET DOMAIN v
  OBVIOUS
<1>3. /\ IsFiniteSet(S) /\ S \subseteq Int /\ Cardinality(S) \in Nat
      /\ u \in Seq(Nat) /\ Len(u) = Cardinality(S) /\ DOMAIN u = 1..Cardinality(S)
      /\ \A n \in 1..Cardinality(S) : u[n] = v[Nth(S, n)]
  <2>1. IsFiniteSet(S) /\ S \subseteq Int /\ Cardinality(S) \in Nat
    BY <1>2, AtFacts
  <2>2. u \in Seq(Nat) /\ Len(u) = Cardinality(S)
    BY <1>2, AtFacts
  <2>3. \A n \in 1..Cardinality(S) : u[n] = v[Nth(S, n)]
    <3>1. v \in Seq(Nat) /\ S \in SUBSET DOMAIN v
      BY <1>2
    <3>2. \A n \in 1..Cardinality(S) : Nth(S, n) \in S /\ At(v, S)[n] = v[Nth(S, n)]
      BY <3>1, AtFacts, ZenonT(60)
    <3> QED BY <3>2
  <2>4. DOMAIN u = 1..Len(u)
    BY <2>2, LenProperties
  <2> QED BY <2>1, <2>2, <2>3, <2>4
<1>4. CASE S = {}
  <2>1. Len(u) = 0 /\ DOMAIN u = {}
    BY <1>3, <1>4, FS_EmptySet
  <2>2. \A n \in 1..m : v[n] < x
    BY <1>1, <1>4
  <2>3. EndOf(u, v)
    <3>1. Len(u) \in Nat /\ Len(u) <= Len(v) /\ DOMAIN u = 1..Len(u)
      BY <1>0, <1>1, <1>3, <2>1
    <3>2. \A j \in 1..Len(u) : u[j] = v[Len(v) - Len(u) + j]
      <4>1. 1..0 = {}
        OBVIOUS
      <4>2. 1..Len(u) = {}
        BY <2>1, <4>1, Zenon
      <4> QED BY <4>2, Zenon
    <3> QED BY <3>1, <3>2, Zenon DEF EndOf
  <2>4. \A n \in 1..(m - 0) : v[n] < x
    BY <1>1, <2>2
  <2>5. (m - 0 + 1)..m = {}
    BY <1>1
  <2> QED BY <1>0, <1>3, <2>1, <2>3, <2>4, <2>5
<1>5. CASE S # {}
  <2>1. Cardinality(S) # 0
    BY <1>3, <1>5, FS_EmptySet
  <2>2. 1 \in 1..Cardinality(S)
    BY <1>3, <2>1
  <2>3. PICK f : f = Nth(S, 1)
    OBVIOUS
  <2>4. f \in S /\ \A k \in S : f <= k
    <3>1. f \in S
      BY <1>3, <2>2, <2>3, NthFacts
    <3>2. ASSUME NEW k \in S PROVE f <= k
      <4>1. Rank(S, k) \in 1..Cardinality(S) /\ Nth(S, Rank(S, k)) = k
        BY <1>3, NthFacts
      <4>2. Rank(S, k) = 1 \/ 1 < Rank(S, k)
        BY <1>3, <4>1
      <4>3. 1 < Rank(S, k) => f < k
        BY <1>3, <2>2, <2>3, <4>1, NthFacts
      <4>4. f \in Int /\ k \in Int
        BY <1>3, <3>1
      <4> QED BY <2>3, <4>1, <4>2, <4>3, <4>4
    <3> QED BY <3>1, <3>2
  <2>5. f \in 1..m
    BY <1>1, <1>2, <2>4
  <2>6. S = f..m
    <3>1. \A k \in S : k \in f..m
      BY <1>1, <1>2, <2>4, <2>5
    <3>2. ASSUME NEW k \in f..m PROVE k \in S
      <4>1. k \in DOMAIN v /\ f \in DOMAIN v /\ f <= k
        BY <1>1, <2>5
      <4>2. v[f] <= v[k] /\ v[f] >= x
        BY <2>4, <4>1 DEF Sorted
      <4>3. v[f] \in Nat /\ v[k] \in Nat
        BY <1>1, <4>1
      <4> QED BY <4>1, <4>2, <4>3
    <3> QED BY <3>1, <3>2
  <2>7. Len(u) = m - f + 1 /\ Cardinality(S) = m - f + 1
    <3>1. Cardinality(f..m) = m - f + 1
      BY <1>1, <2>5, FS_Interval
    <3> QED BY <1>3, <2>6, <3>1
  <2>8. ASSUME NEW j \in 1..(m - f + 1) PROVE u[j] = v[f + j - 1]
    <3>1. Nth(f..m, j) = f + j - 1
      BY <1>1, <2>5, <2>8, NthOfInterval
    <3>2. u[j] = v[Nth(S, j)]
      BY <1>3, <2>7, <2>8
    <3> QED BY <2>6, <3>1, <3>2
  <2>9. m - (m - f + 1) = f - 1
    BY <1>1, <2>5
  <2>10. EndOf(u, v)
    <3>1. PICK q : q = m - f + 1
      OBVIOUS
    <3>2. q \in Nat /\ q <= m /\ \A j \in 1..q : f + j - 1 = m - q + j
      BY <1>1, <2>5, <3>1
    <3>3. Len(u) = q /\ DOMAIN u = 1..q /\ \A j \in 1..q : u[j] = v[f + j - 1]
      BY <1>3, <2>7, <2>8, <3>1
    <3>4. \A j \in 1..q : u[j] = v[m - q + j]
      BY <3>2, <3>3
    <3> QED BY <1>0, <3>2, <3>3, <3>4 DEF EndOf
  <2>11. \A n \in 1..(f - 1) : v[n] < x
    <3> TAKE n \in 1..(f - 1)
    <3>1. n \in 1..m /\ n \notin f..m
      BY <1>1, <2>5
    <3> QED BY <1>1, <2>6, <3>1
  <2>12. \A n \in f..m : v[n] >= x
    BY <2>6
  <2>13. m - Len(u) = f - 1 /\ m - Len(u) + 1 = f
    BY <1>1, <2>5, <2>7, <2>9
  <2> QED BY <1>0, <1>3, <2>10, <2>11, <2>12, <2>13
<1> QED BY <1>4, <1>5

\* The times that C3 holds for a client are the end of Z, those of its records: the ones of
\* the last minute since the record s, or as many as the cap allows.
RightTimes(times, Z, s) ==
  /\ Len(times) \in 1..(Len(Z) - s) /\ Len(times) <= MaxPerClient /\ EndOf(times, Z)
  /\ \A n \in (Len(Z) - Len(times) + 1)..Len(Z) : Z[n] >= Z[Len(Z)] - RateWindow
  /\ \/ Len(times) = MaxPerClient
     \/ \A n \in (s + 1)..(Len(Z) - Len(times)) : Z[n] < Z[Len(Z)] - RateWindow

\* Right times, or no counter yet.
KnownTimes(times, Z, s) == RightTimes(times, Z, s) \/ (times = <<>> /\ s = Len(Z))

\* Capping keeps the end.
LEMMA CapLeavesEnd ==
  ASSUME NEW v \in Seq(Nat), NEW u, u = C3!Capped(v)
  PROVE  /\ EndOf(u, v) /\ u \in Seq(Nat)
         /\ Len(u) = IF Len(v) <= MaxPerClient THEN Len(v) ELSE MaxPerClient
<1>0. PICK m : m = Len(v)
  OBVIOUS
<1>1. m \in Nat /\ DOMAIN v = 1..m /\ MaxPerClient \in Nat \ {0}
  BY <1>0, LenProperties, StreamAssumption
<1>2. CASE m <= MaxPerClient
  <2>1. u = v
    BY <1>0, <1>2 DEF C3!Capped
  <2>2. \A j \in 1..m : v[j] = v[m - m + j]
    BY <1>1
  <2> QED BY <1>0, <1>1, <1>2, <2>1, <2>2 DEF EndOf
<1>3. CASE m > MaxPerClient
  <2>1. PICK f : f = m - MaxPerClient + 1
    OBVIOUS
  <2>2. f \in 1..m /\ m - f + 1 = MaxPerClient
    BY <1>1, <1>3, <2>1
  <2>3. u = SubSeq(v, f, m)
    BY <1>0, <1>1, <1>3, <2>1 DEF C3!Capped
  <2>4. \A n \in f..m : v[n] \in Nat
    BY <1>0, <1>1, <2>2, ElementOfSeq
  <2>5. /\ u \in Seq(Nat) /\ Len(u) = m - f + 1
        /\ \A j \in 1..(m - f + 1) : u[j] = v[f + j - 1]
    BY <1>1, <2>2, <2>3, <2>4, SubSeqProperties
  <2>6. DOMAIN u = 1..Len(u)
    BY <2>5, LenProperties
  <2>7. \A j \in 1..MaxPerClient : f + j - 1 = m - MaxPerClient + j
    BY <1>1, <2>1
  <2>8. /\ Len(u) = MaxPerClient /\ DOMAIN u = 1..MaxPerClient
        /\ \A j \in 1..MaxPerClient : u[j] = v[m - MaxPerClient + j]
    BY <2>2, <2>5, <2>6, <2>7
  <2>9. EndOf(u, v)
    BY <1>0, <1>1, <1>3, <2>8 DEF EndOf
  <2>10. ~ (m <= MaxPerClient)
    BY <1>1, <1>3
  <2> QED BY <1>0, <2>5, <2>8, <2>9, <2>10
<1> QED BY <1>1, <1>2, <1>3

\* The end of an end is an end.
LEMMA EndOfEnd ==
  ASSUME NEW u, NEW v, NEW z, EndOf(u, v), EndOf(v, z), Len(z) \in Nat
  PROVE  EndOf(u, z)
<1>0. PICK k, m, n : k = Len(u) /\ m = Len(v) /\ n = Len(z)
  OBVIOUS
<1>1. /\ k \in Nat /\ m \in Nat /\ n \in Nat /\ k <= m /\ m <= n /\ DOMAIN u = 1..k
      /\ \A j \in 1..k : u[j] = v[m - k + j]
      /\ \A j \in 1..m : v[j] = z[n - m + j]
  BY <1>0 DEF EndOf
<1>2. ASSUME NEW j \in 1..k PROVE u[j] = z[n - k + j]
  <2>1. m - k + j \in 1..m /\ n - m + (m - k + j) = n - k + j
    BY <1>1
  <2>2. PICK i \in 1..m : i = m - k + j
    BY <2>1
  <2>3. u[j] = v[i] /\ v[i] = z[n - m + i] /\ n - m + i = n - k + j
    BY <1>1, <2>1, <2>2
  <2> QED BY <2>3
<1>3. k <= n
  BY <1>1
<1> QED BY <1>0, <1>1, <1>2, <1>3 DEF EndOf

\* u is v and the number t.
Appended(u, v, t) ==
  /\ Len(v) \in Nat /\ Len(u) = Len(v) + 1 /\ DOMAIN u = 1..(Len(v) + 1)
  /\ u[Len(v) + 1] = t /\ \A n \in 1..Len(v) : u[n] = v[n]
  /\ \A n \in 1..Len(v) : v[n] \in Nat
  /\ \A n \in 1..(Len(v) + 1) : u[n] \in Nat

LEMMA AppendedFacts ==
  ASSUME NEW v \in Seq(Nat), NEW t \in Nat
  PROVE  Appended(Append(v, t), v, t) /\ Append(v, t) \in Seq(Nat)
<1>1. PICK u : u = Append(v, t)
  OBVIOUS
<1>2. /\ u \in Seq(Nat) /\ Len(u) = Len(v) + 1 /\ Len(v) \in Nat
      /\ u[Len(v) + 1] = t /\ \A n \in 1..Len(v) : u[n] = v[n]
  BY <1>1, AppendProperties, LenProperties
<1>3. DOMAIN u = 1..(Len(v) + 1) /\ \A n \in 1..(Len(v) + 1) : u[n] \in Nat
  BY <1>2, LenProperties, ElementOfSeq
<1>4. \A n \in 1..Len(v) : v[n] \in Nat
  BY ElementOfSeq
<1>5. Appended(u, v, t)
  BY <1>2, <1>3, <1>4 DEF Appended
<1> QED BY <1>1, <1>2, <1>5

\* The times of a client with the next one, as at the end of its records.
AllTimes(all, Y, m, k, s) ==
  /\ m \in Nat /\ k \in 0..(m - s) /\ Len(all) = k + 1 /\ Len(Y) = m + 1
  /\ \/ k = MaxPerClient
     \/ \A n \in (s + 1)..(m - k) : m \in 1..m /\ Y[n] < Y[m] - RateWindow
  /\ \A j \in 1..(k + 1) : all[j] = Y[m - k + j]
  /\ EndOf(all, Y) /\ Sorted(all)

LEMMA NextIsAppended ==
  ASSUME NEW Z, NEW Y, NEW times, NEW all, NEW t \in Nat, Appended(Y, Z, t), Appended(all, times, t),
         NEW s \in Nat, s <= Len(Z), KnownTimes(times, Z, s), Sorted(Y)
  PROVE  AllTimes(all, Y, Len(Z), Len(times), s)
<1>1. PICK m, k : m = Len(Z) /\ k = Len(times)
  OBVIOUS
<1>2. /\ m \in Nat /\ Len(Y) = m + 1 /\ DOMAIN Y = 1..(m + 1) /\ Y[m + 1] = t
      /\ \A n \in 1..m : Y[n] = Z[n] /\ Z[n] \in Nat
  BY <1>1 DEF Appended
<1>3. /\ k \in Nat /\ Len(all) = k + 1 /\ DOMAIN all = 1..(k + 1) /\ all[k + 1] = t
      /\ \A j \in 1..k : all[j] = times[j]
  BY <1>1 DEF Appended
<1>4. /\ k \in 0..(m - s)
      /\ \A j \in 1..k : times[j] = Z[m - k + j]
      /\ \/ k = MaxPerClient
         \/ \A n \in (s + 1)..(m - k) : m \in 1..m /\ Y[n] < Y[m] - RateWindow
  <2>1. CASE RightTimes(times, Z, s)
    <3>1. k \in 1..(m - s) /\ \A j \in 1..k : times[j] = Z[m - k + j]
      BY <1>1, <2>1 DEF RightTimes, EndOf
    <3>2. k = MaxPerClient \/ \A n \in (s + 1)..(m - k) : Z[n] < Z[m] - RateWindow
      BY <1>1, <2>1 DEF RightTimes
    <3>3. k \in 0..(m - s) /\ m \in 1..m
      BY <1>2, <3>1
    <3>6. \A n \in (s + 1)..(m - k) : Y[n] = Z[n]
      <4>1. \A n \in (s + 1)..(m - k) : n \in 1..m
        BY <1>2, <3>3
      <4> QED BY <1>2, <4>1
    <3>7. Y[m] = Z[m]
      BY <1>2, <3>3
    <3>4. \/ k = MaxPerClient
          \/ \A n \in (s + 1)..(m - k) : m \in 1..m /\ Y[n] < Y[m] - RateWindow
      BY <3>2, <3>3, <3>6, <3>7, Zenon
    <3>5. \A j \in 1..k : times[j] = Z[m - k + j]
      BY <3>1
    <3> QED BY <3>3, <3>4, <3>5, Zenon
  <2>2. CASE times = <<>> /\ s = Len(Z)
    <3>1. k = 0 /\ s = m
      BY <1>1, <2>2
    <3>2. (s + 1)..(m - k) = {} /\ 1..k = {} /\ k \in 0..(m - s)
      BY <1>2, <3>1
    <3> QED BY <3>2
  <2> QED BY <2>1, <2>2 DEF KnownTimes
<1>5. ASSUME NEW j \in 1..(k + 1) PROVE all[j] = Y[m - k + j]
  <2>1. CASE j = k + 1
    <3>1. m - k + j = m + 1
      BY <1>2, <1>3, <2>1
    <3> QED BY <1>2, <1>3, <2>1, <3>1
  <2>2. CASE j # k + 1
    <3>1. j \in 1..k /\ m - k + j \in 1..m
      BY <1>2, <1>3, <1>4, <2>2
    <3>2. PICK i \in 1..m : i = m - k + j
      BY <3>1
    <3>3. all[j] = times[j] /\ times[j] = Z[i] /\ Y[i] = Z[i]
      BY <1>2, <1>3, <1>4, <3>1, <3>2
    <3> QED BY <3>2, <3>3
  <2> QED BY <2>1, <2>2
<1>6. EndOf(all, Y)
  <2>1. \A j \in 1..(k + 1) : (m + 1) - (k + 1) + j = m - k + j
    BY <1>2, <1>3
  <2>2. k + 1 \in Nat /\ k + 1 <= m + 1
    BY <1>2, <1>4
  <2>3. \A j \in 1..(k + 1) : all[j] = Y[(m + 1) - (k + 1) + j]
    BY <1>5, <2>1
  <2> QED BY <1>2, <1>3, <2>2, <2>3 DEF EndOf
<1>7. Sorted(all)
  <2> SUFFICES ASSUME NEW i \in 1..(k + 1), NEW j \in 1..(k + 1), i <= j PROVE all[i] <= all[j]
    BY <1>3 DEF Sorted
  <2>1. m - k + i \in 1..(m + 1) /\ m - k + j \in 1..(m + 1) /\ m - k + i <= m - k + j
    BY <1>2, <1>4
  <2>2. Y[m - k + i] <= Y[m - k + j]
    BY <1>2, <2>1 DEF Sorted
  <2> QED BY <1>5, <2>2
<1> QED BY <1>1, <1>2, <1>3, <1>4, <1>5, <1>6, <1>7 DEF AllTimes

\* kept is what is not below x of all.
TrimmedAt(kept, all, x) ==
  /\ EndOf(kept, all)
  /\ \A n \in 1..(Len(all) - Len(kept)) : all[n] < x
  /\ \A n \in (Len(all) - Len(kept) + 1)..Len(all) : all[n] >= x

\* new is what the cap leaves of kept.
CappedTo(new, kept) ==
  /\ EndOf(new, kept)
  /\ Len(new) = IF Len(kept) <= MaxPerClient THEN Len(kept) ELSE MaxPerClient

\* What trimming and capping leave of them.
LEMMA NewTimes ==
  ASSUME NEW Y, NEW all, NEW kept, NEW new, NEW m, NEW k, NEW s \in Nat, AllTimes(all, Y, m, k, s),
         Sorted(Y), DOMAIN Y = 1..(m + 1), \A n \in 1..(m + 1) : Y[n] \in Nat,
         NEW x \in Int, x = Y[m + 1] - RateWindow,
         TrimmedAt(kept, all, x), CappedTo(new, kept)
  PROVE  RightTimes(new, Y, s)
<1>1. PICK q, r : q = Len(kept) /\ r = Len(new)
  OBVIOUS
<1>2. /\ m \in Nat /\ k \in 0..(m - s) /\ Len(all) = k + 1 /\ Len(Y) = m + 1 /\ k \in Nat
      /\ \A j \in 1..(k + 1) : all[j] = Y[m - k + j]
  BY DEF AllTimes
<1>3. MaxPerClient \in Nat \ {0} /\ RateWindow \in Nat
  BY StreamAssumption
<1>8. /\ \A n \in 1..(k + 1 - q) : all[n] < x
      /\ \A n \in (k + 1 - q + 1)..(k + 1) : all[n] >= x
  BY <1>1, <1>2 DEF TrimmedAt
<1>11. r = IF q <= MaxPerClient THEN q ELSE MaxPerClient
  BY <1>1 DEF CappedTo
<1>4. m \in Nat /\ k \in Nat /\ k <= m
  BY <1>2
<1>9. q \in Nat /\ q <= k + 1
  BY <1>1, <1>2 DEF EndOf, TrimmedAt
<1>10. q >= 1
  <2>1. all[k + 1] >= x /\ all[k + 1] \in Nat
    <3>1. k + 1 \in 1..(k + 1) /\ m - k + (k + 1) = m + 1 /\ m + 1 \in 1..(m + 1)
      BY <1>2
    <3>2. all[k + 1] = Y[m + 1] /\ Y[m + 1] \in Nat
      BY <1>2, <3>1
    <3>3. PICK y : y = Y[m + 1]
      OBVIOUS
    <3>4. y \in Nat /\ x = y - RateWindow
      BY <3>2, <3>3
    <3>5. y >= x
      BY <1>3, <3>4
    <3> QED BY <3>2, <3>3, <3>5
  <2>2. ~ (q = 0)
    <3> SUFFICES ASSUME q = 0 PROVE FALSE
      OBVIOUS
    <3>1. k + 1 \in 1..(k + 1 - q)
      BY <1>2
    <3>2. all[k + 1] < x
      BY <1>8, <3>1
    <3> QED BY <2>1, <3>2
  <2> QED BY <1>9, <2>2
<1>12. r \in 1..q /\ r <= MaxPerClient
  BY <1>3, <1>9, <1>10, <1>11
<1>13. EndOf(new, Y)
  <2>1. Len(all) \in Nat /\ Len(Y) \in Nat
    BY <1>2
  <2>2. EndOf(new, all)
    BY <2>1, EndOfEnd DEF TrimmedAt, CappedTo
  <2>3. EndOf(all, Y)
    BY DEF AllTimes
  <2> QED BY <2>1, <2>2, <2>3, EndOfEnd
<1>14. r \in 1..(m + 1 - s)
  BY <1>2, <1>9, <1>12
<1>15. ASSUME NEW n \in (m + 1 - r + 1)..(m + 1) PROVE Y[n] >= x
  <2>1. PICK j : j = n - (m - k)
    OBVIOUS
  <2>2. j \in (k + 1 - q + 1)..(k + 1) /\ j \in 1..(k + 1) /\ m - k + j = n
    BY <1>2, <1>9, <1>12, <2>1
  <2> QED BY <1>2, <1>8, <2>2
<1>20. ASSUME r = MaxPerClient \/ \A n \in (s + 1)..(m + 1 - r) : Y[n] < x
       PROVE  RightTimes(new, Y, s)
  <2>1. Len(new) = r /\ Len(Y) = m + 1 /\ Y[Len(Y)] - RateWindow = x
    BY <1>1, <1>2
  <2>5. PICK p : p = m + 1
    OBVIOUS
  <2>6. Len(new) = r /\ Len(Y) = p /\ Y[p] - RateWindow = x
    BY <2>1, <2>5
  <2>2. r \in 1..(p - s) /\ r <= MaxPerClient
    BY <1>4, <1>12, <1>14, <2>5
  <2>3. \A n \in (p - r + 1)..p : Y[n] >= Y[p] - RateWindow
    BY <1>4, <1>12, <1>15, <2>5, <2>6
  <2>4. \/ r = MaxPerClient
        \/ \A n \in (s + 1)..(p - r) : Y[n] < Y[p] - RateWindow
    BY <1>4, <1>12, <1>20, <2>5, <2>6
  <2> QED BY <1>13, <2>2, <2>3, <2>4, <2>6 DEF RightTimes
<1>16. CASE q > MaxPerClient
  <2>1. r = MaxPerClient
    BY <1>3, <1>9, <1>11, <1>16
  <2> QED BY <1>20, <2>1
<1>17. CASE q <= MaxPerClient /\ q < k + 1
  <2>1. r = q
    BY <1>11, <1>17
  <2>2. PICK j : j = k + 1 - q
    OBVIOUS
  <2>3. j \in 1..(k + 1 - q) /\ j \in 1..(k + 1) /\ m - k + j = m + 1 - r /\ m + 1 - r \in 1..(m + 1)
    BY <1>2, <1>9, <1>10, <1>17, <2>1, <2>2
  <2>4. Y[m + 1 - r] < x
    BY <1>2, <1>8, <2>3
  <2>5. ASSUME NEW n \in (s + 1)..(m + 1 - r) PROVE Y[n] < x
    <3>1. n \in 1..(m + 1) /\ n <= m + 1 - r
      BY <1>2, <2>3
    <3>2. Y[n] <= Y[m + 1 - r]
      BY <2>3, <3>1 DEF Sorted
    <3>3. Y[n] \in Nat /\ Y[m + 1 - r] \in Nat
      BY <2>3, <3>1
    <3>4. PICK a, b : a = Y[n] /\ b = Y[m + 1 - r]
      OBVIOUS
    <3>5. a \in Nat /\ b \in Nat /\ a <= b /\ b < x /\ x \in Int
      BY <2>4, <3>2, <3>3, <3>4
    <3> QED BY <3>4, <3>5
  <2> QED BY <1>20, <2>5
<1>18. CASE q <= MaxPerClient /\ ~ (q < k + 1)
  <2>1. r = q /\ q = k + 1 /\ k # MaxPerClient /\ m + 1 - r = m - k
    BY <1>4, <1>3, <1>9, <1>11, <1>18
  <2>2. ASSUME NEW n \in (s + 1)..(m - k) PROVE Y[n] < x
    <3>1. n \in 1..(m + 1) /\ m \in 1..(m + 1) /\ m + 1 \in 1..(m + 1) /\ m <= m + 1
      BY <1>2
    <3>2. Y[n] < Y[m] - RateWindow
      BY <2>1 DEF AllTimes
    <3>3. Y[m] <= Y[m + 1]
      BY <3>1 DEF Sorted
    <3>4. Y[n] \in Nat /\ Y[m] \in Nat /\ Y[m + 1] \in Nat
      BY <3>1
    <3>5. PICK a, b, t : a = Y[n] /\ b = Y[m] /\ t = Y[m + 1]
      OBVIOUS
    <3>6. a \in Nat /\ b \in Nat /\ t \in Nat /\ a < b - RateWindow /\ b <= t /\ x = t - RateWindow
      BY <3>2, <3>3, <3>4, <3>5
    <3>7. a < x
      BY <1>3, <3>6
    <3> QED BY <3>5, <3>7
  <2>3. \A n \in (s + 1)..(m + 1 - r) : Y[n] < x
    BY <2>1, <2>2
  <2> QED BY <1>20, <2>3
<1> QED BY <1>2, <1>3, <1>9, <1>16, <1>17, <1>18


\* What record() makes of the times of a client, at the time t of its next record.
LEMMA NextTimes ==
  ASSUME NEW Z \in Seq(Nat), NEW s \in Nat, s <= Len(Z), NEW times \in Seq(Nat), KnownTimes(times, Z, s),
         NEW t \in Nat, Sorted(Append(Z, t)), clock = t
  PROVE  RightTimes(C3!Capped(C3!Trimmed(Append(times, t))), Append(Z, t), s)
<1>1. PICK Y, all : Y = Append(Z, t) /\ all = Append(times, t)
  OBVIOUS
<1>2. Appended(Y, Z, t) /\ Appended(all, times, t) /\ all \in Seq(Nat)
  BY <1>1, AppendedFacts
<1>3. PICK m, k : m = Len(Z) /\ k = Len(times)
  OBVIOUS
<1>4. AllTimes(all, Y, m, k, s)
  BY <1>1, <1>2, <1>3, NextIsAppended
<1>5. PICK x : x = t - RateWindow
  OBVIOUS
<1>6. x \in Int
  <2>1. RateWindow \in Nat
    BY StreamAssumption
  <2> QED BY <1>5, <2>1
<1>7. PICK S : S = {n \in DOMAIN all : all[n] >= x}
  OBVIOUS
<1>8. PICK kept : kept = At(all, S)
  OBVIOUS
<1>9. /\ EndOf(kept, all) /\ kept \in Seq(Nat)
      /\ \A n \in 1..(Len(all) - Len(kept)) : all[n] < x
      /\ \A n \in (Len(all) - Len(kept) + 1)..Len(all) : all[n] >= x
  BY <1>2, <1>4, <1>6, <1>7, <1>8, TrimLeavesEnd DEF AllTimes
<1>10. PICK new : new = C3!Capped(kept)
  OBVIOUS
<1>11. /\ EndOf(new, kept)
       /\ Len(new) = IF Len(kept) <= MaxPerClient THEN Len(kept) ELSE MaxPerClient
  BY <1>9, <1>10, CapLeavesEnd
<1>12. /\ DOMAIN Y = 1..(m + 1) /\ Y[m + 1] = t /\ Sorted(Y)
       /\ \A n \in 1..(m + 1) : Y[n] \in Nat
  BY <1>1, <1>2, <1>3 DEF Appended
<1>13. RightTimes(new, Y, s)
  <2>1. TrimmedAt(kept, all, x) /\ CappedTo(new, kept)
    BY <1>9, <1>11 DEF TrimmedAt, CappedTo
  <2>2. x = Y[m + 1] - RateWindow
    BY <1>5, <1>12
  <2>3. Sorted(Y)
    BY <1>12
  <2>4. DOMAIN Y = 1..(m + 1) /\ \A n \in 1..(m + 1) : Y[n] \in Nat
    BY <1>12
  <2> QED BY <1>4, <1>6, <2>1, <2>2, <2>3, <2>4, NewTimes
<1>14. C3!Trimmed(all) = kept
  BY <1>5, <1>7, <1>8, SameAt DEF C3!Trimmed
<1> QED BY <1>1, <1>10, <1>13, <1>14

\* The times of the records of client c in log.enriched.
Stamps(c) == [n \in DOMAIN enriched[c] |-> enriched[c][n].timestamp]

LEMMA StampsFacts ==
  ASSUME StreamInv, NEW c \in Clients
  PROVE  /\ Stamps(c) \in Seq(Nat) /\ Len(Stamps(c)) = Len(enriched[c])
         /\ Len(enriched[c]) \in Nat /\ DOMAIN enriched[c] = 1..Len(enriched[c])
<1>1. enriched[c] \in Seq(EnrichedLines(c))
  BY DEF StreamInv, StreamTypes
<1>2. Len(enriched[c]) \in Nat /\ DOMAIN enriched[c] = 1..Len(enriched[c])
  BY <1>1, LenProperties
<1>3. \A n \in DOMAIN enriched[c] : enriched[c][n].timestamp \in Nat
  <2> TAKE n \in DOMAIN enriched[c]
  <2>1. enriched[c][n] \in EnrichedLines(c)
    BY <1>1, <1>2, ElementOfSeq
  <2> QED BY <2>1, StreamAssumption DEF EnrichedLines
<1>4. PICK k : k = Len(enriched[c])
  OBVIOUS
<1>5. Stamps(c) \in [1..k -> Nat] /\ k \in Nat
  BY <1>2, <1>3, <1>4 DEF Stamps
<1>6. Stamps(c) \in Seq(Nat) /\ Len(Stamps(c)) = k
  BY <1>5
<1> QED BY <1>2, <1>4, <1>6

\* The counter h of client c, whose partition is E and has the times Z.
RightCounter(h, E, Z, s) == RightTimes(h.times, Z, s) /\ E[Len(E)].rate = Len(h.times)

\* The records of a client are stamped in the order of time, and the counters are right.
CountersRight ==
  /\ since \in [Clients -> Nat] /\ \A c \in Clients : since[c] <= Len(enriched[c])
  /\ \A c \in Clients : Sorted(Stamps(c)) /\ \A n \in DOMAIN Stamps(c) : Stamps(c)[n] <= clock
  /\ OneEach(hits, "client")
  /\ \A n \in DOMAIN hits, c \in Clients :
       hits[n].client = c => RightCounter(hits[n], enriched[c], Stamps(c), since[c])

\* The counter of c after the record in hand.
Hit(c) == [client |-> c, times |-> C3!Capped(C3!Trimmed(Append(C3!Times(c), clock)))]

\* The counters after that: that of c, and old ones of other clients, one for each client.
LEMMA RecordedMap ==
  ASSUME StreamInv, OneEach(hits, "client"), NEW c \in Clients
  PROVE  /\ OneEach(C3!Recorded(c), "client") /\ C3!Rate(c) = Len(Hit(c).times)
         /\ \A n \in DOMAIN C3!Recorded(c) :
              \/ C3!Recorded(c)[n] = Hit(c)
              \/ \E m \in DOMAIN hits : hits[m].client # c /\ C3!Recorded(c)[n] = hits[m]
<1> DEFINE Other(x) == \E m \in DOMAIN hits : hits[m].client # c /\ x = hits[m]
           S == DOMAIN hits \ C3!Counter(c)
<1>1. PICK hit : hit = Hit(c)
  OBVIOUS
<1>2. hit \in SmallCounters /\ hit.client = c
  BY <1>1, CountedFacts DEF SmallCounters, Counters, Hit
<1>3. hits \in Seq(SmallCounters) /\ MaxTracked \in Nat \ {0}
  BY HitsAreSmall, StreamAssumption
<1>4. S \in SUBSET DOMAIN hits /\ \A n \in S : hits[n].client # c
  BY DEF C3!Counter
<1> HIDE DEF S
<1>5. PICK others : others = At(hits, S)
  OBVIOUS
<1>6. /\ others \in Seq(SmallCounters) /\ OneEach(others, "client")
      /\ \A n \in DOMAIN others : \E k \in S : others[n] = hits[k]
  BY <1>3, <1>4, <1>5, PartOfMap
<1>7. /\ \A n \in DOMAIN others : others[n]["client"] # hit["client"]
      /\ \A n \in DOMAIN others : Other(others[n])
  BY <1>2, <1>4, <1>6
<1>8. PICK all : all = Append(others, hit)
  OBVIOUS
<1>9. /\ all \in Seq(SmallCounters) /\ Len(all) = Len(others) + 1 /\ EndsWith(all, hit, others, "client")
      /\ Len(others) > 0 =>
           Tail(all) \in Seq(SmallCounters) /\ EndsWith(Tail(all), hit, others, "client")
      /\ Len(others) \in Nat
  <2>1. PICK f : f = "client"
    OBVIOUS
  <2>2. OneEach(others, f) /\ \A n \in DOMAIN others : others[n][f] # hit[f]
    BY <1>6, <1>7, <2>1
  <2>3. others \in Seq(SmallCounters) /\ hit \in SmallCounters /\ all = Append(others, hit)
    BY <1>2, <1>6, <1>8
  <2>4. all \in Seq(SmallCounters) /\ EndsWith(all, hit, others, f)
    BY <2>2, <2>3, LastOfMap
  <2>5. Len(others) > 0 => Tail(all) \in Seq(SmallCounters) /\ EndsWith(Tail(all), hit, others, f)
    BY <2>2, <2>3, LastOfMap
  <2>6. Len(all) = Len(others) + 1 /\ Len(others) \in Nat
    BY <2>3, AppendProperties, LenProperties
  <2> QED BY <2>1, <2>4, <2>5, <2>6
<1>10. PICK kept : kept = C3!Recorded(c)
  OBVIOUS
<1>11. kept = IF Len(all) > MaxTracked THEN Tail(all) ELSE all
  <2>1. C3!At(hits, S) = others
    BY <1>5, SameAt
  <2> QED BY <1>1, <1>8, <1>10, <2>1 DEF C3!Recorded, Hit, S
<1>12. EndsWith(kept, hit, others, "client")
  <2>1. CASE Len(all) > MaxTracked
    <3>1. Len(others) > 0
      BY <1>3, <1>9, <2>1
    <3> QED BY <1>9, <1>11, <2>1, <3>1
  <2>2. CASE ~ (Len(all) > MaxTracked)
    BY <1>9, <1>11, <2>2
  <2> QED BY <2>1, <2>2
<1>13. C3!Rate(c) = Len(hit.times)
  BY <1>10, <1>12 DEF EndsWith, C3!Rate
<1>14. \A n \in DOMAIN kept : kept[n] = hit \/ Other(kept[n])
  <2> HIDE DEF Other
  <2> QED BY <1>7, <1>12 DEF EndsWith
<1>15. OneEach(kept, "client")
  BY <1>12 DEF EndsWith
<1> QED BY <1>1, <1>10, <1>13, <1>14, <1>15

\* The times of a client before its next record.
LEMMA TimesAreKnown ==
  ASSUME StreamInv, CountersRight, NEW c \in Clients,
         NEW s, s = IF C3!Counter(c) = {} THEN Len(enriched[c]) ELSE since[c]
  PROVE  /\ KnownTimes(C3!Times(c), Stamps(c), s) /\ C3!Times(c) \in Seq(Nat)
         /\ s \in Nat /\ s <= Len(enriched[c])
<1>1. Len(enriched[c]) \in Nat /\ Len(Stamps(c)) = Len(enriched[c])
  BY StampsFacts
<1>2. CASE C3!Counter(c) = {}
  <2>1. C3!Times(c) = <<>> /\ s = Len(enriched[c])
    BY <1>2 DEF C3!Times
  <2> QED BY <1>1, <2>1, EmptySeq DEF KnownTimes
<1>3. CASE C3!Counter(c) # {}
  <2>1. PICK n \in DOMAIN hits : C3!Times(c) = hits[n].times /\ hits[n].client = c
    BY <1>3 DEF C3!Times, C3!Counter
  <2>2. s = since[c] /\ RightTimes(hits[n].times, Stamps(c), since[c])
    BY <1>3, <2>1 DEF CountersRight, RightCounter
  <2>3. hits[n] \in Counters
    <3>1. hits \in Seq(Counters)
      BY DEF StreamInv, StreamTypes
    <3> QED BY <3>1, LenProperties, ElementOfSeq
  <2>4. hits[n].times \in Seq(Nat)
    <3>1. hits[n].times \in Seq(Instants) /\ Instants \subseteq Nat
      BY <2>3, StreamAssumption DEF Counters
    <3> QED BY <3>1, SeqMonotonic
  <2>5. s \in Nat /\ s <= Len(enriched[c])
    BY <2>2 DEF CountersRight
  <2> QED BY <2>1, <2>2, <2>4, <2>5 DEF KnownTimes
<1> QED BY <1>2, <1>3

\* One more number, not below the others, keeps a sequence ascending.
LEMMA SortedAppend ==
  ASSUME NEW Z \in Seq(Nat), Sorted(Z), NEW t \in Nat, \A n \in DOMAIN Z : Z[n] <= t
  PROVE  Sorted(Append(Z, t)) /\ \A n \in DOMAIN Append(Z, t) : Append(Z, t)[n] <= t
<1>1. PICK Y, m : Y = Append(Z, t) /\ m = Len(Z)
  OBVIOUS
<1>2. /\ m \in Nat /\ DOMAIN Z = 1..m /\ DOMAIN Y = 1..(m + 1) /\ Y[m + 1] = t
      /\ \A n \in 1..m : Y[n] = Z[n]
  <2>1. Appended(Y, Z, t)
    BY <1>1, AppendedFacts
  <2>2. DOMAIN Z = 1..m
    BY <1>1, LenProperties
  <2> QED BY <1>1, <2>1, <2>2 DEF Appended
<1>3. \A n \in 1..(m + 1) : Y[n] <= t
  <2> TAKE n \in 1..(m + 1)
  <2>1. n = m + 1 \/ n \in 1..m
    BY <1>2
  <2>2. t <= t
    OBVIOUS
  <2> QED BY <1>2, <2>1, <2>2
<1>4. ASSUME NEW i \in 1..(m + 1), NEW j \in 1..(m + 1), i <= j PROVE Y[i] <= Y[j]
  <2>1. j = m + 1 \/ (i \in 1..m /\ j \in 1..m)
    BY <1>2, <1>4
  <2>2. CASE j = m + 1
    BY <1>2, <1>3, <2>2
  <2>3. CASE i \in 1..m /\ j \in 1..m
    BY <1>2, <1>4, <2>3 DEF Sorted
  <2> QED BY <2>1, <2>2, <2>3
<1>5. Sorted(Y)
  BY <1>2, <1>4 DEF Sorted
<1> QED BY <1>1, <1>2, <1>3, <1>5

\* A record more of client c keeps the counters right.
LEMMA CountedRight ==
  ASSUME StreamInv, StreamInv', CountersRight, NEW c \in Clients, NEW n,
         hits' = C3!Recorded(c), clock' = clock,
         since' = IF C3!Counter(c) = {} THEN [since EXCEPT ![c] = Len(enriched[c])] ELSE since,
         enriched' = [enriched EXCEPT ![c] = Append(@, C3!Enriched(n, C3!Rate(c)))]
  PROVE  CountersRight'
<1>1. PICK r : r = C3!Enriched(n, C3!Rate(c))
  OBVIOUS
<1>2. r.timestamp = clock /\ r.rate = C3!Rate(c) /\ clock \in Nat
  <2>1. clock \in Instants /\ Instants \subseteq Nat
    BY StreamAssumption DEF StreamInv, TypeOK
  <2> QED BY <1>1, <2>1 DEF C3!Enriched
<1>3. PICK E, F, m : E = enriched[c] /\ F = enriched'[c] /\ m = Len(E)
  OBVIOUS
<1>4. /\ F = Append(E, r) /\ E \in Seq(EnrichedLines(c)) /\ m \in Nat
      /\ \A d \in Clients \ {c} : enriched'[d] = enriched[d]
  <2>1. DOMAIN enriched = Clients /\ E \in Seq(EnrichedLines(c))
    BY <1>3 DEF StreamInv, StreamTypes
  <2> QED BY <1>1, <1>3, <2>1, LenProperties
<1>5. /\ Len(F) = m + 1 /\ DOMAIN F = 1..(m + 1) /\ F[m + 1] = r /\ DOMAIN E = 1..m
      /\ \A i \in 1..m : F[i] = E[i]
  <2>1. F \in Seq(EnrichedLines(c))
    BY <1>3 DEF StreamInv, StreamTypes
  <2>2. DOMAIN F = 1..Len(F) /\ DOMAIN E = 1..m
    BY <1>3, <1>4, <2>1, LenProperties
  <2> QED BY <1>3, <1>4, <2>2
<1>6. PICK Z : Z = Stamps(c)
  OBVIOUS
<1>7. Z \in Seq(Nat) /\ Len(Z) = m /\ DOMAIN Z = 1..m /\ Z = [i \in 1..m |-> E[i].timestamp]
  BY <1>3, <1>5, <1>6, StampsFacts DEF Stamps
<1>8. Stamps(c)' = Append(Z, clock)
  <2>1. PICK Y : Y = Stamps(c)'
    OBVIOUS
  <2>2. Y = [i \in 1..(m + 1) |-> F[i].timestamp]
    BY <1>3, <1>5, <2>1 DEF Stamps
  <2>3. \A i \in 1..m : Y[i] = Z[i]
    BY <1>4, <1>5, <1>7, <2>2
  <2>4. Y[m + 1] = clock
    BY <1>2, <1>4, <1>5, <2>2
  <2>5. PICK X : X = Append(Z, clock)
    OBVIOUS
  <2>6. X = [i \in 1..(m + 1) |-> IF i = m + 1 THEN clock ELSE Z[i]]
    BY <1>4, <1>7, <2>5
  <2>7. \A i \in 1..(m + 1) : Y[i] = X[i]
    BY <1>4, <2>3, <2>4, <2>6
  <2>8. Y = X
    BY <2>2, <2>6, <2>7
  <2> QED BY <2>1, <2>5, <2>8
<1>9. \A d \in Clients \ {c} : Stamps(d)' = Stamps(d)
  BY <1>4 DEF Stamps
<1>10. Sorted(Z) /\ \A i \in DOMAIN Z : Z[i] <= clock
  BY <1>6 DEF CountersRight
<1>11. \A d \in Clients : Sorted(Stamps(d)') /\ \A i \in DOMAIN Stamps(d)' : Stamps(d)'[i] <= clock
  <2> TAKE d \in Clients
  <2>1. CASE d = c
    BY <1>2, <1>7, <1>8, <1>10, <2>1, SortedAppend
  <2>2. CASE d # c
    BY <1>9, <2>2 DEF CountersRight
  <2> QED BY <2>1, <2>2
<1>12. PICK s : s = IF C3!Counter(c) = {} THEN Len(enriched[c]) ELSE since[c]
  OBVIOUS
<1>13. KnownTimes(C3!Times(c), Z, s) /\ C3!Times(c) \in Seq(Nat) /\ s \in Nat /\ s <= m
  BY <1>3, <1>6, <1>12, TimesAreKnown
<1>14. since'[c] = s /\ since' \in [Clients -> Nat] /\ \A d \in Clients \ {c} : since'[d] = since[d]
  BY <1>12, <1>13 DEF CountersRight
<1>15. RightTimes(Hit(c).times, Stamps(c)', s)
  <2>1. Sorted(Append(Z, clock))
    BY <1>2, <1>7, <1>10, SortedAppend
  <2>2. RightTimes(C3!Capped(C3!Trimmed(Append(C3!Times(c), clock))), Append(Z, clock), s)
    BY <1>2, <1>7, <1>13, <2>1, NextTimes
  <2> QED BY <1>8, <2>2 DEF Hit
<1>16. /\ OneEach(hits', "client") /\ C3!Rate(c) = Len(Hit(c).times)
       /\ \A i \in DOMAIN hits' :
            \/ hits'[i] = Hit(c)
            \/ \E j \in DOMAIN hits : hits[j].client # c /\ hits'[i] = hits[j]
  BY RecordedMap DEF CountersRight
<1>17. RightCounter(Hit(c), F, Stamps(c)', s)
  <2>1. F[Len(F)].rate = Len(Hit(c).times)
    BY <1>2, <1>5, <1>16
  <2> QED BY <1>15, <2>1 DEF RightCounter
<1>18. ASSUME NEW i \in DOMAIN hits', NEW d \in Clients, hits'[i].client = d
       PROVE  RightCounter(hits'[i], enriched'[d], Stamps(d)', since'[d])
  <2>1. CASE hits'[i] = Hit(c)
    <3>1. d = c
      BY <1>18, <2>1 DEF Hit
    <3> QED BY <1>3, <1>14, <1>17, <2>1, <3>1
  <2>2. ASSUME NEW j \in DOMAIN hits, hits[j].client # c, hits'[i] = hits[j]
        PROVE  RightCounter(hits'[i], enriched'[d], Stamps(d)', since'[d])
    <3>1. d # c /\ RightCounter(hits[j], enriched[d], Stamps(d), since[d])
      BY <1>18, <2>2 DEF CountersRight
    <3>2. enriched'[d] = enriched[d] /\ Stamps(d)' = Stamps(d) /\ since'[d] = since[d]
      BY <1>4, <1>9, <1>14, <3>1
    <3> QED BY <2>2, <3>1, <3>2
  <2> QED BY <1>16, <2>1, <2>2
<1>19. \A d \in Clients : since'[d] <= Len(enriched'[d])
  <2> TAKE d \in Clients
  <2>1. CASE d = c
    <3>1. s <= m + 1
      BY <1>4, <1>13
    <3> QED BY <1>3, <1>5, <1>14, <2>1, <3>1
  <2>2. CASE d # c
    BY <1>4, <1>14, <2>2 DEF CountersRight
  <2> QED BY <2>1, <2>2
<1> QED BY <1>11, <1>14, <1>16, <1>18, <1>19 DEF CountersRight

\* Any other step leaves the counters, or C3 loses them in a restart.
LEMMA CountersStay ==
  ASSUME StreamInv, CountersRight, UNCHANGED <<enriched, since>>, hits' \in {hits, <<>>},
         clock \in Nat, clock' \in Nat, clock <= clock'
  PROVE  CountersRight'
<1>1. \A c \in Clients : Stamps(c)' = Stamps(c)
  BY DEF Stamps
<1>2. ASSUME NEW c \in Clients, NEW n \in DOMAIN Stamps(c) PROVE Stamps(c)[n] <= clock'
  <2>1. Stamps(c)[n] <= clock /\ Stamps(c)[n] \in Nat
    <3>1. Stamps(c) \in Seq(Nat)
      BY StampsFacts
    <3> QED BY <3>1, LenProperties, ElementOfSeq DEF CountersRight
  <2>2. PICK x : x = Stamps(c)[n]
    OBVIOUS
  <2> QED BY <2>1, <2>2
<1>3. CASE hits' = hits
  BY <1>1, <1>2, <1>3 DEF CountersRight
<1>4. CASE hits' = <<>>
  <2>1. DOMAIN hits' = {}
    BY <1>4
  <2> QED BY <1>1, <1>2, <2>1 DEF CountersRight, OneEach
<1> QED BY <1>3, <1>4

\* The counters are right after every step.
LEMMA CountersStep ==
  ASSUME StreamInv, StreamInv', CountersRight, [Next]_vars
  PROVE  CountersRight'
<1>1. clock \in Nat /\ clock' \in Nat
  <2>1. clock \in Instants /\ clock' \in Instants
    BY DEF StreamInv, TypeOK
  <2> QED BY <2>1, StreamAssumption
<1>2. CASE UNCHANGED <<clock, enriched, since>> /\ hits' \in {hits, <<>>}
  BY <1>1, <1>2, CountersStay
<1>3. CASE ParsingStep \/ DetectionStep \/ UNCHANGED vars
  <2>1. UNCHANGED <<clock, enriched, since, hits>>
    BY <1>3 DEF ParsingStep, DetectionStep, Detector!Next, Detector!Process, Detector!Commit,
                Detector!Restart, enrichment, vars, topics
  <2> QED BY <1>2, <2>1
<1>4. CASE Tick
  <2>1. UNCHANGED <<enriched, since, hits>> /\ clock < clock'
    BY <1>1, <1>4 DEF Tick, topics, enrichment
  <2> QED BY <1>1, <2>1, CountersStay
<1>5. CASE EnrichmentStep
  <2>1. ASSUME NEW c \in Clients, C3!Enrich(c) PROVE CountersRight'
    <3>1. CASE UNCHANGED <<clock, enriched, hits, since>>
      BY <1>2, <3>1
    <3>2. ASSUME NEW n, hits' = C3!Recorded(c), clock' = clock,
                 since' = IF C3!Counter(c) = {} THEN [since EXCEPT ![c] = Len(enriched[c])] ELSE since,
                 enriched' = [enriched EXCEPT ![c] = Append(@, C3!Enriched(n, C3!Rate(c)))]
          PROVE  CountersRight'
      BY <3>2, CountedRight
    <3> QED BY <2>1, <3>1, <3>2 DEF C3!Enrich
  <2>2. CASE C3!EnrichCommit \/ C3!EnrichRestart
    BY <1>2, <2>2 DEF C3!EnrichCommit, C3!EnrichRestart
  <2> QED BY <1>5, <2>1, <2>2 DEF EnrichmentStep, C3!Next
<1> QED BY <1>3, <1>4, <1>5 DEF Next

LEMMA CountersInit == Init => CountersRight
<1> SUFFICES ASSUME Init PROVE CountersRight
  OBVIOUS
<1>1. enriched = [c \in Clients |-> <<>>] /\ hits = <<>> /\ since = [c \in Clients |-> 0]
  BY DEF Init, C3!Init
<1>2. \A c \in Clients : Stamps(c) = <<>> /\ Len(enriched[c]) = 0
  BY <1>1 DEF Stamps
<1> QED BY <1>1, <1>2 DEF CountersRight, Sorted, OneEach

\* Enrichment counts with the same cardinality.
LEMMA EnrichmentCardinality == \A S : C3!Cardinality(S) = Cardinality(S)
  BY DEF C3!Cardinality, Cardinality

\* The times that C3 holds are counted with those of the records.
LEMMA RightTimesCount ==
  ASSUME NEW Z \in Seq(Nat), Z # <<>>, Sorted(Z), NEW s \in Nat, NEW times,
         RightTimes(times, Z, s), RateWindow \in Nat, MaxPerClient \in Nat,
         NEW recent,
         recent = {n \in (s + 1)..Len(Z) : Z[n] >= Z[Len(Z)] - RateWindow}
  PROVE  /\ Cardinality(recent) \in Nat
         /\ Len(times) = IF Cardinality(recent) > MaxPerClient THEN MaxPerClient
                         ELSE Cardinality(recent)
<1>1. PICK m, k : m = Len(Z) /\ k = Len(times)
  OBVIOUS
<1>2. m \in Nat /\ DOMAIN Z = 1..m /\ \A n \in 1..m : Z[n] \in Nat
  BY <1>1, LenProperties, ElementOfSeq
<1>3. k \in Nat /\ 1 <= k /\ s + k <= m /\ k <= MaxPerClient
  <2>1. k \in 1..(m - s) /\ k <= MaxPerClient /\ k \in Nat
    BY <1>1 DEF RightTimes, EndOf
  <2> QED BY <1>2, <2>1
<1>4. PICK f : f = m - k + 1
  OBVIOUS
<1>5. f \in Nat /\ s + 1 <= f /\ f <= m /\ m - f + 1 = k
  BY <1>2, <1>3, <1>4
<1>6. IsFiniteSet(f..m) /\ Cardinality(f..m) = k
  <2>1. Cardinality(f..m) = m - f + 1
    BY <1>2, <1>5, FS_Interval
  <2> QED BY <1>2, <1>5, <2>1, FS_Interval
<1>7. recent \in SUBSET ((s + 1)..m) /\ IsFiniteSet((s + 1)..m)
  BY <1>1, <1>2, FS_Interval
<1>8. IsFiniteSet(recent) /\ Cardinality(recent) \in Nat
  BY <1>7, FS_Subset, FS_CardinalityType
<1>9. f..m \in SUBSET recent
  <2>1. \A n \in f..m : n \in (s + 1)..m
    BY <1>2, <1>5
  <2>2. \A n \in f..m : Z[n] >= Z[m] - RateWindow
    BY <1>1, <1>4 DEF RightTimes
  <2> QED BY <1>1, <2>1, <2>2
<1>10. k <= Cardinality(recent)
  BY <1>6, <1>8, <1>9, FS_Subset
<1>11. CASE k = MaxPerClient
  BY <1>1, <1>3, <1>8, <1>10, <1>11
<1>12. CASE k # MaxPerClient
  <2>1. \A n \in (s + 1)..(m - k) : Z[n] < Z[m] - RateWindow
    BY <1>1, <1>12 DEF RightTimes
  <2>2. ASSUME NEW n \in recent PROVE n \in f..m
    <3>1. n \in (s + 1)..m /\ Z[n] >= Z[m] - RateWindow
      BY <1>1, <2>2
    <3>2. n \in f..m \/ n \in (s + 1)..(m - k)
      BY <1>2, <1>3, <1>4, <3>1
    <3>3. CASE n \in (s + 1)..(m - k)
      <4>1. Z[n] \in Nat /\ Z[m] \in Nat
        BY <1>2, <1>3, <3>1
      <4>2. PICK x, y : x = Z[n] /\ y = Z[m] - RateWindow
        OBVIOUS
      <4>3. x \in Int /\ y \in Int /\ x < y /\ x >= y
        BY <2>1, <3>1, <3>3, <4>1, <4>2
      <4> QED BY <4>3
    <3> QED BY <3>2, <3>3
  <2>3. recent = f..m
    BY <1>9, <2>2
  <2>4. Cardinality(recent) = k
    BY <1>6, <2>3
  <2> QED BY <1>1, <1>3, <2>4
<1> QED BY <1>11, <1>12

LEMMA RatesAreExact == StreamInv /\ CountersRight => C3!RateIsExact
<1> SUFFICES ASSUME StreamInv, CountersRight, NEW n \in DOMAIN hits, NEW c, c = hits[n].client,
                    NEW m, m = Len(enriched[c]), NEW recent,
                    recent = {i \in (since[c] + 1)..m :
                                enriched[c][i].timestamp >= enriched[c][m].timestamp - RateWindow}
             PROVE  enriched[c][m].rate = IF C3!Cardinality(recent) > MaxPerClient THEN MaxPerClient
                                          ELSE C3!Cardinality(recent)
  BY DEF C3!RateIsExact
<1>1. c \in Clients
  <2>1. hits \in Seq(Counters)
    BY DEF StreamInv, StreamTypes
  <2>2. hits[n] \in Counters
    BY <2>1, LenProperties, ElementOfSeq
  <2> QED BY <2>2 DEF Counters
<1>2. PICK Z : Z = Stamps(c)
  OBVIOUS
<1>3. /\ Z \in Seq(Nat) /\ Len(Z) = m /\ m \in Nat /\ DOMAIN Z = 1..m /\ DOMAIN enriched[c] = 1..m
      /\ Sorted(Z)
  BY <1>1, <1>2, StampsFacts, LenProperties DEF CountersRight
<1>4. \A i \in 1..m : Z[i] = enriched[c][i].timestamp
  BY <1>2, <1>3 DEF Stamps
<1>5. RightTimes(hits[n].times, Z, since[c]) /\ enriched[c][m].rate = Len(hits[n].times)
  BY <1>1, <1>2 DEF CountersRight, RightCounter
<1>6. since[c] \in Nat
  BY <1>1 DEF CountersRight
<1>7. m \in 1..m /\ Z # <<>>
  <2>1. Len(hits[n].times) \in Nat /\ 1 <= m - since[c]
    BY <1>3, <1>5, <1>6 DEF RightTimes, EndOf
  <2>2. m >= 1
    BY <1>3, <1>6, <2>1
  <2> QED BY <1>3, <2>2
<1>8. recent = {i \in (since[c] + 1)..Len(Z) : Z[i] >= Z[Len(Z)] - RateWindow}
  <2>1. \A i \in (since[c] + 1)..m : i \in 1..m
    BY <1>3, <1>6
  <2> QED BY <1>3, <1>4, <1>7, <2>1
<1>9. RateWindow \in Nat /\ MaxPerClient \in Nat
  BY StreamAssumption
<1>10. Len(hits[n].times) = IF Cardinality(recent) > MaxPerClient THEN MaxPerClient
                            ELSE Cardinality(recent)
  BY <1>3, <1>5, <1>6, <1>7, <1>8, <1>9, RightTimesCount
<1>11. C3!Cardinality(recent) = Cardinality(recent)
  BY EnrichmentCardinality
<1> QED BY <1>5, <1>10, <1>11

-----------------------------------------------------------------------------
(* What the stages count.                                                  *)

\* The inductive invariant of the counts: the windows of DDOS, the bursts, the counters of C3.
CountsInv == StreamInv /\ DomainWindows /\ Bursts /\ CountersRight

LEMMA CountsStep == StreamInv' /\ CountsInv /\ [Next]_vars => CountsInv'
<1> SUFFICES ASSUME StreamInv', CountsInv, [Next]_vars PROVE CountsInv'
  OBVIOUS
<1>1. StreamInv /\ DomainWindows /\ Bursts /\ CountersRight
  BY DEF CountsInv
<1>2. DomainWindows'
  BY <1>1, WindowsStep
<1>3. Bursts'
  BY <1>1, BurstsStep
<1>4. CountersRight'
  BY <1>1, CountersStep
<1> QED BY <1>2, <1>3, <1>4 DEF CountsInv

LEMMA CountsInvariant == Spec => []CountsInv
<1>1. Init /\ StreamInv => CountsInv
  BY WindowsInit, BurstsInit, CountersInit DEF CountsInv
<1> QED BY <1>1, CountsStep, StreamInvariant, PTL DEF Spec

\* The rate that C3 writes into a record, and the totals by which DDOS judges a domain, are
\* those of the records themselves: for any number of trackers pushed out, restarts, lines
\* that come late and clients whose partitions are merged in any order.
THEOREM CountsStayExact == Spec => []CountsAreExact
<1>1. CountsInv => CountsAreExact
  BY RightIsExact, RatesAreExact DEF CountsInv, CountsAreExact
<1> QED BY <1>1, CountsInvariant, PTL

\* When a domain reaches both thresholds with requests that all came after the loss of its
\* last window, DDOS has alerted: for that request, or for one before it that is less than a
\* cooldown older.  A restart of DDOS loses only what was committed before it, a removal of
\* the window what came before it; a burst which they split is the code's to miss.
THEOREM BurstsAreNotMissed == Spec => []BurstIsAlerted
<1>1. CountsInv => BurstIsAlerted
  BY BurstsAreAlerted DEF CountsInv
<1> QED BY <1>1, CountsInvariant, PTL

-----------------------------------------------------------------------------
(* What restarts repeat.                                                   *)

\* What a function makes of a finite set is finite, and no larger.
LEMMA ImageSize ==
  ASSUME NEW S, IsFiniteSet(S), NEW f
  PROVE  IsFiniteSet({f[x] : x \in S}) /\ Cardinality({f[x] : x \in S}) <= Cardinality(S)
<1>1. PICK T : T = {f[x] : x \in S}
  OBVIOUS
<1>2. PICK g : g = [x \in S |-> f[x]]
  OBVIOUS
<1>3. g \in Surjection(S, T)
  BY <1>1, <1>2 DEF Surjection
<1> QED BY <1>1, <1>3, FS_Surjection

\* A set of numbers that is finite and not empty has a greatest one.
LEMMA GreatestOf ==
  ASSUME NEW S, IsFiniteSet(S), S \subseteq Int, S # {}
  PROVE  \E n \in S : \A m \in S : m <= n
<1>1. Cardinality(S) \in Nat /\ Cardinality(S) # 0
  BY FS_CardinalityType, FS_EmptySet
<1>2. PICK k, n : k = Cardinality(S) /\ n = Nth(S, k)
  OBVIOUS
<1>3. k \in 1..Cardinality(S) /\ n \in S
  <2>1. k \in 1..Cardinality(S)
    BY <1>1, <1>2
  <2> QED BY <1>2, <2>1, NthFacts
<1>4. ASSUME NEW m \in S PROVE m <= n
  <2>1. Rank(S, m) \in 1..Cardinality(S) /\ Nth(S, Rank(S, m)) = m
    BY NthFacts
  <2>2. Rank(S, m) = k \/ Rank(S, m) < k
    BY <1>1, <1>2, <2>1
  <2>3. ASSUME Rank(S, m) < k PROVE m < n
    <3>1. Nth(S, Rank(S, m)) < Nth(S, k)
      BY <1>3, <2>1, <2>3, NthFacts
    <3> QED BY <1>2, <2>1, <3>1
  <2>4. m \in Int /\ n \in Int
    BY <1>3
  <2> QED BY <1>2, <2>1, <2>2, <2>3, <2>4
<1> QED BY <1>3, <1>4

\* Some block of the log is the longest.
LEMMA LongestFacts ==
  /\ LongestBlock \in Nat
  /\ \A c \in Clients : \A i \in DOMAIN Raw[c] : Len(Raw[c][i]) <= LongestBlock
<1> DEFINE sizes == [c \in Clients |-> {Len(Raw[c][i]) : i \in DOMAIN Raw[c]}]
           all == UNION {sizes[c] : c \in Clients}
           lengths == {0} \cup UNION {{Len(Raw[c][i]) : i \in DOMAIN Raw[c]} : c \in Clients}
<1>1. ASSUME NEW c \in Clients PROVE IsFiniteSet(sizes[c]) /\ sizes[c] \subseteq Nat
  <2>1. PICK f : f = [i \in DOMAIN Raw[c] |-> Len(Raw[c][i])]
    OBVIOUS
  <2>2. Len(Raw[c]) \in Nat /\ DOMAIN Raw[c] = 1..Len(Raw[c])
    <3>1. Raw[c] \in Seq(Seq(Nat \cup {Malformed, NoTime}))
      BY StreamAssumption
    <3> QED BY <3>1, LenProperties
  <2>3. IsFiniteSet(DOMAIN Raw[c])
    BY <2>2, FS_Interval
  <2>4. IsFiniteSet({f[i] : i \in DOMAIN Raw[c]})
    BY <2>3, ImageSize
  <2>5. {f[i] : i \in DOMAIN Raw[c]} = sizes[c]
    BY <2>1
  <2>6. \A i \in DOMAIN Raw[c] : Len(Raw[c][i]) \in Nat
    BY LogFacts
  <2> QED BY <2>4, <2>5, <2>6
<1>2. IsFiniteSet(all)
  <2>1. IsFiniteSet({sizes[c] : c \in Clients})
    <3> HIDE DEF sizes
    <3> QED BY ClientsAreFinite, ImageSize
  <2>2. \A T \in {sizes[c] : c \in Clients} : IsFiniteSet(T)
    <3> HIDE DEF sizes
    <3> QED BY <1>1
  <2> HIDE DEF sizes
  <2> QED BY <2>1, <2>2, FS_UNION
<1>3. lengths = all \cup {0}
  OBVIOUS
<1>4. IsFiniteSet(lengths)
  <2> HIDE DEF all, lengths
  <2> QED BY <1>2, <1>3, FS_AddElement
<1>5. lengths \subseteq Nat
  BY <1>1
<1>6. 0 \in lengths /\ lengths \subseteq Int
  BY <1>5
<1>7. \E n \in lengths : \A m \in lengths : m <= n
  <2> HIDE DEF lengths
  <2> QED BY <1>4, <1>6, GreatestOf
<1>8. LongestBlock = CHOOSE n \in lengths : \A m \in lengths : m <= n
  BY Zenon DEF LongestBlock
<1>9. LongestBlock \in lengths /\ \A m \in lengths : m <= LongestBlock
  <2> HIDE DEF lengths
  <2> QED BY <1>7, <1>8, Zenon
<1>10. \A c \in Clients : \A i \in DOMAIN Raw[c] : Len(Raw[c][i]) \in lengths
  OBVIOUS
<1> QED BY <1>5, <1>9, <1>10

\* What a stage holds of one client is no more than its batch, which spans the clients.
LEMMA PartOfBatch ==
  ASSUME NEW from, NEW to, \A d \in Clients : from[d] \in Nat /\ to[d] \in Nat,
         NEW c \in Clients, from[c] <= to[c],
         Cardinality(UNION {{d} \X ((from[d] + 1)..to[d]) : d \in Clients}) < MaxPoll
  PROVE  to[c] - from[c] < MaxPoll
<1> DEFINE part == [d \in Clients |-> {d} \X ((from[d] + 1)..to[d])]
           batch == UNION {part[d] : d \in Clients}
<1>1. ASSUME NEW d \in Clients
      PROVE  /\ IsFiniteSet(part[d])
             /\ Cardinality(part[d]) = Cardinality({d}) * Cardinality((from[d] + 1)..to[d])
  <2>1. IsFiniteSet({d})
    BY FS_Singleton
  <2>2. from[d] + 1 \in Int /\ to[d] \in Int
    OBVIOUS
  <2>3. IsFiniteSet((from[d] + 1)..to[d])
    BY <2>2, FS_Interval
  <2> QED BY <2>1, <2>3, FS_Product
<1>2. IsFiniteSet(batch)
  <2>1. IsFiniteSet({part[d] : d \in Clients})
    <3> HIDE DEF part
    <3> QED BY ClientsAreFinite, ImageSize
  <2>2. \A T \in {part[d] : d \in Clients} : IsFiniteSet(T)
    <3> HIDE DEF part
    <3> QED BY <1>1
  <2> HIDE DEF part
  <2> QED BY <2>1, <2>2, FS_UNION
<1>3. part[c] \in SUBSET batch
  <2> HIDE DEF part
  <2> QED OBVIOUS
<1>4. Cardinality(part[c]) <= Cardinality(batch) /\ Cardinality(batch) \in Nat
  <2> HIDE DEF part, batch
  <2> QED BY <1>2, <1>3, FS_Subset, FS_CardinalityType
<1>5. Cardinality(part[c]) = to[c] - from[c]
  <2>1. Cardinality({c}) = 1
    BY FS_Singleton
  <2>2. Cardinality((from[c] + 1)..to[c]) = to[c] - from[c]
    <3>1. from[c] + 1 \in Int /\ to[c] \in Int
      OBVIOUS
    <3>2. Cardinality((from[c] + 1)..to[c])
            = IF from[c] + 1 > to[c] THEN 0 ELSE to[c] - (from[c] + 1) + 1
      BY <3>1, FS_Interval
    <3> QED BY <3>2
  <2>3. Cardinality(part[c]) = Cardinality({c}) * Cardinality((from[c] + 1)..to[c])
    BY <1>1
  <2> HIDE DEF part
  <2> QED BY <2>1, <2>2, <2>3
<1>6. Cardinality(batch) < MaxPoll
  OBVIOUS
<1>7. MaxPoll \in Nat
  BY StreamAssumption
<1> HIDE DEF part, batch
<1> QED BY <1>4, <1>5, <1>6, <1>7

\* The cardinality of LogParsing, too, is that of FiniteSets.
LEMMA ParsingCardinality == \A S : C2!Cardinality(S) = Cardinality(S)
  BY DEF C2!Cardinality, Cardinality

\* The faults of the given kinds: a finite number, one more with each of them.
LEMMA FaultsCounted ==
  ASSUME StreamInv, NEW kinds
  PROVE  /\ IsFiniteSet(Happened(kinds)) /\ Cardinality(Happened(kinds)) \in Nat
         /\ \A kind \in Kinds : faults' = Append(faults, kind) =>
              Cardinality(Happened(kinds)')
                = Cardinality(Happened(kinds)) + (IF kind \in kinds THEN 1 ELSE 0)
<1>1. faults \in Seq(Kinds) /\ Len(faults) \in Nat /\ DOMAIN faults = 1..Len(faults)
  BY LenProperties DEF StreamInv, StreamTypes
<1>2. Happened(kinds) \in SUBSET (1..Len(faults)) /\ IsFiniteSet(1..Len(faults))
  BY <1>1, FS_Interval DEF Happened
<1>3. IsFiniteSet(Happened(kinds)) /\ Cardinality(Happened(kinds)) \in Nat
  BY <1>2, FS_Subset, FS_CardinalityType
<1>4. ASSUME NEW kind \in Kinds, faults' = Append(faults, kind)
      PROVE  Cardinality(Happened(kinds)')
               = Cardinality(Happened(kinds)) + (IF kind \in kinds THEN 1 ELSE 0)
  <2>1. PICK m : m = Len(faults)
    OBVIOUS
  <2>2. /\ m \in Nat /\ DOMAIN faults = 1..m /\ DOMAIN faults' = 1..(m + 1) /\ faults'[m + 1] = kind
        /\ \A n \in 1..m : faults'[n] = faults[n]
    BY <1>1, <1>4, <2>1, AppendProperties, LenProperties
  <2>3. CASE kind \in kinds
    <3>1. \A n : n \in Happened(kinds)' <=> n \in Happened(kinds) \/ n = m + 1
      BY <2>2, <2>3 DEF Happened
    <3>2. Happened(kinds)' = Happened(kinds) \cup {m + 1}
      BY <3>1
    <3>3. m + 1 \notin Happened(kinds)
      BY <2>2 DEF Happened
    <3> QED BY <1>3, <2>3, <3>2, <3>3, FS_AddElement
  <2>4. CASE kind \notin kinds
    <3>1. \A n : n \in Happened(kinds)' <=> n \in Happened(kinds)
      BY <2>2, <2>4 DEF Happened
    <3>2. Happened(kinds)' = Happened(kinds)
      BY <3>1
    <3> QED BY <1>3, <2>4, <3>2
  <2> QED BY <2>3, <2>4
<1> QED BY <1>3, <1>4

\* The lines of a sequence of records.
LinesIn(s) == {s[n].line : n \in DOMAIN s}

LEMMA LinesAreFinite ==
  ASSUME NEW T, NEW s \in Seq(T)
  PROVE  IsFiniteSet(LinesIn(s)) /\ Cardinality(LinesIn(s)) \in Nat
<1>1. PICK f : f = [n \in DOMAIN s |-> s[n].line]
  OBVIOUS
<1>2. LinesIn(s) = {f[n] : n \in DOMAIN s}
  BY <1>1 DEF LinesIn
<1>3. IsFiniteSet(DOMAIN s)
  <2>1. DOMAIN s = 1..Len(s) /\ Len(s) \in Nat
    BY LenProperties
  <2> QED BY <2>1, FS_Interval
<1>4. IsFiniteSet({f[n] : n \in DOMAIN s})
  BY <1>3, ImageSize
<1> QED BY <1>2, <1>4, FS_CardinalityType

\* Of a topic of len records, whose lines are R, all but B have a line of H for themselves.
Spread(len, H, R, B) == len <= Cardinality(H \cap R) + B

\* New lines are handled and published.
LEMMA SpreadPublished ==
  ASSUME NEW H, IsFiniteSet(H), NEW R, NEW len \in Nat, NEW B \in Nat, Spread(len, H, R, B),
         NEW T, IsFiniteSet(T), T \cap H = {}, NEW S, R \cup T \subseteq S
  PROVE  Spread(len + Cardinality(T), H \cup T, S, B)
<1>1. PICK old, all : old = H \cap R /\ all = (H \cup T) \cap S
  OBVIOUS
<1>2. IsFiniteSet(old) /\ IsFiniteSet(H \cup T) /\ IsFiniteSet(all)
  BY <1>1, FS_Subset, FS_Union
<1>3. old \cup T \in SUBSET all /\ old \cap T = {}
  BY <1>1
<1>4. Cardinality(old \cup T) <= Cardinality(all)
  BY <1>2, <1>3, FS_Subset
<1>5. Cardinality(old \cup T) = Cardinality(old) + Cardinality(T) - Cardinality({})
  BY <1>2, <1>3, FS_Union
<1>6. /\ Cardinality({}) = 0 /\ Cardinality(old) \in Nat /\ Cardinality(T) \in Nat
      /\ Cardinality(all) \in Nat
  BY <1>2, FS_EmptySet, FS_CardinalityType
<1> QED BY <1>1, <1>4, <1>5, <1>6 DEF Spread

\* More lines are handled, or more is allowed.
LEMMA SpreadHandled ==
  ASSUME NEW H, NEW R, NEW len \in Nat, NEW B \in Nat, Spread(len, H, R, B),
         NEW J, IsFiniteSet(J), H \subseteq J, NEW C \in Nat, B <= C
  PROVE  Spread(len, J, R, C)
<1>1. PICK old, all : old = H \cap R /\ all = J \cap R
  OBVIOUS
<1>2. IsFiniteSet(all) /\ old \in SUBSET all
  BY <1>1, FS_Intersection
<1>3. IsFiniteSet(old) /\ Cardinality(old) <= Cardinality(all)
  BY <1>2, FS_Subset
<1>4. Cardinality(old) \in Nat /\ Cardinality(all) \in Nat
  BY <1>2, <1>3, FS_CardinalityType
<1> QED BY <1>1, <1>3, <1>4 DEF Spread

\* The lines of X are handled no longer, and n records more are published.
LEMMA SpreadBack ==
  ASSUME NEW H, IsFiniteSet(H), NEW R, NEW len \in Nat, NEW B \in Nat, Spread(len, H, R, B),
         NEW J, NEW X, IsFiniteSet(X), H \subseteq J \cup X, J \subseteq H,
         NEW S, R \subseteq S, NEW n \in Nat, NEW b \in Nat, Cardinality(X) + n <= b
  PROVE  Spread(len + n, J, S, B + b)
<1>1. PICK old, rest : old = H \cap R /\ rest = J \cap S
  OBVIOUS
<1>2. IsFiniteSet(old) /\ IsFiniteSet(J) /\ IsFiniteSet(rest) /\ IsFiniteSet(rest \cup X)
  BY <1>1, FS_Subset, FS_Union
<1>3. old \in SUBSET (rest \cup X)
  BY <1>1
<1>4. Cardinality(old) <= Cardinality(rest \cup X)
  BY <1>2, <1>3, FS_Subset
<1>5. Cardinality(rest \cup X) = Cardinality(rest) + Cardinality(X) - Cardinality(rest \cap X)
  BY <1>2, FS_Union
<1>6. IsFiniteSet(rest \cap X)
  BY <1>2, FS_Intersection
<1>7. /\ Cardinality(old) \in Nat /\ Cardinality(rest) \in Nat /\ Cardinality(X) \in Nat
      /\ Cardinality(rest \cap X) \in Nat /\ Cardinality(rest \cup X) \in Nat
  BY <1>2, <1>6, FS_CardinalityType
<1> QED BY <1>1, <1>4, <1>5, <1>7 DEF Spread

\* The lines of the input s, handled up to p, that nothing will publish but a replay.
Spare(s, p, R) == {l \in LinesIn(s) \ R : \A n \in DOMAIN s : n > p => s[n].line # l}

\* Of the p records of s that a stage has handled, all but B of the len that it has published
\* are not of those that it left out.
Relayed(len, s, p, R, B) == len + Cardinality(Spare(s, p, R)) <= p + B

LEMMA SpareIsFinite ==
  ASSUME NEW T, NEW s \in Seq(T), NEW p, NEW R
  PROVE  IsFiniteSet(Spare(s, p, R)) /\ Cardinality(Spare(s, p, R)) \in Nat
<1>1. Spare(s, p, R) \in SUBSET LinesIn(s)
  BY DEF Spare
<1> QED BY <1>1, LinesAreFinite, FS_Subset, FS_CardinalityType

\* Fewer lines are left out.
LEMMA RelayedStays ==
  ASSUME NEW T, NEW s \in Seq(T), NEW p \in Nat, NEW R, NEW len \in Nat, NEW B \in Nat,
         Relayed(len, s, p, R, B),
         NEW U, NEW t \in Seq(U), NEW q \in Nat, NEW S, NEW out \in Nat, NEW C \in Nat,
         Spare(t, q, S) \subseteq Spare(s, p, R), out + p + B <= len + q + C
  PROVE  Relayed(out, t, q, S, C)
<1>1. /\ IsFiniteSet(Spare(s, p, R)) /\ Cardinality(Spare(s, p, R)) \in Nat
      /\ Cardinality(Spare(t, q, S)) \in Nat
  BY SpareIsFinite
<1>2. Spare(t, q, S) \in SUBSET Spare(s, p, R)
  OBVIOUS
<1>3. Cardinality(Spare(t, q, S)) <= Cardinality(Spare(s, p, R))
  BY <1>1, <1>2, FS_Subset
<1>4. PICK x, y : x = Cardinality(Spare(s, p, R)) /\ y = Cardinality(Spare(t, q, S))
  OBVIOUS
<1>5. x \in Nat /\ y \in Nat /\ y <= x /\ len + x <= p + B
  BY <1>1, <1>3, <1>4 DEF Relayed
<1>6. out + y <= q + C
  BY <1>5
<1> QED BY <1>4, <1>6 DEF Relayed

\* The input grows, or more is allowed.
LEMMA RelayedInputGrows ==
  ASSUME NEW T, NEW s \in Seq(T), NEW p \in Nat, p <= Len(s), NEW R, NEW len \in Nat, NEW B \in Nat,
         Relayed(len, s, p, R, B), NEW U, NEW t \in Seq(U), Grown(s, t), NEW C \in Nat, B <= C
  PROVE  Relayed(len, t, p, R, C)
<1>1. /\ DOMAIN s = 1..Len(s) /\ Len(s) \in Nat /\ DOMAIN t = 1..Len(t) /\ Len(t) \in Nat
  BY LenProperties
<1>2. \A n \in DOMAIN s : n \in DOMAIN t /\ t[n] = s[n]
  BY <1>1 DEF Grown
<1>3. ASSUME NEW l \in Spare(t, p, R) PROVE l \in Spare(s, p, R)
  <2>1. /\ l \in LinesIn(t) /\ l \notin R /\ \A n \in DOMAIN t : n > p => t[n].line # l
    BY DEF Spare
  <2>2. PICK n \in DOMAIN t : l = t[n].line
    BY <2>1 DEF LinesIn
  <2>3. n \in DOMAIN s
    BY <1>1, <2>1, <2>2
  <2>4. l \in LinesIn(s)
    BY <1>2, <2>2, <2>3 DEF LinesIn
  <2>5. \A k \in DOMAIN s : k > p => s[k].line # l
    BY <1>2, <2>1
  <2> QED BY <2>1, <2>4, <2>5 DEF Spare
<1>4. len + p + B <= len + p + C
  OBVIOUS
<1> QED BY <1>3, <1>4, RelayedStays

\* The next record is published.
LEMMA RelayedPublished ==
  ASSUME NEW T, NEW s \in Seq(T), NEW p \in Nat, p < Len(s), NEW R, NEW len \in Nat, NEW B \in Nat,
         Relayed(len, s, p, R, B)
  PROVE  Relayed(len + 1, s, p + 1, R \cup {s[p + 1].line}, B)
<1>1. DOMAIN s = 1..Len(s) /\ Len(s) \in Nat
  BY LenProperties
<1>2. PICK S : S = R \cup {s[p + 1].line}
  OBVIOUS
<1>3. ASSUME NEW l \in Spare(s, p + 1, S) PROVE l \in Spare(s, p, R)
  <2>1. /\ l \in LinesIn(s) /\ l \notin R /\ l # s[p + 1].line
        /\ \A n \in DOMAIN s : n > p + 1 => s[n].line # l
    BY <1>2 DEF Spare
  <2>2. \A n \in DOMAIN s : n > p => n = p + 1 \/ n > p + 1
    BY <1>1
  <2> QED BY <2>1, <2>2 DEF Spare
<1>4. (len + 1) + p + B <= len + (p + 1) + B /\ len + 1 \in Nat /\ p + 1 \in Nat
  OBVIOUS
<1>5. Relayed(len + 1, s, p + 1, S, B)
  BY <1>3, <1>4, RelayedStays
<1> QED BY <1>2, <1>5

\* The next record is left out.
LEMMA RelayedSkipped ==
  ASSUME NEW T, NEW s \in Seq(T), NEW p \in Nat, p < Len(s), NEW R, NEW len \in Nat, NEW B \in Nat,
         Relayed(len, s, p, R, B)
  PROVE  Relayed(len, s, p + 1, R, B)
<1>1. DOMAIN s = 1..Len(s) /\ Len(s) \in Nat
  BY LenProperties
<1>2. PICK l : l = s[p + 1].line
  OBVIOUS
<1>3. Spare(s, p + 1, R) \in SUBSET (Spare(s, p, R) \cup {l})
  <2>1. ASSUME NEW k \in Spare(s, p + 1, R), k # l PROVE k \in Spare(s, p, R)
    <3>1. k \in LinesIn(s) /\ k \notin R /\ \A n \in DOMAIN s : n > p + 1 => s[n].line # k
      BY <2>1 DEF Spare
    <3>2. \A n \in DOMAIN s : n > p => n = p + 1 \/ n > p + 1
      BY <1>1
    <3> QED BY <1>2, <2>1, <3>1, <3>2 DEF Spare
  <2> QED BY <2>1
<1>4. IsFiniteSet(Spare(s, p, R)) /\ Cardinality(Spare(s, p, R)) \in Nat
  BY SpareIsFinite
<1>5. /\ IsFiniteSet(Spare(s, p, R) \cup {l})
      /\ Cardinality(Spare(s, p, R) \cup {l}) <= Cardinality(Spare(s, p, R)) + 1
  <2>1. PICK S : S = Spare(s, p, R)
    OBVIOUS
  <2>2. IsFiniteSet(S \cup {l}) /\ Cardinality(S \cup {l}) = IF l \in S THEN Cardinality(S) ELSE Cardinality(S) + 1
    BY <1>4, <2>1, FS_AddElement
  <2>3. Cardinality(S) \in Nat
    BY <1>4, <2>1
  <2> QED BY <2>1, <2>2, <2>3
<1>6. Cardinality(Spare(s, p + 1, R)) <= Cardinality(Spare(s, p, R) \cup {l})
  BY <1>3, <1>5, FS_Subset
<1>7. Cardinality(Spare(s, p + 1, R)) \in Nat /\ Cardinality(Spare(s, p, R) \cup {l}) \in Nat
  BY <1>5, SpareIsFinite, FS_CardinalityType
<1> QED BY <1>4, <1>5, <1>6, <1>7 DEF Relayed

\* The stage goes back in its input.
LEMMA RelayedBack ==
  ASSUME NEW T, NEW s \in Seq(T), NEW p \in Nat, NEW R, NEW len \in Nat, NEW B \in Nat,
         Relayed(len, s, p, R, B), NEW q \in Nat, NEW b \in Nat, q <= p, p - q <= b
  PROVE  Relayed(len, s, q, R, B + b)
<1>1. DOMAIN s = 1..Len(s) /\ Len(s) \in Nat
  BY LenProperties
<1>2. \A n \in DOMAIN s : n > p => n > q
  BY <1>1
<1>3. Spare(s, q, R) \subseteq Spare(s, p, R)
  BY <1>2 DEF Spare
<1>4. len + p + B <= len + q + (B + b) /\ B + b \in Nat
  OBVIOUS
<1> QED BY <1>3, <1>4, RelayedStays

\* A union is no larger than its parts together.
LEMMA UnionSize ==
  ASSUME NEW S, IsFiniteSet(S), NEW T, IsFiniteSet(T)
  PROVE  /\ IsFiniteSet(S \cup T)
         /\ Cardinality(S \cup T) <= Cardinality(S) + Cardinality(T)
<1>1. IsFiniteSet(S \cap T) /\ IsFiniteSet(S \cup T)
  BY FS_Intersection, FS_Union
<1>2. Cardinality(S \cup T) = Cardinality(S) + Cardinality(T) - Cardinality(S \cap T)
  BY FS_Union
<1>3. Cardinality(S) \in Nat /\ Cardinality(T) \in Nat /\ Cardinality(S \cap T) \in Nat
  BY <1>1, FS_CardinalityType
<1> QED BY <1>1, <1>2, <1>3

\* A stage repeats what its input repeats, and what it repeats itself.
LEMMA RelayedRepeats ==
  ASSUME NEW T, NEW s \in Seq(T), NEW p \in Nat, p <= Len(s), NEW R, IsFiniteSet(R),
         NEW len \in Nat, NEW B \in Nat, NEW A \in Nat,
         Relayed(len, s, p, R, B), Len(s) <= Cardinality(LinesIn(s)) + A
  PROVE  len <= Cardinality(R) + (A + B)
<1>1. DOMAIN s = 1..Len(s) /\ Len(s) \in Nat
  BY LenProperties
<1>2. PICK later : later = {s[n].line : n \in (p + 1)..Len(s)}
  OBVIOUS
<1>3. IsFiniteSet(later) /\ Cardinality(later) <= Len(s) - p
  <2>1. PICK f : f = [n \in (p + 1)..Len(s) |-> s[n].line]
    OBVIOUS
  <2>2. later = {f[n] : n \in (p + 1)..Len(s)}
    BY <1>2, <2>1
  <2>3. IsFiniteSet((p + 1)..Len(s)) /\ Cardinality((p + 1)..Len(s)) = Len(s) - p
    <3>1. p + 1 \in Int /\ Len(s) \in Int
      BY <1>1
    <3>2. Cardinality((p + 1)..Len(s)) = IF p + 1 > Len(s) THEN 0 ELSE Len(s) - (p + 1) + 1
      BY <3>1, FS_Interval
    <3>3. Cardinality((p + 1)..Len(s)) = Len(s) - p
      BY <1>1, <3>2
    <3>4. IsFiniteSet((p + 1)..Len(s))
      BY <3>1, FS_Interval
    <3> QED BY <3>3, <3>4
  <2>4. IsFiniteSet(later) /\ Cardinality(later) <= Cardinality((p + 1)..Len(s))
    BY <2>2, <2>3, ImageSize
  <2> QED BY <2>3, <2>4
<1>4. PICK spare : spare = Spare(s, p, R)
  OBVIOUS
<1>5. IsFiniteSet(spare) /\ Cardinality(spare) \in Nat
  BY <1>4, SpareIsFinite
<1>6. LinesIn(s) \in SUBSET ((R \cup spare) \cup later)
  <2>1. ASSUME NEW l \in LinesIn(s), l \notin R, l \notin later PROVE l \in spare
    <3>1. \A n \in DOMAIN s : n > p => n \in (p + 1)..Len(s)
      BY <1>1
    <3> QED BY <1>2, <1>4, <2>1, <3>1 DEF Spare
  <2> QED BY <2>1
<1>7. /\ IsFiniteSet(R \cup spare) /\ IsFiniteSet((R \cup spare) \cup later)
      /\ Cardinality(R \cup spare) <= Cardinality(R) + Cardinality(spare)
      /\ Cardinality((R \cup spare) \cup later) <= Cardinality(R \cup spare) + Cardinality(later)
  BY <1>3, <1>5, UnionSize
<1>8. Cardinality(LinesIn(s)) <= Cardinality((R \cup spare) \cup later)
  BY <1>6, <1>7, FS_Subset
<1>9. /\ Cardinality(LinesIn(s)) \in Nat /\ Cardinality(R) \in Nat /\ Cardinality(later) \in Nat
      /\ Cardinality(R \cup spare) \in Nat /\ Cardinality((R \cup spare) \cup later) \in Nat
  BY <1>3, <1>7, LinesAreFinite, FS_CardinalityType
<1>10. len + Cardinality(spare) <= p + B
  BY <1>4 DEF Relayed
<1>11. PICK a, x, y, u, v, w :
          /\ a = Cardinality(LinesIn(s)) /\ x = Cardinality(R) /\ y = Cardinality(spare)
          /\ u = Cardinality(R \cup spare) /\ v = Cardinality((R \cup spare) \cup later)
          /\ w = Cardinality(later)
  OBVIOUS
<1>12. a \in Nat /\ x \in Nat /\ y \in Nat /\ u \in Nat /\ v \in Nat /\ w \in Nat
  BY <1>5, <1>9, <1>11
<1>13. /\ w <= Len(s) - p /\ u <= x + y /\ v <= u + w /\ a <= v /\ len + y <= p + B
       /\ Len(s) <= a + A
  BY <1>3, <1>7, <1>8, <1>10, <1>11
<1>14. len <= x + (A + B)
  BY <1>1, <1>12, <1>13
<1> QED BY <1>11, <1>14

\* Of a sequence of k elements, those that stand there for the second time leave one of each.
LEMMA RepeatsOfSequence ==
  ASSUME NEW k \in Nat, NEW s,
         NEW again, again = {n \in 1..k : \E m \in 1..(n - 1) : s[m] = s[n]},
         NEW R, R = {s[n] : n \in 1..k}
  PROVE  /\ IsFiniteSet(again) /\ IsFiniteSet(R)
         /\ Cardinality(again) \in Nat /\ Cardinality(R) \in Nat
         /\ Cardinality(again) + Cardinality(R) <= k
<1>1. IsFiniteSet(1..k) /\ Cardinality(1..k) = k
  BY FS_Interval
<1>2. PICK first : first = 1..k \ again
  OBVIOUS
<1>3. first \in SUBSET (1..k) /\ again \in SUBSET (1..k)
  BY <1>2
<1>4. IsFiniteSet(first) /\ IsFiniteSet(again)
  BY <1>1, <1>3, FS_Subset
<1>5. ASSUME NEW x \in R PROVE \E n \in first : x = s[n]
  <2>1. PICK places : places = {n \in 1..k : s[n] = x}
    OBVIOUS
  <2>2. places # {} /\ places \subseteq Nat
    BY <2>1
  <2>3. PICK n \in places : \A m \in places : ~ (<<m, n>> \in OpToRel(<, Nat))
    BY <2>2, NatLessThanWellFounded, WFMin
  <2>4. n \in 1..k /\ s[n] = x
    BY <2>1
  <2>5. \A m \in 1..(n - 1) : s[m] # s[n]
    <3> SUFFICES ASSUME NEW m \in 1..(n - 1), s[m] = s[n] PROVE FALSE
      OBVIOUS
    <3>1. m \in 1..k /\ m < n /\ m \in Nat /\ n \in Nat
      BY <2>4
    <3>2. m \in places
      BY <2>1, <2>4, <3>1
    <3> QED BY <2>3, <3>1, <3>2 DEF OpToRel
  <2> QED BY <1>2, <2>4, <2>5
<1>6. PICK found : found = {s[n] : n \in first}
  OBVIOUS
<1>7. R = found
  BY <1>3, <1>5, <1>6
<1>8. IsFiniteSet(R) /\ Cardinality(R) <= Cardinality(first)
  <2>1. IsFiniteSet(found) /\ Cardinality(found) <= Cardinality(first)
    BY <1>4, <1>6, ImageSize
  <2> QED BY <1>7, <2>1
<1>9. Cardinality(first) = k - Cardinality(again)
  <2>1. Cardinality(first) = Cardinality(1..k) - Cardinality((1..k) \cap again)
    BY <1>1, <1>2, FS_Difference
  <2>2. (1..k) \cap again = again
    BY <1>3
  <2> QED BY <1>1, <2>1, <2>2
<1>10. Cardinality(again) \in Nat /\ Cardinality(R) \in Nat /\ Cardinality(first) \in Nat
  BY <1>4, <1>8, FS_CardinalityType
<1> QED BY <1>4, <1>8, <1>9, <1>10

\* The copies that REPARTITION made for client c, by their places in the partition of its
\* domain, and their lines.
CopiesOf(c) == {n \in DOMAIN byDomain[DomainOf[c]] : byDomain[DomainOf[c]][n][1] = c}
LineOfCopy(c) ==
  [n \in DOMAIN byDomain[DomainOf[c]] |-> enriched[c][byDomain[DomainOf[c]][n][2]].line]
CopiedLines(c) == {LineOfCopy(c)[n] : n \in CopiesOf(c)}

LEMMA CopiesAreFinite ==
  ASSUME StreamInv, NEW c \in Clients
  PROVE  /\ IsFiniteSet(CopiesOf(c)) /\ Cardinality(CopiesOf(c)) \in Nat
         /\ IsFiniteSet(CopiedLines(c)) /\ Cardinality(CopiedLines(c)) \in Nat
         /\ DomainOf[c] \in Domains /\ byDomain[DomainOf[c]] \in Seq(Clients \X Nat)
<1>1. DomainOf[c] \in Domains
  BY StreamAssumption
<1>2. byDomain[DomainOf[c]] \in Seq(Clients \X Nat)
  BY <1>1 DEF StreamInv, StreamTypes
<1>3. IsFiniteSet(DOMAIN byDomain[DomainOf[c]])
  <2>1. DOMAIN byDomain[DomainOf[c]] = 1..Len(byDomain[DomainOf[c]]) /\ Len(byDomain[DomainOf[c]]) \in Nat
    BY <1>2, LenProperties
  <2> QED BY <2>1, FS_Interval
<1>4. CopiesOf(c) \in SUBSET DOMAIN byDomain[DomainOf[c]]
  BY DEF CopiesOf
<1>5. IsFiniteSet(CopiesOf(c))
  BY <1>3, <1>4, FS_Subset
<1>6. IsFiniteSet(CopiedLines(c))
  BY <1>5, ImageSize DEF CopiedLines
<1> QED BY <1>1, <1>2, <1>5, <1>6, FS_CardinalityType

\* What REPARTITION made of client c, in the order of the places.
LEMMA CopiedFacts ==
  ASSUME StreamInv, NEW c \in Clients
  PROVE  \E k \in Nat :
           /\ k = Cardinality(CopiesOf(c)) /\ DOMAIN Copied(c) = 1..k
           /\ \A n \in 1..k : /\ Nth(CopiesOf(c), n) \in CopiesOf(c)
                              /\ Copied(c)[n] = LineOfCopy(c)[Nth(CopiesOf(c), n)]
           /\ \A m \in CopiesOf(c) : /\ Rank(CopiesOf(c), m) \in 1..k
                                     /\ Nth(CopiesOf(c), Rank(CopiesOf(c), m)) = m
<1>0. PICK S, k : S = CopiesOf(c) /\ k = Cardinality(S)
  OBVIOUS
<1>1. PICK all, of : all = byDomain[DomainOf[c]] /\ of = At(all, S)
  OBVIOUS
<1>2. /\ all \in Seq(Clients \X Nat) /\ S \in SUBSET DOMAIN all /\ k \in Nat
      /\ IsFiniteSet(S) /\ S \subseteq Int
  <2>1. all \in Seq(Clients \X Nat) /\ k \in Nat /\ IsFiniteSet(S)
    BY <1>0, <1>1, CopiesAreFinite
  <2>2. S \in SUBSET DOMAIN all
    BY <1>0, <1>1 DEF CopiesOf
  <2>3. DOMAIN all = 1..Len(all)
    BY <2>1, LenProperties
  <2> QED BY <2>1, <2>2, <2>3
<1>3. of \in Seq(Clients \X Nat) /\ Len(of) = k /\ DOMAIN of = 1..k
  <2>1. of \in Seq(Clients \X Nat) /\ Len(of) = k
    BY <1>0, <1>1, <1>2, AtFacts
  <2> QED BY <2>1, LenProperties
<1>4. \A n \in 1..k : Nth(S, n) \in S /\ of[n] = all[Nth(S, n)]
  <2>1. all \in Seq(Clients \X Nat) /\ S \in SUBSET DOMAIN all
    BY <1>2
  <2>2. \A n \in 1..Cardinality(S) : Nth(S, n) \in S /\ At(all, S)[n] = all[Nth(S, n)]
    BY <2>1, AtFacts
  <2> QED BY <1>0, <1>1, <2>2
<1>5. Copied(c) = [n \in 1..k |-> enriched[c][of[n][2]].line]
  BY <1>0, <1>1, <1>3 DEF Copied, CopiesOf
<1>6. \A n \in 1..k : Copied(c)[n] = LineOfCopy(c)[Nth(S, n)]
  <2> TAKE n \in 1..k
  <2>1. PICK m : m = Nth(S, n)
    OBVIOUS
  <2>2. m \in DOMAIN all /\ of[n] = all[m]
    BY <1>2, <1>4, <2>1
  <2>3. LineOfCopy(c) = [x \in DOMAIN all |-> enriched[c][all[x][2]].line]
    BY <1>1 DEF LineOfCopy
  <2>4. LineOfCopy(c)[m] = enriched[c][of[n][2]].line
    BY <2>2, <2>3
  <2>5. Copied(c)[n] = enriched[c][of[n][2]].line
    BY <1>5
  <2> QED BY <2>1, <2>4, <2>5
<1>7. \A m \in S : Rank(S, m) \in 1..k /\ Nth(S, Rank(S, m)) = m
  BY <1>0, <1>2, NthFacts
<1> QED BY <1>0, <1>2, <1>4, <1>5, <1>6, <1>7

\* The repeats that DDOS receives are what the copies are more than their lines.
LEMMA RepeatsAreCopies ==
  ASSUME StreamInv, NEW c \in Clients
  PROVE  /\ IsFiniteSet(Repeats(c)) /\ Cardinality(Repeats(c)) \in Nat
         /\ Cardinality(Repeats(c)) + Cardinality(CopiedLines(c)) <= Cardinality(CopiesOf(c))
<1>1. PICK S, s : S = CopiesOf(c) /\ s = Copied(c)
  OBVIOUS
<1>2. PICK k \in Nat :
      /\ k = Cardinality(S) /\ DOMAIN s = 1..k
      /\ \A n \in 1..k : Nth(S, n) \in S /\ s[n] = LineOfCopy(c)[Nth(S, n)]
      /\ \A m \in S : Rank(S, m) \in 1..k /\ Nth(S, Rank(S, m)) = m
  BY <1>1, CopiedFacts
<1>3. PICK again, R : again = Repeats(c) /\ R = CopiedLines(c)
  OBVIOUS
<1>4. R = {s[n] : n \in 1..k}
  <2>1. R = {LineOfCopy(c)[n] : n \in S}
    BY <1>1, <1>3 DEF CopiedLines
  <2>2. \A m \in S : \E n \in 1..k : LineOfCopy(c)[m] = s[n]
    BY <1>2
  <2>3. \A n \in 1..k : s[n] \in R
    BY <1>2, <2>1
  <2>4. \A x \in R : \E n \in 1..k : x = s[n]
    BY <2>1, <2>2
  <2> QED BY <2>3, <2>4
<1>5. again = {n \in 1..k : \E m \in 1..(n - 1) : s[m] = s[n]}
  BY <1>1, <1>2, <1>3 DEF Repeats
<1>6. k \in Nat
  BY <1>2
<1>7. IsFiniteSet(again) /\ Cardinality(again) \in Nat
  BY <1>4, <1>5, <1>6, RepeatsOfSequence, Zenon
<1>8. Cardinality(again) + Cardinality(R) <= k
  BY <1>4, <1>5, <1>6, RepeatsOfSequence, Zenon
<1> QED BY <1>1, <1>2, <1>3, <1>7, <1>8

\* Without repeats, different copies are of different lines.
LEMMA CopiesAreDifferent ==
  ASSUME StreamInv, NEW c \in Clients, Repeats(c) = {},
         NEW m \in CopiesOf(c), NEW n \in CopiesOf(c), LineOfCopy(c)[m] = LineOfCopy(c)[n]
  PROVE  m = n
<1>1. PICK S, s : S = CopiesOf(c) /\ s = Copied(c)
  OBVIOUS
<1>2. PICK k \in Nat :
      /\ k = Cardinality(S) /\ DOMAIN s = 1..k
      /\ \A x \in 1..k : Nth(S, x) \in S /\ s[x] = LineOfCopy(c)[Nth(S, x)]
      /\ \A x \in S : Rank(S, x) \in 1..k /\ Nth(S, Rank(S, x)) = x
  BY <1>1, CopiedFacts
<1>3. PICK x, y : x = Rank(S, m) /\ y = Rank(S, n)
  OBVIOUS
<1>4. x \in 1..k /\ y \in 1..k /\ s[x] = s[y] /\ Nth(S, x) = m /\ Nth(S, y) = n
  BY <1>1, <1>2, <1>3
<1>5. \A a \in 1..k : \A b \in 1..k : a < b => s[a] # s[b]
  <2>1. \A b \in 1..k : \A a \in 1..(b - 1) : s[a] # s[b]
    BY <1>1, <1>2 DEF Repeats
  <2>2. \A a \in 1..k : \A b \in 1..k : a < b => a \in 1..(b - 1)
    BY <1>2
  <2> QED BY <2>1, <2>2
<1>6. x = y
  <2>1. x = y \/ x < y \/ y < x
    BY <1>2, <1>4
  <2> QED BY <1>4, <1>5, <2>1
<1> QED BY <1>4, <1>6

\* What the restarts of the three stages may have repeated.
ParseReplays == MaxPoll * (LongestBlock * Cardinality(Happened({"parse"})))
EnrichReplays == MaxPoll * Cardinality(Happened({"enrich"}))
CopyReplays == MaxPoll * Cardinality(Happened({"copy"}))

LEMMA ReplaysCounted ==
  ASSUME StreamInv
  PROVE  /\ ParseReplays \in Nat /\ EnrichReplays \in Nat /\ CopyReplays \in Nat
         /\ \A kind \in Kinds : faults' = Append(faults, kind) =>
              /\ ParseReplays' = ParseReplays + (IF kind = "parse" THEN MaxPoll * LongestBlock ELSE 0)
              /\ EnrichReplays' = EnrichReplays + (IF kind = "enrich" THEN MaxPoll ELSE 0)
              /\ CopyReplays' = CopyReplays + (IF kind = "copy" THEN MaxPoll ELSE 0)
<1> DEFINE Count(k) == Cardinality(Happened({k}))
<1>1. MaxPoll \in Nat /\ LongestBlock \in Nat
  BY StreamAssumption, LongestFacts
<1>2. \A k : Count(k) \in Nat
  BY FaultsCounted
<1>3. ASSUME NEW kind \in Kinds, faults' = Append(faults, kind), NEW k
      PROVE  Count(k)' = Count(k) + (IF kind = k THEN 1 ELSE 0)
  <2>1. PICK kinds : kinds = {k}
    OBVIOUS
  <2>2. Cardinality(Happened(kinds)') = Cardinality(Happened(kinds)) + (IF kind \in kinds THEN 1 ELSE 0)
    BY <1>3, FaultsCounted
  <2>3. kind \in kinds <=> kind = k
    BY <2>1
  <2>4. Happened(kinds)' = Happened({k})'
    BY <2>1
  <2> QED BY <2>1, <2>2, <2>3, <2>4
<1> HIDE DEF Count
<1>4. \A a, b \in Nat : MaxPoll * (a + b) = MaxPoll * a + MaxPoll * b
  BY <1>1
<1>5. \A a \in Nat : MaxPoll * (LongestBlock * (a + 1)) = MaxPoll * (LongestBlock * a) + MaxPoll * LongestBlock
  <2> TAKE a \in Nat
  <2>1. LongestBlock * (a + 1) = LongestBlock * a + LongestBlock /\ LongestBlock * a \in Nat
    BY <1>1
  <2>2. PICK u : u = LongestBlock * a
    OBVIOUS
  <2>3. MaxPoll * (u + LongestBlock) = MaxPoll * u + MaxPoll * LongestBlock
    BY <1>1, <1>4, <2>1, <2>2
  <2> QED BY <2>1, <2>2, <2>3
<1>6. /\ ParseReplays = MaxPoll * (LongestBlock * Count("parse"))
      /\ EnrichReplays = MaxPoll * Count("enrich") /\ CopyReplays = MaxPoll * Count("copy")
  BY DEF ParseReplays, EnrichReplays, CopyReplays, Count
<1>7. /\ ParseReplays' = MaxPoll * (LongestBlock * Count("parse")')
      /\ EnrichReplays' = MaxPoll * Count("enrich")' /\ CopyReplays' = MaxPoll * Count("copy")'
  BY DEF ParseReplays, EnrichReplays, CopyReplays, Count, LongestBlock
<1>8. ParseReplays \in Nat /\ EnrichReplays \in Nat /\ CopyReplays \in Nat
  <2>1. \A a, b \in Nat : a * b \in Nat
    OBVIOUS
  <2>2. LongestBlock * Count("parse") \in Nat
    BY <1>1, <1>2, <2>1
  <2> QED BY <1>1, <1>2, <1>6, <2>1, <2>2
<1>9. ASSUME NEW kind \in Kinds, faults' = Append(faults, kind)
      PROVE  /\ ParseReplays' = ParseReplays + (IF kind = "parse" THEN MaxPoll * LongestBlock ELSE 0)
             /\ EnrichReplays' = EnrichReplays + (IF kind = "enrich" THEN MaxPoll ELSE 0)
             /\ CopyReplays' = CopyReplays + (IF kind = "copy" THEN MaxPoll ELSE 0)
  <2>1. ParseReplays' = ParseReplays + (IF kind = "parse" THEN MaxPoll * LongestBlock ELSE 0)
    <3>1. Count("parse")' = Count("parse") + (IF kind = "parse" THEN 1 ELSE 0)
      BY <1>3, <1>9
    <3>2. CASE kind = "parse"
      BY <1>2, <1>5, <1>6, <1>7, <3>1, <3>2
    <3>3. CASE kind # "parse"
      <4>1. Count("parse")' = Count("parse")
        BY <1>2, <3>1, <3>3
      <4> QED BY <1>6, <1>7, <1>8, <3>3, <4>1
    <3> QED BY <3>2, <3>3
  <2>2. EnrichReplays' = EnrichReplays + (IF kind = "enrich" THEN MaxPoll ELSE 0)
    <3>1. Count("enrich")' = Count("enrich") + (IF kind = "enrich" THEN 1 ELSE 0)
      BY <1>3, <1>9
    <3>2. CASE kind = "enrich"
      BY <1>1, <1>2, <1>4, <1>6, <1>7, <3>1, <3>2
    <3>3. CASE kind # "enrich"
      <4>1. Count("enrich")' = Count("enrich")
        BY <1>2, <3>1, <3>3
      <4> QED BY <1>6, <1>7, <1>8, <3>3, <4>1
    <3> QED BY <3>2, <3>3
  <2>3. CopyReplays' = CopyReplays + (IF kind = "copy" THEN MaxPoll ELSE 0)
    <3>1. Count("copy")' = Count("copy") + (IF kind = "copy" THEN 1 ELSE 0)
      BY <1>3, <1>9
    <3>2. CASE kind = "copy"
      BY <1>1, <1>2, <1>4, <1>6, <1>7, <3>1, <3>2
    <3>3. CASE kind # "copy"
      <4>1. Count("copy")' = Count("copy")
        BY <1>2, <3>1, <3>3
      <4> QED BY <1>6, <1>7, <1>8, <3>3, <4>1
    <3> QED BY <3>2, <3>3
  <2> QED BY <2>1, <2>2, <2>3
<1> QED BY <1>8, <1>9

\* Whatever a step does, none of them becomes less.
LEMMA ReplaysGrow ==
  ASSUME StreamInv, [Next]_vars
  PROVE  /\ ParseReplays' \in Nat /\ EnrichReplays' \in Nat /\ CopyReplays' \in Nat
         /\ ParseReplays <= ParseReplays' /\ EnrichReplays <= EnrichReplays' /\ CopyReplays <= CopyReplays'
<1>1. faults' = faults \/ \E kind \in Kinds : faults' = Append(faults, kind)
  <2>1. CASE ParsingStep
    BY <2>1 DEF ParsingStep, C2!Next, C2!Parse, C2!ParseCommit, C2!ParseRestart, C2!Fault, Kinds
  <2>2. CASE EnrichmentStep
    BY <2>2 DEF EnrichmentStep, C3!Next, C3!Enrich, C3!EnrichCommit, C3!EnrichRestart, C3!Fault, Kinds
  <2>3. CASE DetectionStep
    BY <2>3 DEF DetectionStep, Detector!Next, Detector!Process, Detector!Commit, Detector!Restart,
                Detector!Fault, Kinds
  <2>4. CASE Tick \/ UNCHANGED vars
    BY <2>4 DEF Tick, vars
  <2> QED BY <2>1, <2>2, <2>3, <2>4 DEF Next
<1>2. CASE faults' = faults
  <2>1. UNCHANGED <<ParseReplays, EnrichReplays, CopyReplays>>
    BY <1>2 DEF ParseReplays, EnrichReplays, CopyReplays, Happened, LongestBlock
  <2> QED BY <2>1, ReplaysCounted
<1>3. ASSUME NEW kind \in Kinds, faults' = Append(faults, kind)
      PROVE  /\ ParseReplays' \in Nat /\ EnrichReplays' \in Nat /\ CopyReplays' \in Nat
             /\ ParseReplays <= ParseReplays' /\ EnrichReplays <= EnrichReplays' /\ CopyReplays <= CopyReplays'
  <2>1. MaxPoll \in Nat /\ LongestBlock \in Nat
    BY StreamAssumption, LongestFacts
  <2>2. PICK b : b = MaxPoll * LongestBlock
    OBVIOUS
  <2>3. b \in Nat
    BY <2>1, <2>2
  <2> QED BY <1>3, <2>1, <2>2, <2>3, ReplaysCounted
<1> QED BY <1>1, <1>2, <1>3

\* What a stage has in hand of one client is no more than a batch.
Small(from, to) == \A c \in Clients : to[c] - from[c] <= MaxPoll
SmallBatches == Small(parsedOk, parsed) /\ Small(enrichOk, enrich) /\ Small(posOk, pos)

LEMMA SmallAdvances ==
  ASSUME NEW S, Clients \subseteq S, NEW from \in [S -> Nat], NEW to \in [S -> Nat], Small(from, to),
         NEW p \in S, p \in Clients => to[p] - from[p] < MaxPoll,
         NEW next, next = [to EXCEPT ![p] = to[p] + 1]
  PROVE  Small(from, next)
<1> SUFFICES ASSUME NEW c \in Clients PROVE next[c] - from[c] <= MaxPoll
  BY DEF Small
<1>1. MaxPoll \in Nat
  BY StreamAssumption
<1>2. CASE c = p
  <2>1. PICK x, y : x = to[p] /\ y = from[p]
    OBVIOUS
  <2>2. x \in Nat /\ y \in Nat /\ x - y < MaxPoll /\ next[c] = x + 1 /\ from[c] = y
    BY <1>2, <2>1
  <2>3. x + 1 - y <= MaxPoll
    BY <1>1, <2>2
  <2> QED BY <2>2, <2>3
<1>3. CASE c # p
  BY <1>3 DEF Small
<1> QED BY <1>2, <1>3

\* Nothing is in hand after a commit or a restart.
LEMMA SmallEnds ==
  ASSUME NEW S, Clients \subseteq S, NEW to \in [S -> Nat], NEW from, \A c \in Clients : from[c] = to[c]
  PROVE  Small(from, to)
<1>1. MaxPoll \in Nat
  BY StreamAssumption
<1>2. ASSUME NEW c \in Clients PROVE to[c] - from[c] <= MaxPoll
  <2>1. to[c] \in Nat /\ from[c] = to[c]
    OBVIOUS
  <2> QED BY <1>1, <2>1
<1> QED BY <1>2 DEF Small

\* There is room in the batch of a stage that handles a record.
LEMMA ParseHasRoom ==
  ASSUME StreamInv, NEW c \in Clients, C2!RawPolled(c)
  PROVE  parsed[c] - parsedOk[c] < MaxPoll
<1>1. /\ parsed \in [Clients -> Nat] /\ parsedOk \in [Clients -> Nat] /\ parsedOk[c] <= parsed[c]
  BY DEF StreamInv, StreamTypes, TypeOK
<1>2. PICK batch : batch = UNION {{d} \X ((parsedOk[d] + 1)..parsed[d]) : d \in Clients}
  OBVIOUS
<1>3. Cardinality(batch) < MaxPoll
  <2>1. C2!Cardinality(batch) < MaxPoll
    BY <1>2 DEF C2!RawPolled
  <2>2. C2!Cardinality(batch) = Cardinality(batch)
    BY ParsingCardinality
  <2> QED BY <2>1, <2>2
<1>4. \A d \in Clients : parsedOk[d] \in Nat /\ parsed[d] \in Nat
  BY <1>1
<1> QED BY <1>1, <1>2, <1>3, <1>4, PartOfBatch

LEMMA EnrichHasRoom ==
  ASSUME StreamInv, NEW c \in Clients, C3!NormalizedPolled(c)
  PROVE  enrich[c] - enrichOk[c] < MaxPoll
<1>1. /\ enrich \in [Clients -> Nat] /\ enrichOk \in [Clients -> Nat] /\ enrichOk[c] <= enrich[c]
  BY DEF StreamInv, StreamTypes, TypeOK
<1>2. PICK batch : batch = UNION {{d} \X ((enrichOk[d] + 1)..enrich[d]) : d \in Clients}
  OBVIOUS
<1>3. Cardinality(batch) < MaxPoll
  <2>1. C3!Cardinality(batch) < MaxPoll
    BY <1>2 DEF C3!NormalizedPolled
  <2>2. C3!Cardinality(batch) = Cardinality(batch)
    BY EnrichmentCardinality
  <2> QED BY <2>1, <2>2
<1>4. \A d \in Clients : enrichOk[d] \in Nat /\ enrich[d] \in Nat
  BY <1>1
<1> QED BY <1>1, <1>2, <1>3, <1>4, PartOfBatch

LEMMA CopyHasRoom ==
  ASSUME StreamInv, NEW c \in Clients, Detector!Process(c)
  PROVE  pos[c] - posOk[c] < MaxPoll
<1>1. /\ \A d \in Clients : posOk[d] \in Nat /\ pos[d] \in Nat
      /\ posOk[c] <= pos[c]
  BY DEF StreamInv, StreamTypes, TypeOK, Partitions
<1>2. PICK batch : batch = UNION {{d} \X ((posOk[d] + 1)..pos[d]) : d \in Clients}
  OBVIOUS
<1>3. Cardinality(batch) < MaxPoll
  <2>1. Detector!Cardinality(batch) < MaxPoll
    BY <1>2 DEF Detector!Process, Detector!Batch
  <2>2. Detector!Cardinality(batch) = Cardinality(batch)
    BY DetectorCardinality
  <2> QED BY <2>1, <2>2
<1> QED BY <1>1, <1>2, <1>3, PartOfBatch

\* Batches stay small.
LEMMA BatchesStep ==
  ASSUME StreamInv, SmallBatches, [Next]_vars
  PROVE  SmallBatches'
<1>1. /\ parsed \in [Clients -> Nat] /\ parsedOk \in [Clients -> Nat]
      /\ enrich \in [Clients -> Nat] /\ enrichOk \in [Clients -> Nat]
      /\ pos \in [Partitions -> Nat] /\ posOk \in [Partitions -> Nat] /\ Clients \subseteq Partitions
  BY DEF StreamInv, StreamTypes, Partitions
<1>2. Small(parsedOk, parsed) /\ Small(enrichOk, enrich) /\ Small(posOk, pos)
  BY DEF SmallBatches
<1>3. ASSUME UNCHANGED <<parsed, parsedOk>> PROVE Small(parsedOk', parsed')
  BY <1>2, <1>3
<1>4. ASSUME UNCHANGED <<enrich, enrichOk>> PROVE Small(enrichOk', enrich')
  BY <1>2, <1>4
<1>5. ASSUME UNCHANGED <<pos, posOk>> PROVE Small(posOk', pos')
  BY <1>2, <1>5
<1>6. CASE ParsingStep
  <2>1. UNCHANGED <<enrich, enrichOk, pos, posOk>>
    BY <1>6 DEF ParsingStep, enrichment, detection
  <2>2. ASSUME NEW c \in Clients, C2!Parse(c) PROVE Small(parsedOk', parsed')
    <3>1. parsedOk' = parsedOk /\ parsed' = [parsed EXCEPT ![c] = parsed[c] + 1] /\ C2!RawPolled(c)
      BY <2>2 DEF C2!Parse
    <3>2. parsed[c] - parsedOk[c] < MaxPoll
      BY <3>1, ParseHasRoom
    <3>3. Small(parsedOk, parsed')
      BY <1>1, <1>2, <3>1, <3>2, SmallAdvances
    <3> QED BY <3>1, <3>3
  <2>3. ASSUME C2!ParseCommit \/ C2!ParseRestart PROVE Small(parsedOk', parsed')
    <3>1. parsedOk' = parsed' /\ parsed' \in [Clients -> Nat]
      BY <1>1, <2>3 DEF C2!ParseCommit, C2!ParseRestart
    <3>2. \A c \in Clients : parsedOk'[c] = parsed'[c]
      BY <3>1
    <3> QED BY <3>1, <3>2, SmallEnds
  <2>4. Small(parsedOk', parsed')
    BY <1>6, <2>2, <2>3 DEF ParsingStep, C2!Next
  <2> QED BY <1>4, <1>5, <2>1, <2>4 DEF SmallBatches
<1>7. CASE EnrichmentStep
  <2>1. UNCHANGED <<parsed, parsedOk, pos, posOk>>
    BY <1>7 DEF EnrichmentStep, parsing, detection
  <2>2. ASSUME NEW c \in Clients, C3!Enrich(c) PROVE Small(enrichOk', enrich')
    <3>1. enrichOk' = enrichOk /\ enrich' = [enrich EXCEPT ![c] = enrich[c] + 1] /\ C3!NormalizedPolled(c)
      BY <2>2 DEF C3!Enrich
    <3>2. enrich[c] - enrichOk[c] < MaxPoll
      BY <3>1, EnrichHasRoom
    <3>3. Small(enrichOk, enrich')
      BY <1>1, <1>2, <3>1, <3>2, SmallAdvances
    <3> QED BY <3>1, <3>3
  <2>3. ASSUME C3!EnrichCommit \/ C3!EnrichRestart PROVE Small(enrichOk', enrich')
    <3>1. enrichOk' = enrich' /\ enrich' \in [Clients -> Nat]
      BY <1>1, <2>3 DEF C3!EnrichCommit, C3!EnrichRestart
    <3>2. \A c \in Clients : enrichOk'[c] = enrich'[c]
      BY <3>1
    <3> QED BY <3>1, <3>2, SmallEnds
  <2>4. Small(enrichOk', enrich')
    BY <1>7, <2>2, <2>3 DEF EnrichmentStep, C3!Next
  <2> QED BY <1>3, <1>5, <2>1, <2>4 DEF SmallBatches
<1>8. CASE DetectionStep
  <2>1. UNCHANGED <<parsed, parsedOk, enrich, enrichOk>>
    BY <1>8 DEF DetectionStep, parsing, enrichment
  <2>2. ASSUME NEW p \in Partitions, Detector!Process(p) PROVE Small(posOk', pos')
    <3>1. posOk' = posOk /\ pos' = [pos EXCEPT ![p] = pos[p] + 1]
      BY <2>2 DEF Detector!Process
    <3>2. p \in Clients => pos[p] - posOk[p] < MaxPoll
      BY <2>2, CopyHasRoom
    <3>3. Small(posOk, pos')
      BY <1>1, <1>2, <3>1, <3>2, SmallAdvances
    <3> QED BY <3>1, <3>3
  <2>3. ASSUME NEW role \in {Clients, Domains}, Detector!Commit(role) \/ Detector!Restart(role)
        PROVE  Small(posOk', pos')
    <3>1. CASE role = Clients
      <4>1. /\ pos' \in [Partitions -> Nat] /\ \A c \in Clients : posOk'[c] = pos'[c]
        BY <1>1, <2>3, <3>1 DEF Detector!Commit, Detector!Restart, Detector!Partitions, Partitions
      <4> QED BY <1>1, <4>1, SmallEnds
    <3>2. CASE role = Domains
      <4>1. Clients \cap Domains = {}
        BY StreamAssumption
      <4>2. \A c \in Clients : posOk'[c] = posOk[c] /\ pos'[c] = pos[c]
        BY <1>1, <2>3, <3>2, <4>1 DEF Detector!Commit, Detector!Restart, Detector!Partitions, Partitions
      <4> QED BY <1>2, <4>2 DEF Small
    <3> QED BY <3>1, <3>2
  <2>4. Small(posOk', pos')
    <3>1. Detector!Next
      BY <1>8 DEF DetectionStep
    <3>2. Detector!Partitions = Partitions
      BY DEF Detector!Partitions, Partitions
    <3> QED BY <2>2, <2>3, <3>1, <3>2 DEF Detector!Next
  <2> QED BY <1>3, <1>4, <2>1, <2>4 DEF SmallBatches
<1>9. CASE Tick \/ UNCHANGED vars
  <2>1. UNCHANGED <<parsed, parsedOk, enrich, enrichOk, pos, posOk>>
    BY <1>9 DEF Tick, vars, parsing, enrichment, detection
  <2> QED BY <1>3, <1>4, <1>5, <2>1 DEF SmallBatches
<1> QED BY <1>6, <1>7, <1>8, <1>9 DEF Next

\* A line of the log is known by its client, its block and its place there.
LEMMA LineFacts ==
  ASSUME NEW c \in Clients, NEW l \in LogLines(c)
  PROVE  /\ l[2] \in DOMAIN Raw[c] /\ l[2] \in 1..Len(Raw[c]) /\ Len(Raw[c]) \in Nat
         /\ l[3] \in Places(c, l[2]) /\ l[3] \in 1..LongestBlock
         /\ l = <<c, l[2], l[3]>>
<1>1. PICK i \in DOMAIN Raw[c] : \E k \in Places(c, i) : l = <<c, i, k>>
  BY DEF LogLines
<1>2. PICK k \in Places(c, i) : l = <<c, i, k>>
  BY <1>1
<1>3. /\ Len(Raw[c]) \in Nat /\ DOMAIN Raw[c] = 1..Len(Raw[c])
      /\ Len(Raw[c][i]) \in Nat /\ DOMAIN Raw[c][i] = 1..Len(Raw[c][i])
      /\ Places(c, i) \in SUBSET DOMAIN Raw[c][i]
  BY LogFacts
<1>4. LongestBlock \in Nat /\ Len(Raw[c][i]) <= LongestBlock
  BY LongestFacts
<1>5. k \in 1..LongestBlock
  BY <1>3, <1>4
<1> QED BY <1>2, <1>3, <1>5

\* The lines of a few blocks are not many.
LEMMA LinesBetween ==
  ASSUME NEW c \in Clients, NEW a \in Nat, NEW b \in Nat, a <= b,
         NEW X, X \subseteq LogLines(c), \A l \in X : a < l[2] /\ l[2] <= b
  PROVE  IsFiniteSet(X) /\ Cardinality(X) \in Nat /\ Cardinality(X) <= (b - a) * LongestBlock
<1>1. PICK P : P = ((a + 1)..b) \X (1..LongestBlock)
  OBVIOUS
<1>2. IsFiniteSet(P) /\ Cardinality(P) = (b - a) * LongestBlock
  <2>1. LongestBlock \in Nat
    BY LongestFacts
  <2>2. IsFiniteSet(1..LongestBlock) /\ Cardinality(1..LongestBlock) = LongestBlock
    BY <2>1, FS_Interval
  <2>3. Cardinality((a + 1)..b) = IF a + 1 > b THEN 0 ELSE b - (a + 1) + 1
    BY FS_Interval
  <2>4. Cardinality((a + 1)..b) = b - a
    BY <2>3
  <2>5. IsFiniteSet((a + 1)..b)
    BY FS_Interval
  <2>6. /\ IsFiniteSet(P)
        /\ Cardinality(P) = Cardinality((a + 1)..b) * Cardinality(1..LongestBlock)
    BY <1>1, <2>2, <2>5, FS_Product
  <2> QED BY <2>2, <2>4, <2>6
<1>3. PICK f : f = [l \in X |-> <<l[2], l[3]>>]
  OBVIOUS
<1>4. \A l \in X : /\ l[2] \in Nat /\ l[2] \in (a + 1)..b /\ l[3] \in 1..LongestBlock
                   /\ l = <<c, l[2], l[3]>>
  <2> TAKE l \in X
  <2>1. /\ l[2] \in 1..Len(Raw[c]) /\ Len(Raw[c]) \in Nat
        /\ l[3] \in 1..LongestBlock /\ l = <<c, l[2], l[3]>>
    BY LineFacts
  <2>2. a < l[2] /\ l[2] <= b
    OBVIOUS
  <2> QED BY <2>1, <2>2
<1>5. f \in Injection(X, P)
  <2>1. f \in [X -> P]
    BY <1>1, <1>3, <1>4
  <2>2. ASSUME NEW l \in X, NEW m \in X, f[l] = f[m] PROVE l = m
    <3>1. l[2] = m[2] /\ l[3] = m[3]
      BY <1>3, <2>2
    <3> QED BY <1>4, <3>1
  <2> QED BY <2>1, <2>2 DEF Injection, IsInjective
<1>6. IsFiniteSet(X) /\ Cardinality(X) <= Cardinality(P)
  BY <1>2, <1>5, FS_Injection
<1> QED BY <1>2, <1>6, FS_CardinalityType

\* The lines of the blocks that C2 has handled.
Handled(c) == {l \in LogLines(c) : l[2] <= parsed[c]}

LEMMA HandledIsFinite ==
  ASSUME StreamInv, NEW c \in Clients, NEW H, H \subseteq LogLines(c)
  PROVE  IsFiniteSet(H)
<1>1. Len(Raw[c]) \in Nat
  <2>1. Raw[c] \in Seq(Seq(Nat \cup {Malformed, NoTime}))
    BY StreamAssumption
  <2> QED BY <2>1, LenProperties
<1>2. \A l \in H : 0 < l[2] /\ l[2] <= Len(Raw[c])
  BY <1>1, LineFacts
<1> QED BY <1>1, <1>2, LinesBetween

\* But for what its restarts repeat, C2 publishes each line once.
ParsedOnce ==
  \A c \in Clients :
    Spread(Len(normalized[c]), Handled(c), LinesIn(normalized[c]), ParseReplays)

\* The first n valid lines of block i of c, behind the topic.
LEMMA BlockLines ==
  ASSUME NEW c \in Clients, NEW i \in DOMAIN Raw[c], NEW n \in 1..Cardinality(Places(c, i)),
         normalized[c] \in Seq(Normalized(c)), NEW t, GoesOn(t, c, i, n)
  PROVE  /\ LinesIn(normalized[c]) \subseteq LinesIn(t)
         /\ n = Cardinality(Places(c, i)) =>
              \A k \in Places(c, i) : <<c, i, k>> \in LinesIn(t)
<1>1. /\ DOMAIN normalized[c] = 1..Len(normalized[c]) /\ Len(normalized[c]) \in Nat
      /\ t \in Seq(Normalized(c)) /\ DOMAIN t = 1..Len(t) /\ Len(t) \in Nat
      /\ Len(t) = Len(normalized[c]) + n /\ Grown(normalized[c], t)
  BY LenProperties DEF GoesOn
<1>2. LinesIn(normalized[c]) \subseteq LinesIn(t)
  <2>1. \A m \in DOMAIN normalized[c] : m \in DOMAIN t /\ t[m] = normalized[c][m]
    BY <1>1 DEF Grown
  <2> QED BY <2>1 DEF LinesIn
<1>3. ASSUME n = Cardinality(Places(c, i)), NEW k \in Places(c, i) PROVE <<c, i, k>> \in LinesIn(t)
  <2>1. IsFiniteSet(Places(c, i)) /\ Places(c, i) \subseteq Int /\ Cardinality(Places(c, i)) \in Nat
    BY ValidFacts
  <2>2. PICK r : r = Rank(Places(c, i), k)
    OBVIOUS
  <2>3. r \in 1..n /\ Nth(Places(c, i), r) = k
    BY <1>3, <2>1, <2>2, NthFacts
  <2>4. t[Len(normalized[c]) + r].line = <<c, i, k>>
    BY <2>3 DEF GoesOn
  <2>5. Len(normalized[c]) + r \in DOMAIN t
    BY <1>1, <1>3, <2>1, <2>3
  <2> QED BY <2>4, <2>5 DEF LinesIn
<1> QED BY <1>2, <1>3

\* Where C2 does nothing, nothing changes.
LEMMA ParsedOnceStays ==
  ASSUME StreamInv, ParsedOnce, ParseReplays' \in Nat, ParseReplays <= ParseReplays',
         NEW c \in Clients, normalized'[c] = normalized[c], parsed[c] <= parsed'[c], parsed'[c] \in Nat
  PROVE  Spread(Len(normalized'[c]), Handled(c)', LinesIn(normalized'[c]), ParseReplays')
<1>1. PICK s, J, B, C : /\ s = normalized[c] /\ J = Handled(c)' /\ B = ParseReplays /\ C = ParseReplays'
  OBVIOUS
<1>2. s \in Seq(Normalized(c)) /\ Len(s) \in Nat /\ parsed[c] \in Nat
  BY <1>1, LenProperties DEF StreamInv, StreamTypes
<1>3. B \in Nat /\ C \in Nat /\ B <= C
  BY <1>1, ReplaysCounted
<1>4. J = {l \in LogLines(c) : l[2] <= parsed'[c]}
  BY <1>1 DEF Handled, LogLines, Places
<1>5. IsFiniteSet(J)
  BY <1>4, HandledIsFinite
<1>6. Handled(c) \subseteq J
  <2> SUFFICES ASSUME NEW l \in LogLines(c), l[2] <= parsed[c] PROVE l[2] <= parsed'[c]
    BY <1>4 DEF Handled
  <2>1. l[2] \in 1..Len(Raw[c]) /\ Len(Raw[c]) \in Nat
    BY LineFacts
  <2> QED BY <1>2, <2>1
<1>7. Spread(Len(s), Handled(c), LinesIn(s), B)
  BY <1>1 DEF ParsedOnce
<1>8. Spread(Len(s), J, LinesIn(s), C)
  BY <1>2, <1>3, <1>5, <1>6, <1>7, SpreadHandled
<1> QED BY <1>1, <1>8

\* C2 publishes the next block of c.
LEMMA BlockPublishedOnce ==
  ASSUME StreamInv, ParsedOnce, ParseReplays' = ParseReplays, NEW c \in Clients,
         NEW i \in DOMAIN Raw[c], i = parsed[c] + 1, parsed'[c] = i,
         C2!Valid(c, i) # <<>>, normalized'[c] = normalized[c] \o C2!Valid(c, i)
  PROVE  Spread(Len(normalized'[c]), Handled(c)', LinesIn(normalized'[c]), ParseReplays')
<1>1. PICK s, t, H, J, B : /\ s = normalized[c] /\ t = normalized'[c] /\ B = ParseReplays
                           /\ H = Handled(c) /\ J = Handled(c)'
  OBVIOUS
<1>2. PICK P, n, T : P = Places(c, i) /\ n = Cardinality(P) /\ T = {<<c, i, k>> : k \in P}
  OBVIOUS
<1>3. /\ C2!Valid(c, i) \in Seq(Normalized(c)) /\ Len(C2!Valid(c, i)) = n /\ n \in Nat
      /\ IsFiniteSet(P) /\ P \subseteq Int
  BY <1>2, ValidFacts
<1>4. n \in 1..n /\ C2!Valid(c, i) = SubSeq(C2!Valid(c, i), 1, n)
  <2>1. Len(C2!Valid(c, i)) \in Nat \ {0}
    BY <1>3, EmptySeq
  <2>2. SubSeq(C2!Valid(c, i), 1, Len(C2!Valid(c, i))) = C2!Valid(c, i)
    BY <1>3, SubSeqFull
  <2> QED BY <1>3, <2>1, <2>2
<1>5. GoesOn(t, c, i, n)
  <2>1. t = normalized[c] \o SubSeq(C2!Valid(c, i), 1, n)
    BY <1>1, <1>4
  <2> QED BY <1>2, <1>4, <2>1, BlockAppended
<1>6. s \in Seq(Normalized(c)) /\ Len(s) \in Nat /\ Len(t) = Len(s) + n
  BY <1>1, <1>5, LenProperties DEF GoesOn, StreamInv, StreamTypes
<1>7. LinesIn(s) \cup T \subseteq LinesIn(t)
  <2>1. LinesIn(s) \subseteq LinesIn(t)
    BY <1>1, <1>2, <1>4, <1>5, <1>6, BlockLines
  <2>2. \A k \in P : <<c, i, k>> \in LinesIn(t)
    BY <1>1, <1>2, <1>4, <1>5, <1>6, BlockLines
  <2> QED BY <1>2, <2>1, <2>2
<1>8. parsed[c] \in Nat /\ H = {l \in LogLines(c) : l[2] <= parsed[c]}
  BY <1>1 DEF Handled, StreamInv, StreamTypes
<1>9. T \subseteq LogLines(c) /\ T \cap H = {} /\ \A l \in T : l[2] = i
  <2>1. T \subseteq LogLines(c)
    BY <1>2 DEF LogLines
  <2>2. \A l \in T : l[2] = i /\ i > parsed[c]
    BY <1>2, <1>8
  <2>3. ASSUME NEW l \in T, l \in H PROVE FALSE
    BY <1>8, <2>2, <2>3
  <2> QED BY <2>1, <2>2, <2>3
<1>10. IsFiniteSet(T) /\ IsFiniteSet(H)
  BY <1>8, <1>9, HandledIsFinite
<1>11. J = H \cup T
  <2>1. J = {l \in LogLines(c) : l[2] <= i}
    BY <1>1 DEF Handled, LogLines, Places
  <2>2. ASSUME NEW l \in LogLines(c) PROVE l \in J <=> l \in H \/ l \in T
    <3>1. l[2] \in Nat /\ l[3] \in Places(c, l[2]) /\ l = <<c, l[2], l[3]>>
      BY LineFacts
    <3>2. l[2] <= i <=> l[2] <= parsed[c] \/ l[2] = i
      BY <1>8, <3>1
    <3>3. l[2] = i <=> l \in T
      BY <1>2, <1>9, <3>1
    <3> QED BY <1>8, <2>1, <3>2, <3>3
  <2> QED BY <1>8, <1>9, <2>1, <2>2
<1>12. n <= Cardinality(T)
  <2>1. PICK f : f = [l \in T |-> l[3]]
    OBVIOUS
  <2>2. P = {f[l] : l \in T}
    <3>1. ASSUME NEW k \in P PROVE \E l \in T : k = f[l]
      <4>1. PICK l : l = <<c, i, k>>
        OBVIOUS
      <4>2. l \in T /\ l[3] = k
        BY <1>2, <4>1
      <4> QED BY <2>1, <4>2
    <3>2. ASSUME NEW l \in T PROVE f[l] \in P
      BY <1>2, <2>1
    <3> QED BY <3>1, <3>2
  <2> QED BY <1>2, <1>10, <2>2, ImageSize
<1>13. B \in Nat /\ Spread(Len(s), H, LinesIn(s), B)
  BY <1>1, ReplaysCounted DEF ParsedOnce
<1>14. Spread(Len(s) + Cardinality(T), H \cup T, LinesIn(t), B)
  BY <1>6, <1>7, <1>9, <1>10, <1>13, SpreadPublished
<1>15. Spread(Len(t), J, LinesIn(t), B)
  <2>1. PICK x : x = Cardinality(J \cap LinesIn(t))
    OBVIOUS
  <2>2. x \in Nat /\ Cardinality(T) \in Nat
    <3>1. IsFiniteSet(J)
      BY <1>10, <1>11, FS_Union
    <3>2. IsFiniteSet(J \cap LinesIn(t))
      BY <3>1, FS_Intersection
    <3> QED BY <1>10, <2>1, <3>2, FS_CardinalityType
  <2>3. Len(s) + Cardinality(T) <= x + B
    BY <1>11, <1>14, <2>1 DEF Spread
  <2>4. Len(t) <= x + B
    BY <1>3, <1>6, <1>12, <1>13, <2>2, <2>3
  <2> QED BY <2>1, <2>4 DEF Spread
<1> QED BY <1>1, <1>15

LEMMA ProductGrows ==
  ASSUME NEW a \in Nat, NEW b \in Nat, NEW m \in Nat, a <= b
  PROVE  a * m <= b * m
<1>1. PICK d : d = b - a
  OBVIOUS
<1>2. d \in Nat /\ b = a + d
  BY <1>1
<1>3. (a + d) * m = a * m + d * m
  BY <1>2
<1>4. a * m \in Nat /\ d * m \in Nat
  BY <1>2
<1>5. PICK x, y : x = a * m /\ y = d * m
  OBVIOUS
<1>6. x \in Nat /\ y \in Nat /\ b * m = x + y
  BY <1>2, <1>3, <1>4, <1>5
<1> QED BY <1>5, <1>6

\* C2 starts again, with the first n lines of its next block stored or none.
LEMMA RestartRepeatsFew ==
  ASSUME StreamInv, ParsedOnce, ParseReplays' = ParseReplays + MaxPoll * LongestBlock,
         NEW c \in Clients, parsed'[c] = parsedOk[c], NEW n \in Nat, n <= LongestBlock,
         IF n = 0 THEN parsed[c] - parsedOk[c] <= MaxPoll ELSE parsed[c] - parsedOk[c] < MaxPoll,
         Len(normalized'[c]) = Len(normalized[c]) + n,
         LinesIn(normalized[c]) \subseteq LinesIn(normalized'[c])
  PROVE  Spread(Len(normalized'[c]), Handled(c)', LinesIn(normalized'[c]), ParseReplays')
<1>1. PICK H, J, B, X : /\ H = Handled(c) /\ J = Handled(c)' /\ B = ParseReplays
                        /\ X = {l \in LogLines(c) : parsedOk[c] < l[2] /\ l[2] <= parsed[c]}
  OBVIOUS
<1>2. parsed[c] \in Nat /\ parsedOk[c] \in Nat /\ parsedOk[c] <= parsed[c]
  BY DEF StreamInv, StreamTypes, TypeOK
<1>3. PICK a, b : a = parsedOk[c] /\ b = parsed[c]
  OBVIOUS
<1>4. /\ H = {l \in LogLines(c) : l[2] <= b} /\ J = {l \in LogLines(c) : l[2] <= a}
      /\ X = {l \in LogLines(c) : a < l[2] /\ l[2] <= b} /\ a \in Nat /\ b \in Nat /\ a <= b
  BY <1>1, <1>2, <1>3 DEF Handled, LogLines, Places
<1>5. IsFiniteSet(X) /\ Cardinality(X) \in Nat /\ Cardinality(X) <= (b - a) * LongestBlock
  BY <1>4, LinesBetween
<1>6. H \subseteq J \cup X /\ J \subseteq H
  <2>1. ASSUME NEW l \in LogLines(c) PROVE /\ (l[2] <= b => l[2] <= a \/ (a < l[2] /\ l[2] <= b))
                                           /\ (l[2] <= a => l[2] <= b)
    <3>1. l[2] \in Nat
      BY LineFacts
    <3> QED BY <1>4, <3>1
  <2> QED BY <1>4, <2>1
<1>7. IsFiniteSet(H)
  BY <1>4, HandledIsFinite
<1>8. MaxPoll \in Nat /\ LongestBlock \in Nat
  BY StreamAssumption, LongestFacts
<1>9. PICK q : q = MaxPoll * LongestBlock
  OBVIOUS
<1>10. q \in Nat /\ Cardinality(X) + n <= q
  <2>1. PICK k, m : k = b - a /\ m = MaxPoll - 1
    OBVIOUS
  <2>2. k \in Nat
    BY <1>4, <2>1
  <2>3. q \in Nat
    BY <1>8, <1>9
  <2>4. CASE n = 0
    <3>1. k <= MaxPoll
      BY <1>3, <2>1, <2>4
    <3>2. k * LongestBlock <= MaxPoll * LongestBlock
      BY <1>8, <2>2, <3>1, ProductGrows
    <3>3. k * LongestBlock \in Nat
      BY <1>8, <2>2
    <3> QED BY <1>5, <1>9, <2>1, <2>3, <2>4, <3>2, <3>3
  <2>5. CASE n # 0
    <3>0. k < MaxPoll
      BY <1>3, <2>1, <2>5
    <3>1. k <= m /\ m \in Nat /\ MaxPoll = m + 1
      BY <1>8, <2>1, <2>2, <3>0
    <3>2. k * LongestBlock <= m * LongestBlock
      BY <1>8, <2>2, <3>1, ProductGrows
    <3>3. k * LongestBlock \in Nat /\ m * LongestBlock \in Nat
      BY <1>8, <2>2, <3>1
    <3>4. (m + 1) * LongestBlock = m * LongestBlock + LongestBlock
      BY <1>8, <3>1
    <3>5. PICK u, v : u = k * LongestBlock /\ v = m * LongestBlock
      OBVIOUS
    <3>6. /\ u \in Nat /\ v \in Nat /\ u <= v /\ q = v + LongestBlock /\ Cardinality(X) <= u
          /\ n <= LongestBlock
      BY <1>5, <1>9, <2>1, <3>1, <3>2, <3>3, <3>4, <3>5
    <3> QED BY <1>5, <1>8, <2>3, <3>6
  <2> QED BY <2>4, <2>5
<1>11. /\ B \in Nat /\ Spread(Len(normalized[c]), H, LinesIn(normalized[c]), B)
       /\ Len(normalized[c]) \in Nat
  BY <1>1, ReplaysCounted, LenProperties DEF ParsedOnce, StreamInv, StreamTypes
<1>12. Spread(Len(normalized[c]) + n, J, LinesIn(normalized'[c]), B + q)
  BY <1>5, <1>6, <1>7, <1>10, <1>11, SpreadBack
<1> QED BY <1>1, <1>9, <1>12

\* Every step of the stream keeps that.
LEMMA ParsedOnceStep ==
  ASSUME StreamInv, StreamInv', SmallBatches, ParsedOnce, [Next]_vars
  PROVE  ParsedOnce'
<1>1. ParseReplays' \in Nat /\ ParseReplays \in Nat /\ ParseReplays <= ParseReplays'
  BY ReplaysCounted, ReplaysGrow
<1>2. \A c \in Clients : parsed'[c] \in Nat /\ parsed[c] \in Nat /\ parsedOk[c] \in Nat
  BY DEF StreamInv, StreamTypes
<1>3. SUFFICES ASSUME NEW c \in Clients
               PROVE  Spread(Len(normalized[c]), Handled(c), LinesIn(normalized[c]), ParseReplays)'
  BY DEF ParsedOnce
<1>4. ASSUME normalized'[c] = normalized[c], parsed[c] <= parsed'[c]
      PROVE  Spread(Len(normalized[c]), Handled(c), LinesIn(normalized[c]), ParseReplays)'
  <2>1. Spread(Len(normalized'[c]), Handled(c)', LinesIn(normalized'[c]), ParseReplays')
    BY <1>1, <1>2, <1>4, ParsedOnceStays
  <2> QED BY <2>1 DEF Spread, LinesIn
<1>5. CASE UNCHANGED <<normalized, parsed>>
  BY <1>2, <1>4, <1>5
<1>6. ASSUME NEW d \in Clients, C2!Parse(d)
      PROVE  Spread(Len(normalized[c]), Handled(c), LinesIn(normalized[c]), ParseReplays)'
  <2>1. PICK i : i = parsed[d] + 1
    OBVIOUS
  <2>2. parsed' = [parsed EXCEPT ![d] = i] /\ parsed \in [Clients -> Nat] /\ C2!RawPolled(d)
    BY <1>6, <2>1 DEF C2!Parse, StreamInv, StreamTypes
  <2>3. i \in DOMAIN Raw[d]
    BY <2>1, <2>2, NextBlock DEF C2!RawPolled
  <2>4. parsed[c] <= parsed'[c]
    <3>1. CASE c = d
      BY <2>1, <2>2, <3>1
    <3>2. CASE c # d
      <4>1. parsed'[c] = parsed[c] /\ parsed[c] \in Nat
        BY <2>2, <3>2
      <4> QED BY <4>1
    <3> QED BY <3>1, <3>2
  <2>5. CASE normalized' = normalized
    BY <1>4, <2>4, <2>5
  <2>6. ASSUME C2!Valid(d, i) # <<>>, normalized' = [normalized EXCEPT ![d] = @ \o C2!Valid(d, i)],
               faults' = faults
        PROVE  Spread(Len(normalized[c]), Handled(c), LinesIn(normalized[c]), ParseReplays)'
    <3>1. CASE c # d
      <4>1. normalized'[c] = normalized[c]
        BY <2>6, <3>1 DEF StreamInv, StreamTypes
      <4> QED BY <1>4, <2>4, <4>1
    <3>2. CASE c = d
      <4>1. normalized'[c] = normalized[c] \o C2!Valid(c, i)
        BY <2>6, <3>2 DEF StreamInv, StreamTypes
      <4>2. ParseReplays' = ParseReplays
        BY <2>6 DEF ParseReplays, Happened, LongestBlock
      <4>3. parsed'[c] = i /\ i = parsed[c] + 1 /\ i \in DOMAIN Raw[c] /\ C2!Valid(c, i) # <<>>
        BY <2>1, <2>2, <2>3, <2>6, <3>2
      <4>4. Spread(Len(normalized'[c]), Handled(c)', LinesIn(normalized'[c]), ParseReplays')
        BY <4>1, <4>2, <4>3, BlockPublishedOnce
      <4> QED BY <4>4 DEF Spread, LinesIn
    <3> QED BY <3>1, <3>2
  <2>7. \/ normalized' = normalized
        \/ /\ C2!Valid(d, i) # <<>> /\ normalized' = [normalized EXCEPT ![d] = @ \o C2!Valid(d, i)]
           /\ faults' = faults
    BY <1>6, <2>1 DEF C2!Parse
  <2> QED BY <2>5, <2>6, <2>7
<1>7. ASSUME C2!ParseRestart
      PROVE  Spread(Len(normalized[c]), Handled(c), LinesIn(normalized[c]), ParseReplays)'
  <2>1. faults' = Append(faults, "parse") /\ parsed' = parsedOk
    BY <1>7 DEF C2!ParseRestart, C2!Fault
  <2>2. ParseReplays' = ParseReplays + MaxPoll * LongestBlock
    BY <2>1, ReplaysCounted DEF Kinds
  <2>3. parsed'[c] = parsedOk[c] /\ parsed[c] - parsedOk[c] <= MaxPoll
    BY <2>1 DEF SmallBatches, Small
  <2>4. LongestBlock \in Nat
    BY LongestFacts
  <2>5. normalized[c] \in Seq(Normalized(c)) /\ Len(normalized[c]) \in Nat
    BY LenProperties DEF StreamInv, StreamTypes
  <2>6. ASSUME normalized'[c] = normalized[c]
        PROVE  Spread(Len(normalized[c]), Handled(c), LinesIn(normalized[c]), ParseReplays)'
    <3>1. /\ Len(normalized'[c]) = Len(normalized[c]) + 0
          /\ LinesIn(normalized[c]) \subseteq LinesIn(normalized'[c])
      BY <2>5, <2>6
    <3>2. Spread(Len(normalized'[c]), Handled(c)', LinesIn(normalized'[c]), ParseReplays')
      BY <2>2, <2>3, <2>4, <3>1, RestartRepeatsFew
    <3> QED BY <3>2 DEF Spread, LinesIn
  <2>7. ASSUME NEW d \in Clients, C2!RawPolled(d), NEW n \in 1..(Len(C2!Valid(d, parsed[d] + 1)) - 1),
               normalized' = [normalized EXCEPT ![d] = @ \o SubSeq(C2!Valid(d, parsed[d] + 1), 1, n)]
        PROVE  Spread(Len(normalized[c]), Handled(c), LinesIn(normalized[c]), ParseReplays)'
    <3>1. CASE c # d
      <4>1. normalized'[c] = normalized[c]
        BY <2>7, <3>1 DEF StreamInv, StreamTypes
      <4> QED BY <2>6, <4>1
    <3>2. CASE c = d
      <4>1. PICK i, t : i = parsed[c] + 1 /\ t = normalized'[c]
        OBVIOUS
      <4>2. i \in DOMAIN Raw[c]
        BY <2>7, <3>2, <4>1, NextBlock DEF C2!RawPolled
      <4>3. /\ Len(C2!Valid(c, i)) = Cardinality(Places(c, i)) /\ Cardinality(Places(c, i)) \in Nat
            /\ Cardinality(Places(c, i)) <= LongestBlock
        <5>1. Len(C2!Valid(c, i)) = Cardinality(Places(c, i)) /\ Cardinality(Places(c, i)) \in Nat
          BY <4>2, ValidFacts
        <5>2. Cardinality(Places(c, i)) <= Len(Raw[c][i]) /\ Len(Raw[c][i]) \in Nat
          <6>1. Places(c, i) \in SUBSET (1..Len(Raw[c][i])) /\ Len(Raw[c][i]) \in Nat
            BY <4>2, LogFacts
          <6>2. IsFiniteSet(1..Len(Raw[c][i])) /\ Cardinality(1..Len(Raw[c][i])) = Len(Raw[c][i])
            <7>1. PICK k : k = Len(Raw[c][i])
              OBVIOUS
            <7>2. k \in Nat
              BY <6>1, <7>1
            <7>3. 1 \in Int /\ k \in Int
              BY <7>2
            <7>4. Cardinality(1..k) = IF 1 > k THEN 0 ELSE k - 1 + 1
              BY <7>3, FS_Interval
            <7>5. Cardinality(1..k) = k
              BY <7>2, <7>4
            <7>6. IsFiniteSet(1..k)
              BY <7>3, FS_Interval
            <7> QED BY <7>1, <7>5, <7>6
          <6>3. Cardinality(Places(c, i)) <= Cardinality(1..Len(Raw[c][i]))
            BY <6>1, <6>2, FS_Subset
          <6> QED BY <6>1, <6>2, <6>3
        <5>3. Len(Raw[c][i]) <= LongestBlock
          BY <4>2, LongestFacts
        <5> QED BY <2>4, <5>1, <5>2, <5>3
      <4>4. n \in Nat /\ n # 0 /\ n \in 1..Cardinality(Places(c, i)) /\ n <= LongestBlock
        BY <2>4, <2>7, <3>2, <4>1, <4>3
      <4>5. t = normalized[c] \o SubSeq(C2!Valid(c, i), 1, n)
        BY <2>7, <3>2, <4>1 DEF StreamInv, StreamTypes
      <4>6. GoesOn(t, c, i, n)
        BY <4>1, <4>2, <4>4, <4>5, BlockAppended
      <4>7. LinesIn(normalized[c]) \subseteq LinesIn(t)
        BY <2>5, <4>2, <4>4, <4>6, BlockLines
      <4>8. Len(t) = Len(normalized[c]) + n
        BY <4>6 DEF GoesOn
      <4>9. parsed[c] - parsedOk[c] < MaxPoll
        BY <2>7, <3>2, ParseHasRoom
      <4>10. Spread(Len(normalized'[c]), Handled(c)', LinesIn(normalized'[c]), ParseReplays')
        BY <2>2, <2>3, <4>1, <4>4, <4>7, <4>8, <4>9, RestartRepeatsFew
      <4> QED BY <4>10 DEF Spread, LinesIn
    <3> QED BY <3>1, <3>2
  <2>8. \/ normalized' = normalized
        \/ \E d \in Clients : /\ C2!RawPolled(d)
                              /\ \E n \in 1..(Len(C2!Valid(d, parsed[d] + 1)) - 1) :
                                   normalized' = [normalized EXCEPT ![d] =
                                     @ \o SubSeq(C2!Valid(d, parsed[d] + 1), 1, n)]
    BY <1>7 DEF C2!ParseRestart
  <2> QED BY <2>6, <2>7, <2>8
<1>8. CASE ParsingStep
  <2>1. C2!ParseCommit => UNCHANGED <<normalized, parsed>>
    BY DEF C2!ParseCommit
  <2> QED BY <1>5, <1>6, <1>7, <1>8, <2>1 DEF ParsingStep, C2!Next
<1>9. CASE EnrichmentStep
  <2>1. UNCHANGED <<normalized, parsed>>
    BY <1>9 DEF EnrichmentStep, parsing, C3!Next, C3!Enrich, C3!EnrichCommit, C3!EnrichRestart
  <2> QED BY <1>5, <2>1
<1>10. CASE DetectionStep \/ Tick \/ UNCHANGED vars
  <2>1. UNCHANGED <<normalized, parsed>>
    BY <1>10 DEF DetectionStep, Tick, vars, parsing, topics
  <2> QED BY <1>5, <2>1
<1> QED BY <1>8, <1>9, <1>10 DEF Next

\* But for what its restarts repeat, C3 publishes each record of its input once.
EnrichedOnce ==
  \A c \in Clients :
    Relayed(Len(enriched[c]), normalized[c], enrich[c], LinesIn(enriched[c]), EnrichReplays)

\* Every step of the stream keeps that.
LEMMA EnrichedOnceStep ==
  ASSUME StreamInv, StreamInv', SmallBatches, EnrichedOnce, [Next]_vars
  PROVE  EnrichedOnce'
<1>1. EnrichReplays' \in Nat /\ EnrichReplays \in Nat /\ EnrichReplays <= EnrichReplays'
  BY ReplaysCounted, ReplaysGrow
<1>2. SUFFICES ASSUME NEW c \in Clients
               PROVE  Relayed(Len(enriched'[c]), normalized'[c], enrich'[c], LinesIn(enriched'[c]),
                              EnrichReplays')
  BY DEF EnrichedOnce, Relayed, Spare, LinesIn
<1>3. /\ normalized[c] \in Seq(Normalized(c)) /\ normalized'[c] \in Seq(Normalized(c))
      /\ enriched[c] \in Seq(EnrichedLines(c)) /\ Len(enriched[c]) \in Nat
      /\ enrich[c] \in Nat /\ enrichOk[c] \in Nat /\ enrichOk[c] <= enrich[c]
      /\ enrich[c] <= Len(normalized[c])
      /\ enrich \in [Clients -> Nat] /\ DOMAIN enriched = Clients
  <2>1. normalized'[c] \in Seq(Normalized(c))
    BY DEF StreamInv, StreamTypes, Normalized, LogLines, Places
  <2> QED BY <2>1, LenProperties DEF StreamInv, StreamTypes, TypeOK
<1>4. Relayed(Len(enriched[c]), normalized[c], enrich[c], LinesIn(enriched[c]), EnrichReplays)
  BY DEF EnrichedOnce
<1>5. ASSUME enriched'[c] = enriched[c], enrich'[c] = enrich[c]
      PROVE  Relayed(Len(enriched'[c]), normalized'[c], enrich'[c], LinesIn(enriched'[c]),
                     EnrichReplays')
  <2>1. Grown(normalized[c], normalized'[c])
    BY StepGrows DEF TopicsGrow
  <2> QED BY <1>1, <1>3, <1>4, <1>5, <2>1, RelayedInputGrows
<1>6. CASE ParsingStep \/ DetectionStep \/ Tick \/ UNCHANGED vars
  <2>1. UNCHANGED <<enriched, enrich>>
    <3>1. CASE ParsingStep
      BY <3>1 DEF ParsingStep, enrichment
    <3>2. CASE DetectionStep
      BY <3>2 DEF DetectionStep, enrichment, Detector!Next, Detector!Process, Detector!Commit,
                  Detector!Restart
    <3>3. CASE Tick \/ UNCHANGED vars
      BY <3>3 DEF Tick, vars, enrichment, topics
    <3> QED BY <1>6, <3>1, <3>2, <3>3
  <2> QED BY <1>5, <2>1
<1>7. ASSUME NEW d \in Clients, C3!Enrich(d)
      PROVE  Relayed(Len(enriched'[c]), normalized'[c], enrich'[c], LinesIn(enriched'[c]),
                     EnrichReplays')
  <2>1. PICK i : i = enrich[d] + 1
    OBVIOUS
  <2>2. /\ enrich[d] < Len(normalized[d]) /\ enrich' = [enrich EXCEPT ![d] = i]
        /\ normalized' = normalized
    BY <1>7, <2>1 DEF C3!Enrich, C3!NormalizedPolled
  <2>3. CASE enriched' = enriched
    <3>1. CASE c # d
      BY <1>3, <1>5, <2>2, <2>3, <3>1
    <3>2. CASE c = d
      <4>1. enrich'[c] = enrich[c] + 1 /\ enrich[c] < Len(normalized[c])
        BY <1>3, <2>1, <2>2, <3>2
      <4>2. Relayed(Len(enriched[c]), normalized[c], enrich[c] + 1, LinesIn(enriched[c]), EnrichReplays)
        BY <1>1, <1>3, <1>4, <4>1, RelayedSkipped
      <4>3. Len(normalized[c]) \in Nat /\ enrich[c] + 1 <= Len(normalized[c]) /\ enrich[c] + 1 \in Nat
        BY <1>3, <4>1, LenProperties
      <4>4. Grown(normalized[c], normalized[c])
        BY <4>3 DEF Grown
      <4>5. Relayed(Len(enriched[c]), normalized[c], enrich[c] + 1, LinesIn(enriched[c]), EnrichReplays')
        BY <1>1, <1>3, <4>2, <4>3, <4>4, RelayedInputGrows
      <4> QED BY <2>2, <2>3, <4>1, <4>5
    <3> QED BY <3>1, <3>2
  <2>4. ASSUME NEW e, e.line = normalized[d][i].line, faults' = faults,
               enriched' = [enriched EXCEPT ![d] = Append(@, e)]
        PROVE  Relayed(Len(enriched'[c]), normalized'[c], enrich'[c], LinesIn(enriched'[c]),
                       EnrichReplays')
    <3>1. CASE c # d
      BY <1>3, <1>5, <2>2, <2>4, <3>1
    <3>2. CASE c = d
      <4>1. enrich'[c] = enrich[c] + 1 /\ enrich[c] < Len(normalized[c])
        BY <1>3, <2>1, <2>2, <3>2
      <4>2. EnrichReplays' = EnrichReplays
        BY <2>4 DEF EnrichReplays, Happened
      <4>3. PICK t : t = Append(enriched[c], e)
        OBVIOUS
      <4>4. enriched'[c] = t
        BY <1>3, <2>4, <3>2, <4>3
      <4>5. /\ Len(t) = Len(enriched[c]) + 1 /\ DOMAIN t = 1..(Len(enriched[c]) + 1)
            /\ \A n \in 1..Len(enriched[c]) : t[n] = enriched[c][n]
            /\ t[Len(enriched[c]) + 1] = e
            /\ DOMAIN enriched[c] = 1..Len(enriched[c])
        BY <1>3, <4>3, LenProperties
      <4>6. LinesIn(t) = LinesIn(enriched[c]) \cup {normalized[c][enrich[c] + 1].line}
        <5>1. \A n \in DOMAIN t : n \in DOMAIN enriched[c] \/ n = Len(enriched[c]) + 1
          BY <1>3, <4>5
        <5>2. \A n \in DOMAIN enriched[c] : n \in DOMAIN t /\ t[n] = enriched[c][n]
          BY <1>3, <4>5
        <5>3. Len(enriched[c]) + 1 \in DOMAIN t
          BY <1>3, <4>5
        <5>4. t[Len(enriched[c]) + 1].line = normalized[c][enrich[c] + 1].line
          BY <2>1, <2>4, <3>2, <4>5
        <5>5. PICK old, m, l : /\ old = enriched[c] /\ m = Len(enriched[c]) + 1
                               /\ l = normalized[c][enrich[c] + 1].line
          OBVIOUS
        <5>6. LinesIn(t) \subseteq LinesIn(old) \cup {l}
          BY <5>1, <5>2, <5>4, <5>5 DEF LinesIn
        <5>7. LinesIn(old) \subseteq LinesIn(t)
          BY <5>2, <5>5 DEF LinesIn
        <5>8. l \in LinesIn(t)
          BY <5>3, <5>4, <5>5 DEF LinesIn
        <5> QED BY <5>5, <5>6, <5>7, <5>8
      <4>7. Relayed(Len(enriched[c]) + 1, normalized[c], enrich[c] + 1,
                    LinesIn(enriched[c]) \cup {normalized[c][enrich[c] + 1].line}, EnrichReplays)
        BY <1>1, <1>3, <1>4, <4>1, RelayedPublished
      <4> QED BY <2>2, <4>1, <4>2, <4>4, <4>5, <4>6, <4>7
    <3> QED BY <3>1, <3>2
  <2>5. \/ enriched' = enriched
        \/ \E e : /\ e.line = normalized[d][i].line /\ faults' = faults
                  /\ enriched' = [enriched EXCEPT ![d] = Append(@, e)]
    <3>1. \A n, rate : C3!Enriched(n, rate).line = n.line
      BY DEF C3!Enriched
    <3> QED BY <1>7, <2>1, <3>1 DEF C3!Enrich
  <2> QED BY <2>3, <2>4, <2>5
<1>8. CASE C3!EnrichCommit
  <2>1. UNCHANGED <<enriched, enrich>>
    BY <1>8 DEF C3!EnrichCommit
  <2> QED BY <1>5, <2>1
<1>9. CASE C3!EnrichRestart
  <2>1. /\ faults' = Append(faults, "enrich") /\ enrich' = enrichOk
        /\ UNCHANGED <<normalized, enriched>>
    BY <1>9 DEF C3!EnrichRestart, C3!Fault
  <2>2. EnrichReplays' = EnrichReplays + MaxPoll
    BY <2>1, ReplaysCounted DEF Kinds
  <2>3. enrich[c] - enrichOk[c] <= MaxPoll /\ MaxPoll \in Nat
    BY StreamAssumption DEF SmallBatches, Small
  <2>4. Relayed(Len(enriched[c]), normalized[c], enrichOk[c], LinesIn(enriched[c]),
                EnrichReplays + MaxPoll)
    BY <1>1, <1>3, <1>4, <2>3, RelayedBack
  <2> QED BY <2>1, <2>2, <2>4
<1> QED BY <1>6, <1>7, <1>8, <1>9 DEF Next, EnrichmentStep, C3!Next

\* But for what its restarts repeat, REPARTITION copies each record of its input once.
CopiedOnce ==
  \A c \in Clients :
    Relayed(Cardinality(CopiesOf(c)), enriched[c], pos[c], CopiedLines(c), CopyReplays)

\* A copy for another client, or none.
LEMMA CopiesUnmoved ==
  ASSUME StreamInv, TopicsGrow, NEW c \in Clients,
         \/ byDomain'[DomainOf[c]] = byDomain[DomainOf[c]]
         \/ \E b, i : /\ byDomain'[DomainOf[c]] = Append(byDomain[DomainOf[c]], <<b, i>>)
                      /\ b \in Clients \ {c} /\ i \in Nat
  PROVE  CopiesOf(c)' = CopiesOf(c) /\ CopiedLines(c)' = CopiedLines(c)
<1>1. PICK s, t : s = byDomain[DomainOf[c]] /\ t = byDomain'[DomainOf[c]]
  OBVIOUS
<1>2. DomainOf[c] \in Domains /\ s \in Seq(Clients \X Nat) /\ Len(s) \in Nat /\ DOMAIN s = 1..Len(s)
  BY <1>1, CopiesAreFinite, LenProperties
<1>3. \A n \in DOMAIN s : n \in DOMAIN t /\ t[n] = s[n]
  <2>1. CASE t = s
    BY <2>1
  <2>2. ASSUME NEW b \in Clients, NEW i \in Nat, t = Append(s, <<b, i>>)
        PROVE  \A n \in DOMAIN s : n \in DOMAIN t /\ t[n] = s[n]
    <3>0. s \in Seq(Clients \X Nat) /\ <<b, i>> \in Clients \X Nat
      BY <1>2
    <3>1. DOMAIN t = 1..(Len(s) + 1) /\ \A n \in 1..Len(s) : t[n] = s[n]
      BY <2>2, <3>0, AppendProperties, LenProperties
    <3> QED BY <1>2, <3>1
  <2> QED BY <1>1, <2>1, <2>2
<1>4. \A n \in DOMAIN t : n \in DOMAIN s \/ t[n][1] # c
  <2>1. ASSUME NEW b \in Clients \ {c}, NEW i \in Nat, t = Append(s, <<b, i>>)
        PROVE  \A n \in DOMAIN t : n \in DOMAIN s \/ t[n][1] # c
    <3>0. s \in Seq(Clients \X Nat) /\ <<b, i>> \in Clients \X Nat
      BY <1>2
    <3>1. DOMAIN t = 1..(Len(s) + 1) /\ t[Len(s) + 1] = <<b, i>>
      BY <2>1, <3>0, AppendProperties, LenProperties
    <3>2. \A n \in DOMAIN t : n \in DOMAIN s \/ n = Len(s) + 1
      BY <1>2, <3>1
    <3> QED BY <2>1, <3>1, <3>2
  <2> QED BY <1>1, <2>1
<1>5. CopiesOf(c)' = {n \in DOMAIN t : t[n][1] = c} /\ CopiesOf(c) = {n \in DOMAIN s : s[n][1] = c}
  BY <1>1 DEF CopiesOf
<1>6. CopiesOf(c)' = CopiesOf(c)
  BY <1>3, <1>4, <1>5
<1>7. \A n \in CopiesOf(c) : LineOfCopy(c)'[n] = LineOfCopy(c)[n]
  <2> TAKE n \in CopiesOf(c)
  <2>1. n \in DOMAIN byDomain[DomainOf[c]] /\ byDomain[DomainOf[c]][n][1] = c
    BY DEF CopiesOf
  <2>2. n \in DOMAIN byDomain'[DomainOf[c]]
    BY <1>1, <1>3, <2>1
  <2>3. /\ byDomain'[DomainOf[c]][n] = byDomain[DomainOf[c]][n]
        /\ enriched'[c][byDomain[DomainOf[c]][n][2]] = enriched[c][byDomain[DomainOf[c]][n][2]]
    <3>1. PICK d : d = DomainOf[c]
      OBVIOUS
    <3>2. d \in Domains /\ n \in DOMAIN byDomain[d] /\ byDomain[d][n][1] = c
      BY <1>2, <2>1, <3>1
    <3>3. /\ byDomain'[d][n] = byDomain[d][n]
          /\ enriched'[byDomain[d][n][1]][byDomain[d][n][2]] = enriched[byDomain[d][n][1]][byDomain[d][n][2]]
      BY <3>2, RequestStays
    <3> QED BY <3>1, <3>2, <3>3
  <2> QED BY <2>1, <2>2, <2>3 DEF LineOfCopy
<1> QED BY <1>6, <1>7 DEF CopiedLines

\* A copy for the client.
LEMMA OneMoreCopy ==
  ASSUME StreamInv, TopicsGrow, NEW c \in Clients, NEW i \in Nat, enriched' = enriched,
         byDomain'[DomainOf[c]] = Append(byDomain[DomainOf[c]], <<c, i>>)
  PROVE  /\ Cardinality(CopiesOf(c)') = Cardinality(CopiesOf(c)) + 1
         /\ CopiedLines(c)' = CopiedLines(c) \cup {enriched[c][i].line}
<1>1. PICK s, t, m : /\ s = byDomain[DomainOf[c]] /\ t = byDomain'[DomainOf[c]]
                     /\ m = Len(byDomain[DomainOf[c]]) + 1
  OBVIOUS
<1>2. DomainOf[c] \in Domains /\ s \in Seq(Clients \X Nat) /\ Len(s) \in Nat /\ DOMAIN s = 1..Len(s)
  BY <1>1, CopiesAreFinite, LenProperties
<1>3. /\ DOMAIN t = 1..(Len(s) + 1) /\ t[m] = <<c, i>>
      /\ \A n \in 1..Len(s) : t[n] = s[n]
  <2>1. s \in Seq(Clients \X Nat) /\ <<c, i>> \in Clients \X Nat
    BY <1>2
  <2>2. t = Append(s, <<c, i>>) /\ m = Len(s) + 1
    BY <1>1
  <2> QED BY <2>1, <2>2, AppendProperties, LenProperties
<1>4. /\ \A n \in DOMAIN s : n \in DOMAIN t /\ t[n] = s[n]
      /\ \A n \in DOMAIN t : n \in DOMAIN s \/ n = m
      /\ m \in DOMAIN t /\ m \notin DOMAIN s
  <2>1. m = Len(s) + 1
    BY <1>1
  <2>2. \A n \in DOMAIN s : n \in DOMAIN t /\ t[n] = s[n]
    BY <1>2, <1>3
  <2>3. \A n \in DOMAIN t : n \in DOMAIN s \/ n = m
    BY <1>2, <1>3, <2>1
  <2>4. m \in DOMAIN t /\ m \notin DOMAIN s
    BY <1>2, <1>3, <2>1
  <2> QED BY <2>2, <2>3, <2>4
<1>5. CopiesOf(c)' = {n \in DOMAIN t : t[n][1] = c} /\ CopiesOf(c) = {n \in DOMAIN s : s[n][1] = c}
  BY <1>1 DEF CopiesOf
<1>6. CopiesOf(c)' = CopiesOf(c) \cup {m} /\ m \notin CopiesOf(c)
  BY <1>3, <1>4, <1>5
<1>7. Cardinality(CopiesOf(c)') = Cardinality(CopiesOf(c)) + 1
  BY <1>6, CopiesAreFinite, FS_AddElement
<1>8. \A n \in CopiesOf(c) : LineOfCopy(c)'[n] = LineOfCopy(c)[n]
  <2> TAKE n \in CopiesOf(c)
  <2>1. n \in DOMAIN byDomain[DomainOf[c]] /\ byDomain[DomainOf[c]][n][1] = c
    BY DEF CopiesOf
  <2>2. n \in DOMAIN byDomain'[DomainOf[c]]
    BY <1>1, <1>4, <2>1
  <2>3. /\ byDomain'[DomainOf[c]][n] = byDomain[DomainOf[c]][n]
        /\ enriched'[c][byDomain[DomainOf[c]][n][2]] = enriched[c][byDomain[DomainOf[c]][n][2]]
    <3>1. PICK d : d = DomainOf[c]
      OBVIOUS
    <3>2. d \in Domains /\ n \in DOMAIN byDomain[d] /\ byDomain[d][n][1] = c
      BY <1>2, <2>1, <3>1
    <3>3. /\ byDomain'[d][n] = byDomain[d][n]
          /\ enriched'[byDomain[d][n][1]][byDomain[d][n][2]] = enriched[byDomain[d][n][1]][byDomain[d][n][2]]
      BY <3>2, RequestStays
    <3> QED BY <3>1, <3>2, <3>3
  <2> QED BY <2>1, <2>2, <2>3 DEF LineOfCopy
<1>9. LineOfCopy(c)'[m] = enriched[c][i].line
  <2>1. m \in DOMAIN byDomain'[DomainOf[c]] /\ byDomain'[DomainOf[c]][m][2] = i
    <3>1. m \in DOMAIN t /\ t[m][2] = i
      BY <1>3, <1>4
    <3> QED BY <1>1, <3>1
  <2>2. LineOfCopy(c)' = [n \in DOMAIN byDomain'[DomainOf[c]] |->
                            enriched'[c][byDomain'[DomainOf[c]][n][2]].line]
    BY DEF LineOfCopy
  <2> QED BY <2>1, <2>2
<1>10. CopiedLines(c)' = {LineOfCopy(c)'[n] : n \in CopiesOf(c)'}
  BY DEF CopiedLines
<1> QED BY <1>6, <1>7, <1>8, <1>9, <1>10 DEF CopiedLines

\* Every step of the stream keeps that.
LEMMA CopiedOnceStep ==
  ASSUME StreamInv, StreamInv', SmallBatches, CopiedOnce, [Next]_vars
  PROVE  CopiedOnce'
<1>1. CopyReplays' \in Nat /\ CopyReplays \in Nat /\ CopyReplays <= CopyReplays'
  BY ReplaysCounted, ReplaysGrow
<1>2. SUFFICES ASSUME NEW c \in Clients
               PROVE  Relayed(Cardinality(CopiesOf(c)'), enriched'[c], pos'[c], CopiedLines(c)', CopyReplays')
  BY DEF CopiedOnce, Relayed, Spare, LinesIn
<1>3. /\ enriched[c] \in Seq(EnrichedLines(c)) /\ enriched'[c] \in Seq(EnrichedLines(c))
      /\ Len(enriched[c]) \in Nat
      /\ pos[c] \in Nat /\ posOk[c] \in Nat /\ posOk[c] <= pos[c] /\ pos[c] <= Len(enriched[c])
      /\ pos \in [Partitions -> Nat] /\ c \in Partitions /\ c \notin Domains
      /\ Cardinality(CopiesOf(c)) \in Nat
  <2>1. enriched'[c] \in Seq(EnrichedLines(c)) /\ enriched[c] \in Seq(EnrichedLines(c))
    BY DEF StreamInv, StreamTypes, EnrichedLines, LogLines, Places
  <2>2. c \in Partitions
    BY DEF Partitions
  <2> QED BY <2>1, <2>2, LenProperties, InputFacts, CopiesAreFinite
<1>4. Relayed(Cardinality(CopiesOf(c)), enriched[c], pos[c], CopiedLines(c), CopyReplays)
  BY DEF CopiedOnce
<1>5. TopicsGrow
  BY StepGrows
<1>6. Grown(enriched[c], enriched'[c])
  BY <1>5 DEF TopicsGrow
<1>7. ASSUME byDomain' = byDomain, pos'[c] = pos[c]
      PROVE  Relayed(Cardinality(CopiesOf(c)'), enriched'[c], pos'[c], CopiedLines(c)', CopyReplays')
  <2>1. CopiesOf(c)' = CopiesOf(c) /\ CopiedLines(c)' = CopiedLines(c)
    BY <1>5, <1>7, CopiesUnmoved
  <2>2. Relayed(Cardinality(CopiesOf(c)), enriched'[c], pos[c], CopiedLines(c), CopyReplays')
    BY <1>1, <1>3, <1>4, <1>6, RelayedInputGrows
  <2> QED BY <1>7, <2>1, <2>2
<1>8. CASE ParsingStep \/ EnrichmentStep \/ Tick \/ UNCHANGED vars
  <2>1. UNCHANGED <<byDomain, pos>>
    BY <1>8 DEF ParsingStep, EnrichmentStep, Tick, vars, detection, topics
  <2> QED BY <1>7, <2>1
<1>9. ASSUME NEW p \in Partitions, Detector!Process(p)
      PROVE  Relayed(Cardinality(CopiesOf(c)'), enriched'[c], pos'[c], CopiedLines(c)', CopyReplays')
  <2>1. PICK i, e : i = pos[p] + 1 /\ e = Detector!Input(p)[i]
    OBVIOUS
  <2>2. /\ pos[p] < Len(Detector!Input(p)) /\ pos' = [pos EXCEPT ![p] = i]
        /\ enriched' = enriched
    BY <1>9, <2>1 DEF Detector!Process
  <2>3. CASE byDomain' = byDomain
    <3>1. CASE c # p
      BY <1>3, <1>7, <2>2, <2>3, <3>1
    <3>2. CASE c = p
      <4>1. pos'[c] = pos[c] + 1 /\ pos[c] < Len(enriched[c])
        BY <1>3, <2>1, <2>2, <3>2, InputFacts
      <4>2. Relayed(Cardinality(CopiesOf(c)), enriched[c], pos[c] + 1, CopiedLines(c), CopyReplays)
        BY <1>1, <1>3, <1>4, <4>1, RelayedSkipped
      <4>3. pos[c] + 1 <= Len(enriched[c]) /\ pos[c] + 1 \in Nat
        BY <1>3, <4>1
      <4>4. Relayed(Cardinality(CopiesOf(c)), enriched'[c], pos[c] + 1, CopiedLines(c), CopyReplays')
        BY <1>1, <1>3, <1>6, <4>2, <4>3, RelayedInputGrows
      <4>5. CopiesOf(c)' = CopiesOf(c) /\ CopiedLines(c)' = CopiedLines(c)
        BY <1>5, <2>3, CopiesUnmoved
      <4> QED BY <4>1, <4>4, <4>5
    <3> QED BY <3>1, <3>2
  <2>4. ASSUME Detector!Copy(p, e), faults' = faults
        PROVE  Relayed(Cardinality(CopiesOf(c)'), enriched'[c], pos'[c], CopiedLines(c)', CopyReplays')
    <3>1. p \in Clients /\ byDomain' = [byDomain EXCEPT ![DomainOf[p]] = Append(@, e)]
      BY <2>4 DEF Detector!Copy
    <3>2. e = <<p, i>> /\ i \in Nat /\ pos[p] < Len(enriched[p])
      <4>1. enriched[p] \in Seq(EnrichedLines(p)) /\ pos[p] \in Nat /\ pos[p] < Len(enriched[p])
        BY <2>2, <3>1, InputFacts DEF StreamInv, StreamTypes
      <4>2. i \in DOMAIN enriched[p] /\ i \in Nat
        BY <2>1, <4>1, LenProperties
      <4> QED BY <2>1, <3>1, <4>1, <4>2 DEF Detector!Input
    <3>3. DomainOf[c] \in Domains /\ DOMAIN byDomain = Domains
      BY StreamAssumption DEF StreamInv, StreamTypes
    <3>4. byDomain'[DomainOf[c]] = IF DomainOf[c] = DomainOf[p]
                                   THEN Append(byDomain[DomainOf[c]], <<p, i>>)
                                   ELSE byDomain[DomainOf[c]]
      BY <3>1, <3>2, <3>3
    <3>5. CASE c # p
      <4>1. CopiesOf(c)' = CopiesOf(c) /\ CopiedLines(c)' = CopiedLines(c)
        BY <1>5, <3>1, <3>2, <3>4, <3>5, CopiesUnmoved
      <4>2. pos'[c] = pos[c]
        BY <1>3, <2>2, <3>5
      <4>3. Relayed(Cardinality(CopiesOf(c)), enriched'[c], pos[c], CopiedLines(c), CopyReplays')
        BY <1>1, <1>3, <1>4, <1>6, RelayedInputGrows
      <4> QED BY <4>1, <4>2, <4>3
    <3>6. CASE c = p
      <4>1. /\ Cardinality(CopiesOf(c)') = Cardinality(CopiesOf(c)) + 1
            /\ CopiedLines(c)' = CopiedLines(c) \cup {enriched[c][i].line}
        BY <1>5, <2>2, <3>2, <3>4, <3>6, OneMoreCopy
      <4>2. pos'[c] = pos[c] + 1 /\ i = pos[c] + 1
        BY <1>3, <2>1, <2>2, <3>6
      <4>3. CopyReplays' = CopyReplays
        BY <2>4 DEF CopyReplays, Happened
      <4>4. Relayed(Cardinality(CopiesOf(c)) + 1, enriched[c], pos[c] + 1,
                    CopiedLines(c) \cup {enriched[c][pos[c] + 1].line}, CopyReplays)
        BY <1>1, <1>3, <1>4, <3>2, <3>6, RelayedPublished
      <4> QED BY <2>2, <4>1, <4>2, <4>3, <4>4
    <3> QED BY <3>5, <3>6
  <2>5. byDomain' = byDomain \/ (Detector!Copy(p, e) /\ faults' = faults)
    BY <1>9, <2>1 DEF Detector!Process, Detector!Analyse
  <2> QED BY <2>3, <2>4, <2>5
<1>10. ASSUME NEW role, Detector!Commit(role)
       PROVE  Relayed(Cardinality(CopiesOf(c)'), enriched'[c], pos'[c], CopiedLines(c)', CopyReplays')
  <2>1. UNCHANGED <<byDomain, pos>>
    BY <1>10 DEF Detector!Commit
  <2> QED BY <1>7, <2>1
<1>11. ASSUME NEW role \in {Clients, Domains}, Detector!Restart(role)
       PROVE  Relayed(Cardinality(CopiesOf(c)'), enriched'[c], pos'[c], CopiedLines(c)', CopyReplays')
  <2>1. /\ faults' = Append(faults, IF role = Clients THEN "copy" ELSE "ddos")
        /\ pos'[c] = IF c \in role THEN posOk[c] ELSE pos[c]
        /\ UNCHANGED <<enriched, byDomain>>
    BY <1>3, <1>11 DEF Detector!Restart, Detector!Fault, Detector!Partitions, Partitions
  <2>2. CASE role = Clients
    <3>1. CopyReplays' = CopyReplays + MaxPoll /\ pos'[c] = posOk[c]
      BY <2>1, <2>2, ReplaysCounted DEF Kinds
    <3>2. pos[c] - posOk[c] <= MaxPoll /\ MaxPoll \in Nat
      BY StreamAssumption DEF SmallBatches, Small
    <3>3. Relayed(Cardinality(CopiesOf(c)), enriched[c], posOk[c], CopiedLines(c), CopyReplays + MaxPoll)
      BY <1>1, <1>3, <1>4, <3>2, RelayedBack
    <3>4. CopiesOf(c)' = CopiesOf(c) /\ CopiedLines(c)' = CopiedLines(c)
      BY <1>5, <2>1, CopiesUnmoved
    <3> QED BY <2>1, <3>1, <3>3, <3>4
  <2>3. CASE role = Domains
    <3>1. pos'[c] = pos[c]
      BY <1>3, <2>1, <2>3
    <3> QED BY <1>7, <2>1, <3>1
  <2> QED BY <2>2, <2>3
<1> QED BY <1>8, <1>9, <1>10, <1>11
        DEF Next, DetectionStep, Detector!Next, Detector!Partitions, Partitions

\* What bounds the repeats.
RepeatsInv == StreamInv /\ SmallBatches /\ ParsedOnce /\ EnrichedOnce /\ CopiedOnce

\* At first nothing is published.
LEMMA RepeatsInit == Init => RepeatsInv
<1> SUFFICES ASSUME Init PROVE RepeatsInv
  OBVIOUS
<1>1. StreamInv
  BY StreamInit
<1>2. /\ normalized = [c \in Clients |-> <<>>] /\ enriched = [c \in Clients |-> <<>>]
      /\ byDomain = [d \in Domains |-> <<>>]
      /\ parsed = [c \in Clients |-> 0] /\ parsedOk = [c \in Clients |-> 0]
      /\ enrich = [c \in Clients |-> 0] /\ enrichOk = [c \in Clients |-> 0]
      /\ pos = [p \in Partitions |-> 0] /\ posOk = [p \in Partitions |-> 0]
  BY DEF Init, C2!Init, C3!Init, Detector!Init, Detector!Partitions, Partitions
<1>3. ParseReplays \in Nat /\ EnrichReplays \in Nat /\ CopyReplays \in Nat
  BY <1>1, ReplaysCounted
<1>4. SmallBatches
  <2>1. MaxPoll \in Nat /\ \A c \in Clients : c \in Partitions
    BY StreamAssumption DEF Partitions
  <2> QED BY <1>2, <2>1 DEF SmallBatches, Small
<1>5. ParsedOnce
  <2> SUFFICES ASSUME NEW c \in Clients
               PROVE  Spread(Len(normalized[c]), Handled(c), LinesIn(normalized[c]), ParseReplays)
    BY DEF ParsedOnce
  <2>1. PICK old : old = Handled(c) \cap LinesIn(normalized[c])
    OBVIOUS
  <2>2. old \subseteq LogLines(c)
    BY <2>1 DEF Handled
  <2>3. Cardinality(old) \in Nat
    BY <1>1, <2>2, HandledIsFinite, FS_CardinalityType
  <2>4. Len(normalized[c]) = 0
    BY <1>2
  <2> QED BY <1>3, <2>1, <2>3, <2>4 DEF Spread
<1>6. ASSUME NEW R, NEW B \in Nat PROVE Relayed(0, <<>>, 0, R, B)
  <2>1. Spare(<<>>, 0, R) = {}
    BY DEF Spare, LinesIn
  <2>2. Cardinality({}) = 0
    BY FS_EmptySet
  <2>3. 0 + 0 <= 0 + B
    OBVIOUS
  <2>4. 0 + Cardinality(Spare(<<>>, 0, R)) <= 0 + B
    BY <2>1, <2>2, <2>3
  <2> QED BY <2>4 DEF Relayed
<1>7. EnrichedOnce
  <2>1. \A c \in Clients : Len(enriched[c]) = 0 /\ normalized[c] = <<>> /\ enrich[c] = 0
    BY <1>2
  <2> QED BY <1>3, <1>6, <2>1 DEF EnrichedOnce
<1>8. CopiedOnce
  <2>1. \A c \in Clients : enriched[c] = <<>> /\ pos[c] = 0
    BY <1>2 DEF Partitions
  <2>2. ASSUME NEW c \in Clients PROVE Cardinality(CopiesOf(c)) = 0
    <3>1. byDomain[DomainOf[c]] = <<>>
      BY <1>2, StreamAssumption
    <3>2. CopiesOf(c) = {}
      BY <3>1 DEF CopiesOf
    <3> QED BY <3>2, FS_EmptySet
  <2> QED BY <1>3, <1>6, <2>1, <2>2 DEF CopiedOnce
<1> QED BY <1>1, <1>4, <1>5, <1>7, <1>8 DEF RepeatsInv

LEMMA RepeatsStep == StreamInv' /\ RepeatsInv /\ [Next]_vars => RepeatsInv'
<1> SUFFICES ASSUME StreamInv', RepeatsInv, [Next]_vars PROVE RepeatsInv'
  OBVIOUS
<1>1. StreamInv /\ SmallBatches /\ ParsedOnce /\ EnrichedOnce /\ CopiedOnce
  BY DEF RepeatsInv
<1>2. SmallBatches' /\ ParsedOnce'
  BY <1>1, BatchesStep, ParsedOnceStep
<1>3. EnrichedOnce' /\ CopiedOnce'
  BY <1>1, EnrichedOnceStep, CopiedOnceStep
<1> QED BY <1>2, <1>3 DEF RepeatsInv

\* What C2, C3 and REPARTITION repeat adds up.
LEMMA RepeatsFew == RepeatsInv => RepeatsBounded
<1> SUFFICES ASSUME RepeatsInv, NEW c \in Clients
             PROVE  Cardinality(Repeats(c))
                      <= MaxPoll * (LongestBlock * Cardinality(Happened({"parse"}))
                                    + Cardinality(Happened({"enrich", "copy"})))
  BY DEF RepeatsBounded
<1>1. /\ StreamInv
      /\ Spread(Len(normalized[c]), Handled(c), LinesIn(normalized[c]), ParseReplays)
      /\ Relayed(Len(enriched[c]), normalized[c], enrich[c], LinesIn(enriched[c]), EnrichReplays)
      /\ Relayed(Cardinality(CopiesOf(c)), enriched[c], pos[c], CopiedLines(c), CopyReplays)
  BY DEF RepeatsInv, ParsedOnce, EnrichedOnce, CopiedOnce
<1>2. PICK a, b, d : a = ParseReplays /\ b = EnrichReplays /\ d = CopyReplays
  OBVIOUS
<1>3. a \in Nat /\ b \in Nat /\ d \in Nat
  BY <1>1, <1>2, ReplaysCounted
<1>4. /\ normalized[c] \in Seq(Normalized(c)) /\ enriched[c] \in Seq(EnrichedLines(c))
      /\ Len(normalized[c]) \in Nat /\ Len(enriched[c]) \in Nat
      /\ enrich[c] \in Nat /\ enrich[c] <= Len(normalized[c])
  BY <1>1, LenProperties DEF StreamInv, StreamTypes, TypeOK
<1>5. pos[c] \in Nat /\ pos[c] <= Len(enriched[c])
  <2>1. c \in Partitions
    BY DEF Partitions
  <2> QED BY <1>1, <2>1, InputFacts
<1>6. Len(normalized[c]) <= Cardinality(LinesIn(normalized[c])) + a
  <2>1. PICK all, old : all = LinesIn(normalized[c]) /\ old = Handled(c) \cap LinesIn(normalized[c])
    OBVIOUS
  <2>2. IsFiniteSet(all) /\ Cardinality(all) \in Nat /\ old \in SUBSET all
    BY <1>4, <2>1, LinesAreFinite
  <2>3. Cardinality(old) \in Nat /\ Cardinality(old) <= Cardinality(all)
    BY <2>2, FS_Subset, FS_CardinalityType
  <2>4. Len(normalized[c]) <= Cardinality(old) + a
    BY <1>1, <1>2, <2>1 DEF Spread
  <2>5. Len(normalized[c]) <= Cardinality(all) + a
    BY <1>3, <1>4, <2>2, <2>3, <2>4
  <2> QED BY <2>1, <2>5
<1>7. Len(enriched[c]) <= Cardinality(LinesIn(enriched[c])) + (a + b)
  <2>1. IsFiniteSet(LinesIn(enriched[c]))
    BY <1>4, LinesAreFinite
  <2>2. Relayed(Len(enriched[c]), normalized[c], enrich[c], LinesIn(enriched[c]), b)
    BY <1>1, <1>2
  <2> QED BY <1>3, <1>4, <1>6, <2>1, <2>2, RelayedRepeats
<1>8. Cardinality(CopiesOf(c)) <= Cardinality(CopiedLines(c)) + ((a + b) + d)
  <2>1. IsFiniteSet(CopiedLines(c)) /\ Cardinality(CopiesOf(c)) \in Nat
    BY <1>1, CopiesAreFinite
  <2>2. Relayed(Cardinality(CopiesOf(c)), enriched[c], pos[c], CopiedLines(c), d)
    BY <1>1, <1>2
  <2>3. a + b \in Nat
    BY <1>3
  <2> QED BY <1>3, <1>4, <1>5, <1>7, <2>1, <2>2, <2>3, RelayedRepeats
<1>9. Cardinality(Repeats(c)) <= (a + b) + d
  <2>1. /\ Cardinality(Repeats(c)) + Cardinality(CopiedLines(c)) <= Cardinality(CopiesOf(c))
        /\ Cardinality(Repeats(c)) \in Nat
    BY <1>1, RepeatsAreCopies
  <2>2. Cardinality(CopiedLines(c)) \in Nat /\ Cardinality(CopiesOf(c)) \in Nat
    BY <1>1, CopiesAreFinite
  <2> QED BY <1>3, <1>8, <2>1, <2>2
<1>10. (a + b) + d = MaxPoll * (LongestBlock * Cardinality(Happened({"parse"}))
                                + Cardinality(Happened({"enrich", "copy"})))
  <2>1. PICK E, C : E = Happened({"enrich"}) /\ C = Happened({"copy"})
    OBVIOUS
  <2>2. IsFiniteSet(E) /\ IsFiniteSet(C) /\ Cardinality(E) \in Nat /\ Cardinality(C) \in Nat
    BY <1>1, <2>1, FaultsCounted
  <2>3. E \cap C = {} /\ Happened({"enrich", "copy"}) = E \cup C
    BY <2>1 DEF Happened
  <2>4. Cardinality(E \cup C) = Cardinality(E) + Cardinality(C)
    <3>1. Cardinality(E \cup C) = Cardinality(E) + Cardinality(C) - Cardinality({})
      BY <2>2, <2>3, FS_Union
    <3> QED BY <2>2, <3>1, FS_EmptySet
  <2>5. PICK m, k, e, f : /\ m = MaxPoll /\ k = LongestBlock * Cardinality(Happened({"parse"}))
                          /\ e = Cardinality(E) /\ f = Cardinality(C)
    OBVIOUS
  <2>6. m \in Nat /\ k \in Nat /\ e \in Nat /\ f \in Nat
    <3>1. LongestBlock \in Nat /\ Cardinality(Happened({"parse"})) \in Nat
      BY <1>1, LongestFacts, FaultsCounted
    <3>2. \A x, y \in Nat : x * y \in Nat
      OBVIOUS
    <3> QED BY <2>2, <2>5, <3>1, <3>2, StreamAssumption
  <2>7. a = m * k /\ b = m * e /\ d = m * f
    BY <1>2, <2>1, <2>5 DEF ParseReplays, EnrichReplays, CopyReplays
  <2>8. \A x, y, z, w \in Nat : (x * y + x * z) + x * w = x * (y + (z + w))
    OBVIOUS
  <2>9. (m * k + m * e) + m * f = m * (k + (e + f))
    BY <2>6, <2>8
  <2> QED BY <2>3, <2>4, <2>5, <2>7, <2>9
<1> QED BY <1>9, <1>10

LEMMA RepeatsInvariant == Spec => []RepeatsInv
<1>1. Init => RepeatsInv
  BY RepeatsInit
<1>2. StreamInv' /\ RepeatsInv /\ [Next]_vars => RepeatsInv'
  BY RepeatsStep
<1>3. Spec => []StreamInv
  BY StreamInvariant
<1> QED BY <1>1, <1>2, <1>3, PTL DEF Spec

\* However often the stages restart, and in the middle of what they publish, a restart of
\* one stage repeats at most one batch, and the stages do not multiply their repeats.
THEOREM RepeatsAreBounded == Spec => []RepeatsBounded
<1>1. RepeatsInv => RepeatsBounded
  BY RepeatsFew
<1> QED BY <1>1, RepeatsInvariant, PTL

-----------------------------------------------------------------------------
(* Every alert is justified.                                               *)

\* The requests up to i of the log L that lie in the window that ends at t.
InWindow(i, L, t) == {j \in 1..i : t - WindowSeconds < L[j].second /\ L[j].second <= t}

\* One of the windows up to i holds enough requests of enough addresses.
Backed(i, L) ==
  \E m \in 1..i :
    LET K == InWindow(i, L, L[m].second) IN
    /\ Cardinality({L[j].client : j \in K}) >= UniqueIpThreshold
    /\ Cardinality(K) >= RequestThreshold

AlertsBacked == \A d \in Domains, i \in Nat : <<d, i>> \in alerts => Backed(i, Requests(d))

\* A window is known by its requests.
LEMMA BackedStays ==
  ASSUME NEW i, NEW L, Backed(i, L), NEW M, \A j \in 1..i : M[j] = L[j]
  PROVE  Backed(i, M)
<1>1. PICK m \in 1..i :
        /\ Cardinality({L[j].client : j \in InWindow(i, L, L[m].second)}) >= UniqueIpThreshold
        /\ Cardinality(InWindow(i, L, L[m].second)) >= RequestThreshold
  BY DEF Backed
<1>2. M[m].second = L[m].second
  OBVIOUS
<1>3. InWindow(i, M, M[m].second) = InWindow(i, L, L[m].second)
  BY <1>2 DEF InWindow
<1>4. {M[j].client : j \in InWindow(i, L, L[m].second)} = {L[j].client : j \in InWindow(i, L, L[m].second)}
  BY DEF InWindow
<1> QED BY <1>1, <1>3, <1>4 DEF Backed

\* What DDOS counts when it alerts is there.
LEMMA CountsBackAlert ==
  ASSUME NEW i \in Nat, NEW w, NEW L, NEW real, WindowCounts(i, w, L, real),
         w.requests >= RequestThreshold,
         Cardinality({c \in Clients : w.ips[c] > 0}) >= UniqueIpThreshold
  PROVE  Backed(i, L)
<1>1. PICK m \in 1..i : L[m].second = w.latest
  BY DEF WindowCounts
<1>2. PICK K : K = InWindow(i, L, L[m].second)
  OBVIOUS
<1>3. real \in SUBSET K /\ K \in SUBSET (1..i)
  BY <1>1, <1>2 DEF InWindow, WindowCounts
<1>4. IsFiniteSet(1..i)
  BY FS_Interval
<1>5. IsFiniteSet(K) /\ IsFiniteSet(real)
  BY <1>3, <1>4, FS_Subset
<1>6. PICK f : f = [j \in K |-> L[j].client]
  OBVIOUS
<1>7. PICK all, some : all = {f[j] : j \in K} /\ some = {f[j] : j \in real}
  OBVIOUS
<1>8. all = {L[j].client : j \in K} /\ some = {L[j].client : j \in real} /\ some \in SUBSET all
  BY <1>3, <1>6, <1>7
<1>9. IsFiniteSet(all)
  BY <1>5, <1>7, ImageSize
<1>10. Cardinality(real) <= Cardinality(K) /\ Cardinality(some) <= Cardinality(all)
  BY <1>3, <1>5, <1>8, <1>9, FS_Subset
<1>11. /\ Cardinality(real) \in Nat /\ Cardinality(K) \in Nat
       /\ Cardinality(some) \in Nat /\ Cardinality(all) \in Nat
  <2>1. IsFiniteSet(some)
    BY <1>8, <1>9, FS_Subset
  <2> QED BY <1>5, <1>9, <2>1, FS_CardinalityType
<1>12. Cardinality(real) >= RequestThreshold /\ Cardinality(some) >= UniqueIpThreshold
  BY <1>8 DEF WindowCounts
<1>13. RequestThreshold \in Nat /\ UniqueIpThreshold \in Nat
  BY StreamAssumption
<1>14. Cardinality(K) >= RequestThreshold /\ Cardinality(all) >= UniqueIpThreshold
  BY <1>10, <1>11, <1>12, <1>13
<1> QED BY <1>2, <1>8, <1>14 DEF Backed

\* The requests of an alert stay backed, and a new alert is.
LEMMA BackedStep ==
  ASSUME StreamInv, StreamInv', DomainWindows, Bursts, AlertsBacked, [Next]_vars
  PROVE  AlertsBacked'
<1>1. ASSUME NEW d \in Domains, NEW i \in Nat, <<d, i>> \in alerts
      PROVE  Backed(i, Requests(d)')
  <2>1. TopicsGrow
    BY StepGrows
  <2>2. i \in DOMAIN byDomain[d]
    BY <1>1 DEF Bursts, OfRecords
  <2>3. DOMAIN byDomain[d] = 1..Len(byDomain[d]) /\ Len(byDomain[d]) \in Nat
    BY HandledAreRecords
  <2>4. \A j \in 1..i : j \in DOMAIN byDomain[d]
    BY <2>2, <2>3
  <2>5. \A j \in 1..i : Requests(d)'[j] = Requests(d)[j]
    BY <2>1, <2>4, RequestsStay
  <2>6. PICK L, M : L = Requests(d) /\ M = Requests(d)'
    OBVIOUS
  <2>7. Backed(i, L) /\ \A j \in 1..i : M[j] = L[j]
    BY <1>1, <2>5, <2>6 DEF AlertsBacked
  <2> QED BY <2>6, <2>7, BackedStays
<1>2. CASE Silent
  <2>1. alerts' = alerts
    BY <1>2 DEF Silent
  <2>2. \A d \in Domains, i \in Nat : <<d, i>> \in alerts' => Backed(i, Requests(d)')
    BY <1>1, <2>1
  <2> QED BY <2>2 DEF AlertsBacked, Backed, InWindow
<1>3. ASSUME NEW p \in Domains, NEW i, NEW w, NEW V, NEW alert, Verdict(p, i, w, V, alert)
      PROVE  AlertsBacked'
  <2>1. PICK L, real : L = Requests(p) /\ real = Covered(w, V \cup {i}, L)
    OBVIOUS
  <2>2. WindowCounts(i, w, L, real)
    BY <1>3, <2>1, VerdictCounts
  <2>3. /\ alerts' = IF alert THEN alerts \cup {<<p, i>>} ELSE alerts
        /\ alert \in BOOLEAN /\ UNCHANGED <<enriched, byDomain>>
    BY <1>3 DEF Verdict
  <2>4. Requests(p)' = L
    BY <2>1, <2>3 DEF Requests, Detector!Second
  <2>5. ASSUME alert PROVE Backed(i, L)
    <3> HIDE DEF Detector!Never
    <3>1. w.requests >= RequestThreshold /\ Cardinality({c \in Clients : w.ips[c] > 0}) >= UniqueIpThreshold
      BY <1>3, <2>5 DEF Verdict
    <3>2. i \in Nat
      BY <2>2 DEF WindowCounts
    <3> QED BY <2>2, <3>1, <3>2, CountsBackAlert
  <2>6. ASSUME NEW d \in Domains, NEW m \in Nat, <<d, m>> \in alerts'
        PROVE  Backed(m, Requests(d)')
    <3>1. CASE <<d, m>> \in alerts
      BY <1>1, <3>1
    <3>2. CASE <<d, m>> \notin alerts
      <4>1. alert /\ d = p /\ m = i
        BY <2>3, <2>6, <3>2
      <4> QED BY <2>4, <2>5, <4>1
    <3> QED BY <3>1, <3>2
  <2> QED BY <2>6 DEF AlertsBacked, Backed, InWindow
<1> QED BY <1>2, <1>3, StepCases

\* The line behind a record of DDOS, and its client.
LineBehind(d, j) == enriched[byDomain[d][j][1]][byDomain[d][j][2]].line

LEMMA LineBehindFacts ==
  ASSUME StreamInv, NEW d \in Domains, NEW j \in DOMAIN byDomain[d], NEW c, c = byDomain[d][j][1]
  PROVE  /\ c \in Clients /\ LineBehind(d, j)[1] = c /\ Requests(d)[j].client = c
         /\ Requests(d)[j].second = Detector!Second(byDomain[d][j])
         /\ DomainOf[c] = d /\ j \in CopiesOf(c) /\ LineOfCopy(c)[j] = LineBehind(d, j)
<1>1. PICK l : l = LineBehind(d, j)
  OBVIOUS
<1>2. c \in Clients /\ l \in LogLines(c)
  <2>1. c \in Clients /\ enriched[c][byDomain[d][j][2]] \in EnrichedLines(c)
    BY PlaceOfRequest
  <2> QED BY <1>1, <2>1 DEF LineBehind, EnrichedLines
<1>3. l = <<c, l[2], l[3]>>
  BY <1>2, LineFacts
<1>4. l[1] = c
  <2>1. \A x, y : <<c, x, y>>[1] = c
    OBVIOUS
  <2> QED BY <1>3, <2>1
<1>5. Requests(d)[j] = [second |-> Detector!Second(byDomain[d][j]), client |-> byDomain[d][j][1]]
  BY PlaceOfRequest
<1>6. DomainOf[c] = d
  <2>1. \E b \in Clients : \E i \in DOMAIN enriched[b] : byDomain[d][j] = <<b, i>> /\ DomainOf[b] = d
    BY DEF StreamInv, CopiesInOrder, CopyInOrder
  <2> QED BY <2>1
<1>7. j \in CopiesOf(c) /\ LineOfCopy(c)[j] = LineBehind(d, j)
  BY <1>6 DEF CopiesOf, LineOfCopy, LineBehind
<1> QED BY <1>1, <1>2, <1>4, <1>5, <1>6, <1>7

\* Without a restart before DDOS, there are as many lines as records.
LEMMA LinesAreDifferent ==
  ASSUME StreamInv, RepeatsBounded, Happened({"parse", "enrich", "copy"}) = {},
         NEW d \in Domains, NEW j \in DOMAIN byDomain[d], NEW k \in DOMAIN byDomain[d],
         LineBehind(d, j) = LineBehind(d, k)
  PROVE  j = k
<1>1. PICK c : c = byDomain[d][j][1]
  OBVIOUS
<1>2. /\ c \in Clients /\ DomainOf[c] = d /\ j \in CopiesOf(c)
      /\ LineBehind(d, j)[1] = c /\ LineOfCopy(c)[j] = LineBehind(d, j)
  BY <1>1, LineBehindFacts
<1>3. LineBehind(d, k)[1] = byDomain[d][k][1]
  BY LineBehindFacts
<1>4. byDomain[d][k][1] = c
  BY <1>2, <1>3
<1>5. k \in CopiesOf(c) /\ LineOfCopy(c)[k] = LineBehind(d, k)
  BY <1>4, LineBehindFacts
<1>6. Repeats(c) = {}
  <2>1. Happened({"parse"}) = {} /\ Happened({"enrich", "copy"}) = {}
    BY DEF Happened
  <2>2. Cardinality({}) = 0
    BY FS_EmptySet
  <2>3. Cardinality(Repeats(c)) <= MaxPoll * (LongestBlock * 0 + 0)
    BY <1>2, <2>1, <2>2 DEF RepeatsBounded
  <2>4. MaxPoll * (LongestBlock * 0 + 0) = 0
    <3>1. MaxPoll \in Nat /\ LongestBlock \in Nat
      BY StreamAssumption, LongestFacts
    <3> QED BY <3>1
  <2>5. IsFiniteSet(Repeats(c)) /\ Cardinality(Repeats(c)) \in Nat
    BY <1>2, RepeatsAreCopies
  <2>6. Cardinality(Repeats(c)) = 0
    BY <2>3, <2>4, <2>5
  <2> QED BY <2>5, <2>6, FS_EmptySet
<1> QED BY <1>2, <1>5, <1>6, CopiesAreDifferent

\* What backs an alert justifies it.
LEMMA BackedIsJustified ==
  ASSUME StreamInv, Bursts, RepeatsBounded, AlertsBacked PROVE AlertIsJustified
<1> SUFFICES ASSUME NEW a \in alerts
             PROVE  LET of == byDomain[a[1]]
                        second(j) == Detector!Second(of[j])
                        window(t) == {j \in 1..a[2] : t - WindowSeconds < second(j) /\ second(j) <= t}
                        lines(t) == {enriched[of[j][1]][of[j][2]].line : j \in window(t)} IN
                    \E j \in 1..a[2] :
                      /\ Cardinality({l[1] : l \in lines(second(j))}) >= UniqueIpThreshold
                      /\ \/ Cardinality(lines(second(j))) >= RequestThreshold
                         \/ Happened({"parse", "enrich", "copy"}) # {}
  BY DEF AlertIsJustified
<1>1. PICK d \in Domains : \E n \in DOMAIN byDomain[d] : a = <<d, n>>
  BY DEF Bursts, OfRecords
<1>2. PICK i \in DOMAIN byDomain[d] : a = <<d, i>>
  BY <1>1
<1>3. i \in Nat /\ \A j \in 1..i : j \in DOMAIN byDomain[d]
  <2>1. DOMAIN byDomain[d] = 1..Len(byDomain[d]) /\ Len(byDomain[d]) \in Nat
    BY HandledAreRecords
  <2> QED BY <2>1
<1>4. PICK L : L = Requests(d)
  OBVIOUS
<1>5. Backed(i, L)
  BY <1>2, <1>3, <1>4 DEF AlertsBacked
<1>6. PICK m \in 1..i :
        /\ Cardinality({L[j].client : j \in InWindow(i, L, L[m].second)}) >= UniqueIpThreshold
        /\ Cardinality(InWindow(i, L, L[m].second)) >= RequestThreshold
  BY <1>5 DEF Backed
<1>7. \A j \in 1..i : /\ Detector!Second(byDomain[d][j]) = L[j].second
                      /\ LineBehind(d, j)[1] = L[j].client
  BY <1>3, <1>4, LineBehindFacts
<1>8. PICK K, lines : /\ K = {j \in 1..i : /\ L[m].second - WindowSeconds < Detector!Second(byDomain[d][j])
                                           /\ Detector!Second(byDomain[d][j]) <= L[m].second}
                      /\ lines = {LineBehind(d, j) : j \in K}
  OBVIOUS
<1>9. K = InWindow(i, L, L[m].second)
  BY <1>7, <1>8 DEF InWindow
<1>10. {l[1] : l \in lines} = {L[j].client : j \in K}
  <2>1. {l[1] : l \in lines} = {LineBehind(d, j)[1] : j \in K}
    BY <1>8
  <2>2. \A j \in K : LineBehind(d, j)[1] = L[j].client
    BY <1>7, <1>8
  <2> QED BY <2>1, <2>2
<1>11. Cardinality({l[1] : l \in lines}) >= UniqueIpThreshold
  BY <1>6, <1>9, <1>10
<1>12. ASSUME Happened({"parse", "enrich", "copy"}) = {}
       PROVE  Cardinality(lines) >= RequestThreshold
  <2>1. PICK f : f = [j \in K |-> LineBehind(d, j)]
    OBVIOUS
  <2>2. f \in Bijection(K, lines)
    <3>1. f \in [K -> lines] /\ \A l \in lines : \E j \in K : f[j] = l
      BY <1>8, <2>1
    <3>2. ASSUME NEW j \in K, NEW k \in K, f[j] = f[k] PROVE j = k
      <4>1. j \in DOMAIN byDomain[d] /\ k \in DOMAIN byDomain[d] /\ LineBehind(d, j) = LineBehind(d, k)
        BY <1>3, <1>8, <2>1, <3>2
      <4> QED BY <1>12, <4>1, LinesAreDifferent
    <3> QED BY <3>1, <3>2 DEF Bijection, Injection, Surjection, IsInjective
  <2>3. IsFiniteSet(K)
    <3>1. IsFiniteSet(1..i) /\ K \in SUBSET (1..i)
      BY <1>3, <1>8, FS_Interval
    <3> QED BY <3>1, FS_Subset
  <2>4. ExistsBijection(K, lines)
    BY <2>2 DEF ExistsBijection
  <2>5. Cardinality(lines) = Cardinality(K)
    BY <2>3, <2>4, FS_Bijection
  <2> QED BY <1>6, <1>9, <2>5
<1>13. Cardinality(lines) >= RequestThreshold \/ Happened({"parse", "enrich", "copy"}) # {}
  BY <1>12
<1> DEFINE of == byDomain[a[1]]
           second(j) == Detector!Second(of[j])
           window(t) == {j \in 1..a[2] : t - WindowSeconds < second(j) /\ second(j) <= t}
           linesOf(t) == {enriched[of[j][1]][of[j][2]].line : j \in window(t)}
<1>14. m \in 1..a[2] /\ second(m) = L[m].second
  BY <1>2, <1>7
<1>15. window(second(m)) = K
  <2>1. a[2] = i /\ \A j : second(j) = Detector!Second(byDomain[d][j])
    BY <1>2
  <2> QED BY <1>8, <1>14, <2>1
<1>16. linesOf(second(m)) = lines
  <2>1. \A j : enriched[of[j][1]][of[j][2]].line = LineBehind(d, j)
    BY <1>2 DEF LineBehind
  <2> QED BY <1>8, <1>15, <2>1
<1> HIDE DEF linesOf, second
<1>17. \E j \in 1..a[2] :
         /\ Cardinality({l[1] : l \in linesOf(second(j))}) >= UniqueIpThreshold
         /\ \/ Cardinality(linesOf(second(j))) >= RequestThreshold
            \/ Happened({"parse", "enrich", "copy"}) # {}
  BY <1>11, <1>13, <1>14, <1>16
<1> QED BY <1>17 DEF linesOf, second

\* An alert never stands on counts alone: in some window the log has lines of enough
\* addresses and, as long as no stage before DDOS was restarted, enough lines.
THEOREM AlertsAreJustified == Spec => []AlertIsJustified
<1>1. Init => AlertsBacked
  BY DEF Init, Detector!Init, AlertsBacked
<1>2. CountsInv /\ CountsInv' /\ AlertsBacked /\ [Next]_vars => AlertsBacked'
  BY BackedStep DEF CountsInv
<1>3. CountsInv /\ RepeatsBounded /\ AlertsBacked => AlertIsJustified
  BY BackedIsJustified DEF CountsInv
<1> QED BY <1>1, <1>2, <1>3, CountsInvariant, RepeatsAreBounded, PTL DEF Spec
=============================================================================
