-------------------------- MODULE Ingestion_proofs --------------------------
(***************************************************************************)
(* Proofs about the way of a log line into the topic: the tailer of C1     *)
(* (LogTailer) and the scope client it asks about every line (ScopeCache). *)
(* The tailer collects the log as a reader of whole lines sees it, for any *)
(* number of bytes, files, truncations and restarts.  No verdict of the    *)
(* scope client that is acted on is older than its TTL and what its clock  *)
(* was set back, for any clients, domains and TTLs.                        *)
(***************************************************************************)
EXTENDS LogTailer, ScopeCache, FiniteSetTheorems, SequenceTheorems, TLAPS

-----------------------------------------------------------------------------
(* The inductive invariant of the tailer.                                  *)

\* A file holds consecutive bytes from the beginning of a line on; those that Nginx has not
\* opened yet are empty, and the one that it has open ends where it is writing.  A file that
\* was renamed will be replaced.
FilesAreRuns ==
  /\ name \in {NoFile, files} /\ (name = NoFile => files < MaxFiles)
  /\ \A i \in 1..MaxFiles :
       /\ \A k \in DOMAIN content[i] :
            content[i][k] \in 1..written /\ content[i][k] = content[i][1] + (k - 1)
       /\ content[i] # <<>> => ~Newline(content[i][1])
       /\ i > fd => content[i] = <<>>
  /\ IF content[fd] = <<>> THEN ~Newline(written + 1) ELSE Last(content[fd]) = written

\* C1 reads on from here, unless it takes a truncated file for the old one.
Resume == IF Settled THEN state.offset ELSE 0

\* Only the first poll of an incarnation may begin at the end of the file; a file shorter
\* than what was read of it was truncated.
PollsInOrder ==
  /\ ~initialized => pc \in {"sync", "track"} /\ state = NotTracked /\ collected = <<>>
  /\ pc = "track" => state = NotTracked
  /\ state.inode = name /\ name # NoFile /\ ~Settled => cut

\* The buffer holds the half line before the offset, and nothing else.
BufferIsHalfLine ==
  /\ state.offset = 0 => state.buf = <<>>
  /\ \/ state.buf = <<>>
     \/ \E b \in Bytes : state.buf = <<b>> /\ ~Newline(b)
  /\ Settled /\ ~Misled /\ state.offset > 0 =>
       LET last == content[name][state.offset] IN
       \/ Newline(last) /\ state.buf = <<>>
       \/ ~Newline(last) /\ state.buf = <<last>>
       \/ ~Newline(last) /\ state.buf = <<>> /\ collected = <<>> /\ ~ReadExisting /\ last <= skipped

\* What was collected ends with newlines, and lies before all that C1 will read.
CollectedIsBehind ==
  \A i \in DOMAIN collected :
    /\ collected[i] # <<>> /\ Newline(Last(collected[i])) /\ Last(collected[i]) \in 1..written
    /\ name # NoFile /\ ~Misled =>
         \A k \in (Resume + 1)..Len(content[name]) : Last(collected[i]) < content[name][k]

TailerInv ==
  /\ TypeOK /\ FilesAreRuns /\ PollsInOrder /\ collected \in Seq(Seq(Bytes))
  /\ ~raced => BufferIsHalfLine /\ CollectedIsBehind
  /\ LinesAreTheLog

-----------------------------------------------------------------------------
(* Ranks in finite sets of numbers.                                        *)

\* How many numbers of S are no greater than k.
Rank(S, k) == Cardinality({j \in S : j <= k})

\* The ranks of a finite set of numbers: from 1 to their number, and in their order.
LEMMA RankFacts ==
  ASSUME NEW S, IsFiniteSet(S), S \subseteq Int, NEW k \in S
  PROVE  /\ Rank(S, k) \in 1..Cardinality(S)
         /\ \A j \in S : j < k => Rank(S, j) < Rank(S, k)
<1>1. \A j \in S : IsFiniteSet({i \in S : i <= j}) /\ Rank(S, j) \in 0..Cardinality(S)
  <2> TAKE j \in S
  <2>1. {i \in S : i <= j} \in SUBSET S
    OBVIOUS
  <2> QED BY <2>1, FS_Subset, FS_CardinalityType DEF Rank
<1>2. Rank(S, k) # 0
  <2>1. k \in {i \in S : i <= k}
    OBVIOUS
  <2> QED BY <1>1, <2>1, FS_EmptySet DEF Rank
<1>3. ASSUME NEW j \in S, j < k PROVE Rank(S, j) < Rank(S, k)
  <2>0. j \in Int /\ k \in Int /\ Cardinality(S) \in Nat
    BY FS_CardinalityType
  <2>1. {i \in S : i <= j} \in SUBSET {i \in S : i <= k}
    <3>1. ASSUME NEW i \in S, i <= j PROVE i <= k
      <4>1. i \in Int
        OBVIOUS
      <4> QED BY <1>3, <2>0, <3>1, <4>1
    <3> QED BY <3>1
  <2>2. {i \in S : i <= j} # {i \in S : i <= k}
    <3>1. k \in {i \in S : i <= k} /\ k \notin {i \in S : i <= j}
      BY <1>3, <2>0
    <3> QED BY <3>1
  <2>3. Rank(S, j) <= Rank(S, k) /\ Rank(S, j) # Rank(S, k)
    BY <1>1, <2>1, <2>2, FS_Subset DEF Rank
  <2>4. Rank(S, j) \in 0..Cardinality(S) /\ Rank(S, k) \in 0..Cardinality(S)
    BY <1>1
  <2>5. Rank(S, j) \in Int /\ Rank(S, k) \in Int
    BY <2>0, <2>4
  <2> QED BY <2>3, <2>5
<1>4. Cardinality(S) \in Nat
  BY FS_CardinalityType
<1>5. Rank(S, k) \in 0..Cardinality(S)
  BY <1>1
<1>6. Rank(S, k) \in 1..Cardinality(S)
  BY <1>2, <1>4, <1>5
<1> QED BY <1>3, <1>6

\* Rank and Nth are inverse to each other, and Nth keeps the order.
LEMMA NthFacts ==
  ASSUME NEW S, IsFiniteSet(S), S \subseteq Int
  PROVE  /\ \A k \in S : Rank(S, k) \in 1..Cardinality(S) /\ Nth(S, Rank(S, k)) = k
         /\ \A n \in 1..Cardinality(S) : Nth(S, n) \in S /\ Rank(S, Nth(S, n)) = n
         /\ \A m, n \in 1..Cardinality(S) : m < n => Nth(S, m) < Nth(S, n)
<1> DEFINE rank == [k \in S |-> Rank(S, k)]
<1>0. Cardinality(S) \in Nat
  BY FS_CardinalityType
<1>1. \A k \in S : Rank(S, k) \in 1..Cardinality(S)
  BY RankFacts
<1>2. \A j, k \in S : Rank(S, j) = Rank(S, k) => j = k
  <2> SUFFICES ASSUME NEW j \in S, NEW k \in S, j # k PROVE Rank(S, j) # Rank(S, k)
    OBVIOUS
  <2>1. j < k \/ k < j
    <3>1. j \in Int /\ k \in Int
      OBVIOUS
    <3> QED BY <3>1
  <2>2. Rank(S, j) \in Int /\ Rank(S, k) \in Int
    BY <1>0, <1>1
  <2>3. Rank(S, j) < Rank(S, k) \/ Rank(S, k) < Rank(S, j)
    BY <2>1, RankFacts
  <2> QED BY <2>2, <2>3
<1>3. \A n \in 1..Cardinality(S) : \E k \in S : Rank(S, k) = n
  <2>1. rank \in Injection(S, 1..Cardinality(S))
    BY <1>1, <1>2 DEF Injection, IsInjective
  <2>2. IsFiniteSet(1..Cardinality(S)) /\ Cardinality(1..Cardinality(S)) = Cardinality(S)
    BY <1>0, FS_Interval
  <2>3. rank \in Surjection(S, 1..Cardinality(S))
    BY <2>1, <2>2, FS_Injection
  <2> QED BY <2>3 DEF Surjection
<1>4. \A n \in 1..Cardinality(S) : Nth(S, n) \in S /\ Rank(S, Nth(S, n)) = n
  BY <1>3 DEF Nth, Rank
<1>5. \A k \in S : Nth(S, Rank(S, k)) = k
  BY <1>1, <1>2, <1>4
<1>6. \A m, n \in 1..Cardinality(S) : m < n => Nth(S, m) < Nth(S, n)
  <2> SUFFICES ASSUME NEW m \in 1..Cardinality(S), NEW n \in 1..Cardinality(S), m < n,
                      ~(Nth(S, m) < Nth(S, n))
               PROVE FALSE
    OBVIOUS
  <2>1. Nth(S, m) \in S /\ Nth(S, n) \in S /\ Rank(S, Nth(S, m)) = m /\ Rank(S, Nth(S, n)) = n
    BY <1>4
  <2>2. Nth(S, n) < Nth(S, m) \/ Nth(S, n) = Nth(S, m)
    <3>1. Nth(S, m) \in Int /\ Nth(S, n) \in Int
      BY <2>1
    <3> QED BY <3>1
  <2>3. Nth(S, n) < Nth(S, m) => n < m
    BY <2>1, RankFacts
  <2> QED BY <1>0, <2>1, <2>2, <2>3
<1> QED BY <1>1, <1>4, <1>5, <1>6

\* A type of a sequence, from its length and its elements.
LEMMA SeqByElements ==
  ASSUME NEW T, NEW n \in Nat, NEW s, s = [i \in 1..n |-> s[i]], \A i \in 1..n : s[i] \in T
  PROVE  s \in Seq(T) /\ Len(s) = n /\ DOMAIN s = 1..n
<1>1. s \in [1..n -> T]
  OBVIOUS
<1>2. s \in Seq(T) /\ Len(s) = n
  BY <1>1, IsASeq
<1> QED BY <1>1, <1>2

-----------------------------------------------------------------------------
(* Splitting into lines.                                                   *)

\* The ends of the lines lie in the data, and ascend.
LEMMA EndFacts ==
  ASSUME NEW data \in Seq(Bytes), NEW K, K = Cardinality(Ends(data))
  PROVE  /\ K \in Nat
         /\ \A n \in 0..K : End(data, n) \in 0..Len(data)
         /\ \A n \in 1..K : End(data, n - 1) < End(data, n)
<1>1. PICK m : m = Len(data)
  OBVIOUS
<1>2. m \in Nat /\ DOMAIN data = 1..m
  BY <1>1, LenProperties
<1>3. PICK S : S = Ends(data)
  OBVIOUS
<1>4. S \in SUBSET (1..m) /\ IsFiniteSet(1..m)
  BY <1>2, <1>3, FS_Interval DEF Ends
<1>5. IsFiniteSet(S) /\ S \subseteq Int /\ K \in Nat
  <2>1. IsFiniteSet(S) /\ S \subseteq Int
    <3>1. IsFiniteSet(S)
      BY <1>4, FS_Subset
    <3> QED BY <1>4, <3>1
  <2>2. Cardinality(S) \in Nat
    BY <2>1, FS_CardinalityType
  <2> QED BY <1>3, <2>1, <2>2
<1>6. /\ \A n \in 1..K : Nth(S, n) \in S
      /\ \A i, n \in 1..K : i < n => Nth(S, i) < Nth(S, n)
  BY <1>3, <1>5, NthFacts
<1>7. End(data, 0) = 0 /\ \A n \in 1..K : End(data, n) = Nth(S, n)
  BY <1>3 DEF End
<1>8. \A n \in 1..K : End(data, n) \in 1..m
  BY <1>4, <1>6, <1>7
<1>9. ASSUME NEW n \in 0..K PROVE End(data, n) \in 0..m
  <2>1. n = 0 \/ n \in 1..K
    BY <1>5
  <2> QED BY <1>2, <1>7, <1>8, <2>1
<1>10. ASSUME NEW n \in 1..K PROVE End(data, n - 1) < End(data, n)
  <2>1. n = 1 \/ (n - 1 \in 1..K /\ n - 1 < n)
    BY <1>5
  <2>2. CASE n = 1
    BY <1>2, <1>7, <1>8, <2>2
  <2>3. CASE n - 1 \in 1..K /\ n - 1 < n
    BY <1>6, <1>7, <2>3
  <2> QED BY <2>1, <2>2, <2>3
<1> QED BY <1>1, <1>5, <1>9, <1>10

\* Lines and the rest are pieces of the data.
LEMMA PiecesAreBytes ==
  ASSUME NEW data \in Seq(Bytes)
  PROVE  LinesOf(data) \in Seq(Seq(Bytes)) /\ Rest(data) \in Seq(Bytes)
<1>1. PICK K, m : K = Cardinality(Ends(data)) /\ m = Len(data)
  OBVIOUS
<1>2. /\ K \in Nat /\ m \in Nat
      /\ \A n \in 0..K : End(data, n) \in 0..m
      /\ \A n \in 1..K : End(data, n - 1) < End(data, n)
  BY <1>1, EndFacts, LenProperties
<1>3. ASSUME NEW a \in 0..m, NEW b \in a..m PROVE SubSeq(data, a + 1, b) \in Seq(Bytes)
  <2>1. a + 1 \in 1..(Len(data) + 1) /\ b \in ((a + 1) - 1)..Len(data)
    BY <1>1, <1>2
  <2> QED BY <2>1, SubSeqProperties
<1>4. ASSUME NEW n \in 1..K PROVE LinesOf(data)[n] \in Seq(Bytes)
  <2>1. PICK a, b : a = End(data, n - 1) /\ b = End(data, n)
    OBVIOUS
  <2>2. n - 1 \in 0..K /\ n \in 0..K
    BY <1>2
  <2>3. a \in 0..m /\ b \in 0..m /\ a < b
    BY <1>2, <2>1, <2>2
  <2>4. b \in a..m
    BY <1>2, <2>3
  <2>5. LinesOf(data)[n] = SubSeq(data, a + 1, b)
    BY <1>1, <2>1 DEF LinesOf
  <2> QED BY <1>3, <2>3, <2>4, <2>5
<1>5. LinesOf(data) = [n \in 1..K |-> LinesOf(data)[n]]
  BY <1>1 DEF LinesOf
<1>6. LinesOf(data) \in Seq(Seq(Bytes))
  BY <1>2, <1>4, <1>5, SeqByElements
<1>7. PICK a : a = End(data, K)
  OBVIOUS
<1>8. a \in 0..m /\ m \in a..m
  BY <1>2, <1>7
<1>9. Rest(data) = SubSeq(data, a + 1, m)
  BY <1>1, <1>7 DEF Rest
<1> QED BY <1>3, <1>6, <1>8, <1>9

-----------------------------------------------------------------------------
(* Splitting consecutive bytes.                                            *)

\* A run of m bytes from x on has K lines, the first of which ends at e.
Halves(e, K, m, x) ==
  /\ e = 1 \/ e = 2
  /\ e = 1 <=> Newline(x)
  /\ K \in Nat /\ (e + 2 * K - 2 = m - 1 \/ e + 2 * K - 2 = m)

\* Every other number from e to m.
LEMMA EveryOther ==
  ASSUME NEW m \in Nat, NEW x \in Nat, NEW e, NEW K, Halves(e, K, m, x),
         NEW S, \A i : i \in S <=> i \in 1..m /\ (i - e) % 2 = 0
  PROVE  /\ Cardinality(S) = K
         /\ \A n \in 1..K : Nth(S, n) = e + 2 * n - 2
<1>2. K \in Nat /\ e \in {1, 2} /\ e + 2 * K - 2 \in {m - 1, m}
  BY DEF Halves
<1> DEFINE place(n) == e + 2 * n - 2
           upTo(k) == {j \in S : j <= k}
<1>3. \A n \in 1..K : place(n) \in S
  <2> SUFFICES ASSUME NEW n \in 1..K PROVE place(n) \in S
    OBVIOUS
  <2>1. place(n) \in 1..m
    BY <1>2
  <2>2. place(n) - e = 2 * (n - 1)
    BY <1>2
  <2>3. (2 * (n - 1)) % 2 = 0
    BY <1>2
  <2> QED BY <2>1, <2>2, <2>3
<1>4. \A j \in S : \E n \in 1..K : j = place(n)
  <2> SUFFICES ASSUME NEW j \in S PROVE \E n \in 1..K : j = place(n)
    OBVIOUS
  <2>1. j \in 1..m /\ (j - e) % 2 = 0
    OBVIOUS
  <2>2. PICK n : n = (j - e) \div 2 + 1
    OBVIOUS
  <2>3. n \in Int /\ j = place(n)
    BY <1>2, <2>1, <2>2
  <2>4. n \in 1..K
    BY <1>2, <2>1, <2>3
  <2> QED BY <2>3, <2>4
<1>5. ASSUME NEW n \in 0..K PROVE Cardinality(upTo(place(n))) = n
  <2>1. PICK f : f = [i \in 1..n |-> place(i)]
    OBVIOUS
  <2>2. n \in Nat /\ \A i \in 1..n : i \in 1..K
    BY <1>2
  <2>3. \A i \in 1..n : place(i) \in upTo(place(n))
    BY <1>2, <1>3, <2>2
  <2>4. f \in [1..n -> upTo(place(n))]
    BY <2>1, <2>3
  <2>5. \A i, j \in 1..n : f[i] = f[j] => i = j
    BY <1>2, <2>1, <2>2
  <2>6. \A j \in upTo(place(n)) : \E i \in 1..n : f[i] = j
    <3> SUFFICES ASSUME NEW j \in upTo(place(n)) PROVE \E i \in 1..n : f[i] = j
      OBVIOUS
    <3>1. PICK i \in 1..K : j = place(i)
      BY <1>4
    <3>2. place(i) <= place(n)
      BY <3>1
    <3>3. i \in 1..n
      BY <1>2, <2>2, <3>2
    <3> QED BY <2>1, <3>1, <3>3
  <2>7. f \in Bijection(1..n, upTo(place(n)))
    <3>1. f \in Injection(1..n, upTo(place(n)))
      BY <2>4, <2>5 DEF Injection, IsInjective
    <3>2. f \in Surjection(1..n, upTo(place(n)))
      BY <2>4, <2>6 DEF Surjection
    <3> QED BY <3>1, <3>2 DEF Bijection
  <2>8. IsFiniteSet(1..n) /\ Cardinality(1..n) = n
    <3>1. n \in Int /\ 1 \in Int
      BY <2>2
    <3>2. IsFiniteSet(1..n) /\ Cardinality(1..n) = IF 1 > n THEN 0 ELSE n - 1 + 1
      BY <3>1, FS_Interval
    <3> QED BY <2>2, <3>2
  <2> HIDE DEF upTo, place
  <2>9. ExistsBijection(1..n, upTo(place(n)))
    BY <2>7 DEF ExistsBijection
  <2> QED BY <2>8, <2>9, FS_Bijection
<1>6. Cardinality(S) = K
  <2>1. upTo(place(K)) = S
    BY <1>2
  <2> QED BY <1>2, <1>5, <2>1
<1>7. ASSUME NEW n \in 1..K PROVE Nth(S, n) = place(n)
  <2>1. place(n) \in S /\ Cardinality(upTo(place(n))) = n
    BY <1>2, <1>3, <1>5
  <2>2. ASSUME NEW k \in S, Cardinality(upTo(k)) = n PROVE k = place(n)
    <3>1. PICK i \in 1..K : k = place(i)
      BY <1>4
    <3>2. Cardinality(upTo(place(i))) = i
      BY <1>2, <1>5
    <3> QED BY <2>2, <3>1, <3>2
  <2>3. Nth(S, n) = CHOOSE k \in S : Cardinality(upTo(k)) = n
    BY DEF Nth
  <2> HIDE DEF upTo, place
  <2> QED BY <2>1, <2>2, <2>3
<1> QED BY <1>6, <1>7

\* Consecutive bytes: m bytes that begin with x.
Run(data, m, x) == data \in Seq(Bytes) /\ Len(data) = m /\ \A k \in 1..m : data[k] = x + (k - 1)

\* Their lines end at e, e + 2, and so on, where e is 1 if the run begins with a newline;
\* after the last of them there is at most the text of a line.
LEMMA RunLines ==
  ASSUME NEW m \in Nat, NEW x \in Nat, NEW data, Run(data, m, x),
         NEW e, NEW K, Halves(e, K, m, x)
  PROVE  /\ LinesOf(data) \in Seq(Seq(Bytes)) /\ Len(LinesOf(data)) = K
         /\ \A n \in 1..K : LinesOf(data)[n] = SubSeq(data, IF n = 1 THEN 1 ELSE e + 2 * n - 3, e + 2 * n - 2)
         /\ Rest(data) = SubSeq(data, IF K = 0 THEN 1 ELSE e + 2 * K - 1, m)
<1>1. data \in Seq(Bytes) /\ Len(data) = m /\ DOMAIN data = 1..m /\ e \in {1, 2}
  BY LenProperties DEF Run, Halves
<1>0. /\ e = 1 \/ e = 2
      /\ e = 1 <=> Newline(x)
      /\ K \in Nat /\ (e + 2 * K - 2 = m - 1 \/ e + 2 * K - 2 = m)
  BY DEF Halves
<1>2. PICK S : S = Ends(data)
  OBVIOUS
<1>3. \A i : i \in S <=> i \in 1..m /\ (i - e) % 2 = 0
  <2>1. ASSUME NEW i \in 1..m PROVE Newline(data[i]) <=> (i - e) % 2 = 0
    <3>1. data[i] = x + (i - 1)
      BY DEF Run
    <3>2. CASE x % 2 = 0
      <4>1. e = 1
        BY <1>0, <3>2 DEF Newline
      <4> QED BY <3>1, <3>2, <4>1 DEF Newline
    <3>3. CASE x % 2 # 0
      <4>1. e = 2
        BY <1>0, <3>3 DEF Newline
      <4>2. x % 2 = 1
        BY <3>3
      <4> QED BY <3>1, <4>1, <4>2 DEF Newline
    <3> QED BY <3>2, <3>3
  <2> QED BY <1>1, <1>2, <2>1 DEF Ends
<1>4. Cardinality(S) = K /\ \A n \in 1..K : Nth(S, n) = e + 2 * n - 2
  BY <1>3, EveryOther
<1>5. LinesOf(data) \in Seq(Seq(Bytes)) /\ Len(LinesOf(data)) = K
  <2>1. LinesOf(data) \in Seq(Seq(Bytes))
    BY <1>1, PiecesAreBytes
  <2>2. DOMAIN LinesOf(data) = 1..K
    BY <1>2, <1>4 DEF LinesOf
  <2> QED BY <1>0, <2>1, <2>2, LenProperties
<1>6. End(data, 0) = 0 /\ \A n \in 1..K : End(data, n) = e + 2 * n - 2
  BY <1>2, <1>4 DEF End
<1>7. ASSUME NEW n \in 1..K
      PROVE  LinesOf(data)[n] = SubSeq(data, IF n = 1 THEN 1 ELSE e + 2 * n - 3, e + 2 * n - 2)
  <2>1. LinesOf(data)[n] = SubSeq(data, End(data, n - 1) + 1, End(data, n))
    BY <1>2, <1>4 DEF LinesOf
  <2>2. End(data, n - 1) + 1 = IF n = 1 THEN 1 ELSE e + 2 * n - 3
    <3>1. n = 1 \/ n - 1 \in 1..K
      BY <1>0
    <3>2. CASE n = 1
      BY <1>6, <3>2
    <3>3. CASE n # 1
      BY <1>0, <1>1, <1>6, <3>1, <3>3
    <3> QED BY <3>2, <3>3
  <2> QED BY <1>6, <2>1, <2>2
<1>8. Rest(data) = SubSeq(data, IF K = 0 THEN 1 ELSE e + 2 * K - 1, m)
  <2>1. Rest(data) = SubSeq(data, End(data, K) + 1, m)
    BY <1>1, <1>2, <1>4 DEF Rest
  <2>2. End(data, K) + 1 = IF K = 0 THEN 1 ELSE e + 2 * K - 1
    BY <1>0, <1>1, <1>6
  <2> QED BY <2>1, <2>2
<1> QED BY <1>5, <1>7, <1>8

\* The lines of a run have one byte or two, its rest none or one.
LineOfRun(n, x, e) == IF n = 1 /\ e = 1 THEN <<x>> ELSE <<x + (e + 2 * n - 4), x + (e + 2 * n - 3)>>
LastOfLine(n, x, e) == x + (e + 2 * n - 3)
RestOfRun(m, x, e, K) == IF e + 2 * K - 2 = m \/ m = 0 THEN <<>> ELSE <<x + (m - 1)>>

\* The lines of a run of lines, and what is left after the last whole one.
LEMMA RunIsSplit ==
  ASSUME NEW m \in Nat, NEW x \in Nat, NEW data, Run(data, m, x),
         NEW e, NEW K, Halves(e, K, m, x)
  PROVE  /\ LinesOf(data) \in Seq(Seq(Bytes)) /\ Len(LinesOf(data)) = K
         /\ \A n \in 1..K : LinesOf(data)[n] = LineOfRun(n, x, e)
         /\ Rest(data) = RestOfRun(m, x, e, K)
<1>2. K \in Nat /\ e \in {1, 2} /\ e + 2 * K - 2 \in {m - 1, m}
  BY DEF Halves
<1>3. /\ LinesOf(data) \in Seq(Seq(Bytes)) /\ Len(LinesOf(data)) = K
      /\ \A n \in 1..K : LinesOf(data)[n] = SubSeq(data, IF n = 1 THEN 1 ELSE e + 2 * n - 3, e + 2 * n - 2)
      /\ Rest(data) = SubSeq(data, IF K = 0 THEN 1 ELSE e + 2 * K - 1, m)
  BY RunLines
<1>4. data \in Seq(Bytes) /\ Len(data) = m /\ \A k \in 1..m : data[k] \in Bytes /\ data[k] = x + (k - 1)
  BY ElementOfSeq DEF Run
<1>5. ASSUME NEW a \in 1..m PROVE SubSeq(data, a, a) = <<x + (a - 1)>>
  <2>1. PICK s : s = SubSeq(data, a, a)
    OBVIOUS
  <2>2. a \in Int /\ \A i \in a..a : data[i] \in Bytes
    BY <1>4
  <2>3. s \in Seq(Bytes) /\ Len(s) = 1 /\ \A i \in 1..1 : s[i] = data[a + i - 1]
    BY <2>1, <2>2, SubSeqProperties
  <2>4. s[1] = x + (a - 1)
    BY <1>4, <2>3
  <2>5. s = <<s[1]>>
    BY <2>3, LenProperties
  <2> QED BY <2>1, <2>4, <2>5
<1>6. ASSUME NEW a \in 1..m, a + 1 \in 1..m PROVE SubSeq(data, a, a + 1) = <<x + (a - 1), x + a>>
  <2>1. PICK s, b : s = SubSeq(data, a, b) /\ b = a + 1
    OBVIOUS
  <2>2. a \in Int /\ b \in Int /\ \A i \in a..b : data[i] \in Bytes
    BY <1>4, <1>6, <2>1
  <2>3. s \in Seq(Bytes) /\ Len(s) = 2 /\ \A i \in 1..2 : s[i] = data[a + i - 1]
    BY <2>1, <2>2, SubSeqProperties
  <2>4. s[1] = x + (a - 1) /\ s[2] = x + a
    BY <1>4, <1>6, <2>3
  <2>5. s = <<s[1], s[2]>>
    BY <2>3, LenProperties
  <2> QED BY <2>1, <2>4, <2>5
<1>7. ASSUME NEW n \in 1..K
      PROVE  LinesOf(data)[n] = LineOfRun(n, x, e)
  <2>1. CASE n = 1 /\ e = 1
    <3>1. LinesOf(data)[n] = SubSeq(data, 1, 1)
      <4>1. LinesOf(data)[n] = SubSeq(data, IF n = 1 THEN 1 ELSE e + 2 * n - 3, e + 2 * n - 2)
        BY <1>3
      <4>2. e + 2 * n - 2 = 1
        BY <2>1
      <4> QED BY <2>1, <4>1, <4>2
    <3>2. 1 \in 1..m /\ x + (1 - 1) = x
      BY <1>2, <2>1
    <3> QED BY <1>5, <2>1, <3>1, <3>2 DEF LineOfRun
  <2>2. CASE ~(n = 1 /\ e = 1)
    <3>1. PICK a : a = e + 2 * n - 3
      OBVIOUS
    <3>2. LinesOf(data)[n] = SubSeq(data, IF n = 1 THEN 1 ELSE a, e + 2 * n - 2)
      BY <1>3, <3>1
    <3>3. a \in 1..m /\ a + 1 \in 1..m /\ e + 2 * n - 2 = a + 1 /\ (n = 1 => a = 1)
      BY <1>2, <1>3, <2>2, <3>1
    <3>4. SubSeq(data, a, a + 1) = <<x + (a - 1), x + a>>
      BY <1>6, <3>3
    <3>5. a - 1 = e + 2 * n - 4
      BY <1>2, <3>1
    <3>6. LinesOf(data)[n] = SubSeq(data, a, a + 1)
      BY <3>2, <3>3
    <3> QED BY <2>2, <3>1, <3>4, <3>5, <3>6 DEF LineOfRun
  <2> QED BY <2>1, <2>2
<1>8. Rest(data) = RestOfRun(m, x, e, K)
  <2>1. PICK a : a = IF K = 0 THEN 1 ELSE e + 2 * K - 1
    OBVIOUS
  <2>2. Rest(data) = SubSeq(data, a, m)
    BY <1>3, <2>1
  <2>3. CASE e + 2 * K - 2 = m \/ m = 0
    <3>1. a \in Int /\ m \in Int /\ m < a
      BY <1>2, <1>3, <2>1, <2>3
    <3>2. SubSeq(data, a, m) = <<>>
      BY <3>1, SubSeqEmpty
    <3> QED BY <2>2, <2>3, <3>2 DEF RestOfRun
  <2>4. CASE ~(e + 2 * K - 2 = m \/ m = 0)
    <3>1. a = m /\ m \in 1..m
      BY <1>2, <1>3, <2>1, <2>4
    <3>2. SubSeq(data, m, m) = <<x + (m - 1)>>
      BY <1>5, <3>1
    <3> QED BY <2>2, <2>4, <3>1, <3>2 DEF RestOfRun
  <2> QED BY <2>3, <2>4
<1> QED BY <1>3, <1>7, <1>8

-----------------------------------------------------------------------------
(* Nginx and the rotation.                                                 *)

\* What the actions of the environment must show of C1.
ReaderInv ==
  /\ PollsInOrder /\ collected \in Seq(Seq(Bytes))
  /\ ~raced => BufferIsHalfLine /\ CollectedIsBehind
  /\ LinesAreTheLog

\* An action after which there is no access.log, or an empty one.
LEMMA NothingToRead ==
  ASSUME TailerInv, UNCHANGED <<tailerVars, written>>,
         name' = NoFile \/ content'[name'] = <<>>,
         name' = NoFile \/ state.inode # name' \/ Settled' \/ cut'
  PROVE  ReaderInv'
<1> USE DEF tailerVars, topicVars
<1>1. state \in [inode : -1..files, offset : Nat, buf : Seq(Bytes)] /\ written \in Nat
  BY TailerAssumption DEF TailerInv, TypeOK
<1>2. name' # NoFile => Len(content'[name']) = 0
  <2>1. Len(<<>>) = 0
    OBVIOUS
  <2> QED BY <2>1
<1>3. Settled' => state'.offset = 0
  BY <1>1, <1>2 DEF Settled
<1>4. PollsInOrder'
  BY DEF TailerInv, PollsInOrder
<1>5. collected' \in Seq(Seq(Bytes))
  BY DEF TailerInv
<1>6. ~raced' => BufferIsHalfLine'
  <2> SUFFICES ASSUME ~raced PROVE BufferIsHalfLine'
    OBVIOUS
  <2>1. /\ state.offset = 0 => state.buf = <<>>
        /\ state.buf = <<>> \/ \E b \in Bytes : state.buf = <<b>> /\ ~Newline(b)
    BY DEF TailerInv, BufferIsHalfLine
  <2> QED BY <1>1, <1>3, <2>1 DEF BufferIsHalfLine
<1>7. ~raced' => CollectedIsBehind'
  <2> SUFFICES ASSUME ~raced, NEW i \in DOMAIN collected
               PROVE  /\ collected[i] # <<>> /\ Newline(Last(collected[i])) /\ Last(collected[i]) \in 1..written
                      /\ name' # NoFile =>
                           \A k \in (Resume' + 1)..Len(content'[name']) : Last(collected[i]) < content'[name'][k]
    BY DEF CollectedIsBehind
  <2>1. collected[i] # <<>> /\ Newline(Last(collected[i])) /\ Last(collected[i]) \in 1..written
    BY DEF TailerInv, CollectedIsBehind
  <2>2. Resume' = 0
    BY <1>3 DEF Resume
  <2> QED BY <1>2, <2>1, <2>2
<1>8. LinesAreWhole' /\ CollectedInOrder'
  BY DEF TailerInv, LinesAreTheLog, LinesAreWhole, CollectedInOrder
<1>9. NonePassedOver'
  BY <1>1, <1>3 DEF NonePassedOver
<1> QED BY <1>4, <1>5, <1>6, <1>7, <1>8, <1>9 DEF ReaderInv, LinesAreTheLog

\* The next byte goes to the end of the open file.
LEMMA WriteKeepsFiles ==
  ASSUME TailerInv, Write
  PROVE  /\ FilesAreRuns' /\ content' \in [1..MaxFiles -> Seq(Bytes)]
         /\ \A i \in 1..MaxFiles :
              /\ Len(content'[i]) >= Len(content[i])
              /\ \A k \in 1..Len(content[i]) : content'[i][k] = content[i][k]
              /\ \A k \in (Len(content[i]) + 1)..Len(content'[i]) : content'[i][k] = written + 1
<1>1. /\ content \in [1..MaxFiles -> Seq(Bytes)] /\ fd \in 1..MaxFiles
      /\ written \in Nat /\ written + 1 \in Bytes
  BY TailerAssumption DEF TailerInv, TypeOK, Write, Bytes
<1>2. PICK s, t, m : s = content[fd] /\ t = content'[fd] /\ m = Len(s)
  OBVIOUS
<1>3. content' = [content EXCEPT ![fd] = t] /\ t = Append(s, written + 1)
  BY <1>1, <1>2 DEF Write
<1>4. s \in Seq(Bytes) /\ m \in Nat
  BY <1>1, <1>2, LenProperties
<1>5. /\ t \in Seq(Bytes) /\ Len(t) = m + 1 /\ t # <<>> /\ t[m + 1] = written + 1
      /\ \A k \in 1..m : t[k] = s[k]
  BY <1>1, <1>2, <1>3, <1>4, AppendProperties
<1>6. DOMAIN s = 1..m /\ DOMAIN t = 1..(m + 1)
  BY <1>2, <1>4, <1>5, LenProperties
<1>7. content' \in [1..MaxFiles -> Seq(Bytes)] /\ \A i \in 1..MaxFiles : i # fd => content'[i] = content[i]
  BY <1>1, <1>3, <1>5
<1>8. UNCHANGED <<files, name, fd>> /\ written' = written + 1
  BY DEF Write
<1>9. /\ \A k \in 1..m : s[k] \in 1..written /\ s[k] = s[1] + (k - 1)
      /\ s # <<>> => ~Newline(s[1])
      /\ IF s = <<>> THEN ~Newline(written + 1) ELSE s[m] = written
  BY <1>1, <1>2, <1>6 DEF TailerInv, FilesAreRuns, Last
<1>10. s = <<>> <=> m = 0
  BY <1>2, <1>4, EmptySeq
<1>11. m # 0 => t[1] = s[1] /\ s[1] \in Int /\ written = s[1] + (m - 1)
  BY <1>4, <1>5, <1>9, <1>10
<1>12. ASSUME NEW k \in 1..(m + 1) PROVE t[k] \in 1..written' /\ t[k] = t[1] + (k - 1)
  <2>1. CASE k = m + 1
    <3>1. t[k] = written + 1
      BY <1>5, <2>1
    <3>2. CASE m = 0
      BY <1>1, <1>8, <2>1, <3>1, <3>2
    <3>3. CASE m # 0
      BY <1>1, <1>4, <1>8, <1>11, <2>1, <3>1, <3>3
    <3> QED BY <3>2, <3>3
  <2>2. CASE k \in 1..m
    <3>1. t[k] = s[k] /\ s[k] \in 1..written /\ s[k] = s[1] + (k - 1)
      BY <1>5, <1>9, <2>2
    <3>2. t[1] = s[1]
      BY <1>4, <1>11, <2>2
    <3>3. \A b \in 1..written : b \in 1..written'
      BY <1>1, <1>8
    <3> QED BY <3>1, <3>2, <3>3
  <2> QED BY <1>4, <2>1, <2>2
<1>13. ~Newline(t[1])
  <2>1. CASE m = 0
    BY <1>5, <1>9, <1>10, <2>1
  <2>2. CASE m # 0
    BY <1>9, <1>10, <1>11, <2>2
  <2> QED BY <2>1, <2>2
<1>14. FilesAreRuns'
  <2>1. name' \in {NoFile, files'} /\ (name' = NoFile => files' < MaxFiles)
    BY <1>8 DEF TailerInv, FilesAreRuns
  <2>2. ASSUME NEW i \in 1..MaxFiles
        PROVE  /\ \A k \in DOMAIN content'[i] :
                    content'[i][k] \in 1..written' /\ content'[i][k] = content'[i][1] + (k - 1)
               /\ content'[i] # <<>> => ~Newline(content'[i][1])
               /\ i > fd' => content'[i] = <<>>
    <3>1. CASE i = fd
      BY <1>1, <1>2, <1>6, <1>8, <1>12, <1>13, <3>1
    <3>2. CASE i # fd
      <4>1. /\ \A k \in DOMAIN content[i] :
                  content[i][k] \in 1..written /\ content[i][k] = content[i][1] + (k - 1)
            /\ content[i] # <<>> => ~Newline(content[i][1])
            /\ i > fd => content[i] = <<>>
        BY DEF TailerInv, FilesAreRuns
      <4>2. content'[i] = content[i] /\ \A b \in 1..written : b \in 1..written'
        BY <1>1, <1>7, <1>8, <3>2
      <4> QED BY <1>8, <4>1, <4>2
    <3> QED BY <3>1, <3>2
  <2>3. content'[fd'] # <<>> /\ Last(content'[fd']) = written'
    BY <1>2, <1>5, <1>8 DEF Last
  <2> QED BY <2>1, <2>2, <2>3 DEF FilesAreRuns
<1>15. ASSUME NEW i \in 1..MaxFiles
       PROVE  /\ Len(content'[i]) >= Len(content[i])
              /\ \A k \in 1..Len(content[i]) : content'[i][k] = content[i][k]
              /\ \A k \in (Len(content[i]) + 1)..Len(content'[i]) : content'[i][k] = written + 1
  <2>1. CASE i = fd
    BY <1>2, <1>4, <1>5, <2>1
  <2>2. CASE i # fd
    <3>1. content'[i] = content[i] /\ Len(content[i]) \in Nat
      BY <1>1, <1>7, <2>2, LenProperties
    <3> QED BY <3>1
  <2> QED BY <2>1, <2>2
<1> QED BY <1>7, <1>14, <1>15

\* What is written lies behind all that C1 read.
LEMMA WriteStep ==
  ASSUME TailerInv, Write
  PROVE  TailerInv'
<1>1. /\ state \in [inode : -1..files, offset : Nat, buf : Seq(Bytes)]
      /\ content \in [1..MaxFiles -> Seq(Bytes)] /\ name \in 0..files /\ files \in 1..MaxFiles
      /\ written \in Nat /\ MaxFiles \in Nat
  BY TailerAssumption DEF TailerInv, TypeOK
<1>2. /\ FilesAreRuns' /\ content' \in [1..MaxFiles -> Seq(Bytes)]
      /\ \A i \in 1..MaxFiles :
           /\ Len(content'[i]) >= Len(content[i])
           /\ \A k \in 1..Len(content[i]) : content'[i][k] = content[i][k]
           /\ \A k \in (Len(content[i]) + 1)..Len(content'[i]) : content'[i][k] = written + 1
  BY WriteKeepsFiles
<1>3. UNCHANGED <<files, name, fd, cuts, cut, tailerVars>> /\ written' = written + 1 /\ written < MaxBytes
  BY DEF Write
<1> USE DEF tailerVars, topicVars
<1>4. TypeOK'
  BY <1>1, <1>2, <1>3, TailerAssumption DEF TailerInv, TypeOK
<1>5. /\ name = NoFile \/ name \in 1..MaxFiles
      /\ name # NoFile =>
           /\ Len(content[name]) \in Nat /\ Len(content'[name]) \in Nat
           /\ Len(content'[name]) >= Len(content[name])
           /\ \A k \in 1..Len(content[name]) : content'[name][k] = content[name][k]
           /\ \A k \in (Len(content[name]) + 1)..Len(content'[name]) : content'[name][k] = written + 1
  <2>1. name = NoFile \/ name \in 1..MaxFiles
    BY <1>1 DEF NoFile
  <2> QED BY <1>1, <1>2, <2>1, LenProperties
\* A file as long again as what was read of the one truncated is taken for that one.
<1>6. /\ Settled => Settled'
      /\ ~Misled' => ~Misled /\ (Settled' => Settled) /\ Resume' = Resume
  <2>1. Settled => Settled'
    BY <1>1, <1>3, <1>5 DEF Settled
  <2>2. Settled' /\ ~Settled => Misled'
    <3> SUFFICES ASSUME Settled', ~Settled PROVE Misled'
      OBVIOUS
    <3>1. state.inode = name /\ name # NoFile /\ ~(state.offset <= Len(content[name]))
      BY <1>3 DEF Settled
    <3>2. cut /\ state.offset > 0
      BY <1>1, <1>5, <3>1 DEF TailerInv, PollsInOrder
    <3> QED BY <1>3, <3>2 DEF Misled
  <2>3. Misled => Misled'
    BY <1>3, <2>1 DEF Misled
  <2>4. Settled' = Settled => Resume' = Resume
    BY <1>3 DEF Resume
  <2> QED BY <2>1, <2>2, <2>3, <2>4 DEF Settled
<1>7. PollsInOrder'
  <2>1. state'.inode = name' /\ name' # NoFile /\ ~Settled' => cut'
    BY <1>3, <1>6 DEF TailerInv, PollsInOrder
  <2> QED BY <1>3, <2>1 DEF TailerInv, PollsInOrder
<1>8. ~raced' => BufferIsHalfLine'
  <2> SUFFICES ASSUME ~raced PROVE BufferIsHalfLine'
    BY <1>3
  <2>1. BufferIsHalfLine
    BY DEF TailerInv
  <2>2. Settled' /\ ~Misled' /\ state.offset > 0 => content'[name][state.offset] = content[name][state.offset]
    BY <1>1, <1>5, <1>6 DEF Settled
  <2> QED BY <1>3, <1>6, <2>1, <2>2 DEF BufferIsHalfLine
<1>9. ~raced' => CollectedIsBehind'
  <2> SUFFICES ASSUME ~raced, NEW i \in DOMAIN collected
               PROVE  /\ collected[i] # <<>> /\ Newline(Last(collected[i])) /\ Last(collected[i]) \in 1..written'
                      /\ name' # NoFile /\ ~Misled' =>
                           \A k \in (Resume' + 1)..Len(content'[name']) : Last(collected[i]) < content'[name'][k]
    BY <1>3 DEF CollectedIsBehind
  <2>1. /\ collected[i] # <<>> /\ Newline(Last(collected[i])) /\ Last(collected[i]) \in 1..written
        /\ name # NoFile /\ ~Misled =>
             \A k \in (Resume + 1)..Len(content[name]) : Last(collected[i]) < content[name][k]
    BY DEF TailerInv, CollectedIsBehind
  <2>2. ASSUME name # NoFile, ~Misled', NEW k \in (Resume + 1)..Len(content'[name])
        PROVE  Last(collected[i]) < content'[name][k]
    <3>1. Resume \in Nat
      BY <1>1 DEF Resume
    <3>2. CASE k <= Len(content[name])
      BY <1>5, <1>6, <2>1, <2>2, <3>1, <3>2
    <3>3. CASE ~(k <= Len(content[name]))
      <4>1. content'[name][k] = written + 1
        BY <1>5, <2>2, <3>1, <3>3
      <4> QED BY <1>1, <2>1, <4>1
    <3> QED BY <3>2, <3>3
  <2>3. Last(collected[i]) \in 1..written'
    BY <1>1, <1>3, <2>1
  <2> QED BY <1>3, <1>6, <2>1, <2>2, <2>3
<1>10. LinesAreTheLog'
  <2>1. LinesAreWhole' /\ CollectedInOrder'
    BY <1>3 DEF TailerInv, LinesAreTheLog, LinesAreWhole, CollectedInOrder
  <2>2. NonePassedOver'
    <3> SUFFICES ASSUME ~raced, Settled', ~Misled', NEW n \in Lines, NEW k \in 1..state.offset,
                        content'[name][k] = 2 * n
                 PROVE  WholeLine(n) \in stored \cup lost \cup Range(batch) \/ Skipped(n)
      BY <1>3 DEF NonePassedOver, Skipped
    <3>1. k \in 1..Len(content[name])
      BY <1>1, <1>5, <1>6 DEF Settled
    <3>2. content[name][k] = 2 * n
      BY <1>5, <1>6, <3>1 DEF Settled
    <3> QED BY <1>6, <3>2 DEF TailerInv, LinesAreTheLog, NonePassedOver
  <2> QED BY <2>1, <2>2 DEF LinesAreTheLog
<1>11. collected' \in Seq(Seq(Bytes))
  BY <1>3 DEF TailerInv
<1> QED BY <1>2, <1>4, <1>7, <1>8, <1>9, <1>10, <1>11 DEF TailerInv

\* There is no access.log until it is created.
LEMMA RenameStep ==
  ASSUME TailerInv, Rename
  PROVE  TailerInv'
<1>1. name' = NoFile /\ files < MaxFiles /\ UNCHANGED <<content, files, fd, written, cuts, cut, tailerVars>>
  BY DEF Rename
<1>2. ReaderInv'
  BY <1>1, NothingToRead
<1>3. TypeOK'
  BY <1>1, TailerAssumption DEF TailerInv, TypeOK, NoFile, tailerVars, topicVars
<1>4. FilesAreRuns'
  BY <1>1 DEF TailerInv, FilesAreRuns
<1> QED BY <1>2, <1>3, <1>4 DEF TailerInv, ReaderInv

\* A file that is created is empty, and C1 did not follow it.
LEMMA NewFileIsEmpty ==
  ASSUME TailerInv, name = NoFile
  PROVE  /\ files + 1 \in 1..MaxFiles /\ files + 1 > fd /\ content[files + 1] = <<>>
         /\ files + 1 # NoFile /\ state.inode # files + 1
<1>1. /\ state \in [inode : -1..files, offset : Nat, buf : Seq(Bytes)]
      /\ files \in 1..MaxFiles /\ fd \in 1..files /\ MaxFiles \in Nat
  BY TailerAssumption DEF TailerInv, TypeOK
<1>2. files < MaxFiles
  BY DEF TailerInv, FilesAreRuns
<1>3. files + 1 \in 1..MaxFiles /\ files + 1 > fd
  BY <1>1, <1>2
<1>4. content[files + 1] = <<>>
  BY <1>3 DEF TailerInv, FilesAreRuns
<1> QED BY <1>1, <1>3, <1>4 DEF NoFile

\* A log file created empty keeps the invariant.
LEMMA CreateStep ==
  ASSUME TailerInv, Create
  PROVE  TailerInv'
<1>1. /\ name = NoFile /\ files' = files + 1 /\ name' = files + 1
      /\ UNCHANGED <<content, fd, written, cuts, cut, tailerVars>>
  BY DEF Create
<1>2. /\ files + 1 \in 1..MaxFiles /\ files + 1 > fd /\ content[files + 1] = <<>>
      /\ files + 1 # NoFile /\ state.inode # files + 1
  BY <1>1, NewFileIsEmpty
<1>3. ReaderInv'
  BY <1>1, <1>2, NothingToRead DEF tailerVars
<1>4. TypeOK'
  BY <1>1, <1>2, TailerAssumption DEF TailerInv, TypeOK, tailerVars, topicVars
<1>5. FilesAreRuns'
  BY <1>1, <1>2 DEF TailerInv, FilesAreRuns
<1> QED BY <1>3, <1>4, <1>5 DEF TailerInv, ReaderInv

\* Nginx opens a file that is empty, whether it finds it or creates it.
LEMMA ReopenStep ==
  ASSUME TailerInv, Reopen
  PROVE  TailerInv'
<1>1. /\ fd # name /\ ~Newline(written + 1) /\ fd' = name'
      /\ UNCHANGED <<content, written, cuts, cut, tailerVars>>
  BY DEF Reopen
<1>2. /\ state \in [inode : -1..files, offset : Nat, buf : Seq(Bytes)]
      /\ files \in 1..MaxFiles /\ fd \in 1..files /\ name \in 0..files /\ MaxFiles \in Nat
  BY TailerAssumption DEF TailerInv, TypeOK
<1>3. /\ name' = files' /\ files' \in 1..MaxFiles /\ files' >= files /\ files' >= fd
      /\ content[name'] = <<>> /\ name' # NoFile
      /\ name' = name \/ state.inode # name'
  <2>1. CASE name = NoFile
    <3>1. files' = files + 1 /\ name' = files + 1
      BY <2>1 DEF Reopen
    <3> QED BY <1>2, <2>1, <3>1, NewFileIsEmpty
  <2>2. CASE name # NoFile
    <3>1. files' = files /\ name' = name /\ name = files
      BY <2>2 DEF Reopen, TailerInv, FilesAreRuns
    <3>2. name \in 1..MaxFiles /\ name > fd
      BY <1>1, <1>2, <3>1
    <3>3. content[name] = <<>>
      BY <3>2 DEF TailerInv, FilesAreRuns
    <3> QED BY <1>2, <2>2, <3>1, <3>2, <3>3
  <2> QED BY <2>1, <2>2
<1>4. name' = NoFile \/ state.inode # name' \/ Settled' \/ cut'
  <2> SUFFICES ASSUME state.inode = name', name' = name, name # NoFile PROVE Settled' \/ cut'
    BY <1>3
  <2>1. Settled \/ cut
    BY DEF TailerInv, PollsInOrder
  <2>2. UNCHANGED <<state, content, name, cut>>
    BY <1>1 DEF tailerVars
  <2> QED BY <2>1, <2>2 DEF Settled
<1>5. ReaderInv'
  BY <1>1, <1>3, <1>4, NothingToRead DEF tailerVars
<1>6. TypeOK'
  <2>1. files' \in 1..MaxFiles /\ name' \in 0..files' /\ fd' \in 1..files'
    BY <1>1, <1>2, <1>3
  <2>2. state' \in [inode : -1..files', offset : Nat, buf : Seq(Bytes)]
    BY <1>1, <1>2, <1>3 DEF tailerVars
  <2> QED BY <1>1, <2>1, <2>2 DEF TailerInv, TypeOK, tailerVars, topicVars
<1>7. FilesAreRuns'
  BY <1>1, <1>2, <1>3 DEF TailerInv, FilesAreRuns
<1> QED BY <1>5, <1>6, <1>7 DEF TailerInv, ReaderInv

\* The file is empty, and C1 may take it for the old one when it has grown again.
LEMMA TruncateStep ==
  ASSUME TailerInv, Truncate
  PROVE  TailerInv'
<1>1. /\ name # NoFile /\ cuts < MaxCuts /\ ~Newline(written + 1) /\ cuts' = cuts + 1 /\ cut' = TRUE
      /\ content' = [content EXCEPT ![name] = <<>>]
      /\ UNCHANGED <<files, name, fd, written, tailerVars>>
  BY DEF Truncate
<1>2. /\ content \in [1..MaxFiles -> Seq(Bytes)] /\ files \in 1..MaxFiles /\ fd \in 1..files
      /\ name \in 1..MaxFiles /\ fd \in 1..MaxFiles /\ cuts \in 0..MaxCuts /\ MaxCuts \in Nat /\ MaxFiles \in Nat
  <2>1. /\ content \in [1..MaxFiles -> Seq(Bytes)] /\ files \in 1..MaxFiles /\ fd \in 1..files
        /\ name \in 0..files /\ cuts \in 0..MaxCuts /\ MaxCuts \in Nat /\ MaxFiles \in Nat
    BY TailerAssumption DEF TailerInv, TypeOK
  <2> QED BY <1>1, <2>1 DEF NoFile
<1>3. /\ content' \in [1..MaxFiles -> Seq(Bytes)] /\ content'[name] = <<>>
      /\ \A i \in 1..MaxFiles : i # name => content'[i] = content[i]
  BY <1>1, <1>2
<1>4. ReaderInv'
  BY <1>1, <1>3, NothingToRead
<1>5. TypeOK'
  BY <1>1, <1>2, <1>3, TailerAssumption DEF TailerInv, TypeOK, tailerVars, topicVars
<1>6. FilesAreRuns'
  <2>1. ASSUME NEW i \in 1..MaxFiles
        PROVE  /\ \A k \in DOMAIN content'[i] :
                    content'[i][k] \in 1..written' /\ content'[i][k] = content'[i][1] + (k - 1)
               /\ content'[i] # <<>> => ~Newline(content'[i][1])
               /\ i > fd' => content'[i] = <<>>
    <3>1. DOMAIN <<>> = {}
      BY EmptySeq
    <3>2. CASE i = name
      BY <1>3, <3>1, <3>2
    <3>3. CASE i # name
      BY <1>1, <1>3, <3>3 DEF TailerInv, FilesAreRuns
    <3> QED BY <3>2, <3>3
  <2>2. IF content'[fd] = <<>> THEN ~Newline(written + 1) ELSE Last(content'[fd]) = written
    <3>1. CASE fd = name
      BY <1>1, <1>3, <3>1
    <3>2. CASE fd # name
      BY <1>1, <1>2, <1>3, <3>2 DEF TailerInv, FilesAreRuns
    <3> QED BY <3>1, <3>2
  <2> QED BY <1>1, <2>1, <2>2 DEF TailerInv, FilesAreRuns
<1> QED BY <1>4, <1>5, <1>6 DEF TailerInv, ReaderInv

-----------------------------------------------------------------------------
(* C1.                                                                     *)

\* C1 only reads files.
LEMMA FilesAreKept ==
  ASSUME TailerInv, UNCHANGED fileVars
  PROVE  FilesAreRuns'
BY DEF TailerInv, FilesAreRuns, fileVars

\* C1 has nothing of access.log, which is as good as reading it from the beginning.
LEMMA FromTheBeginning ==
  ASSUME TailerInv, UNCHANGED <<fileVars, collected>>, raced' = raced,
         state' \in [inode : -1..files, offset : Nat, buf : Seq(Bytes)],
         state'.offset = 0, state'.buf = <<>>,
         name = NoFile \/ ~Settled
  PROVE  /\ ~raced' => BufferIsHalfLine' /\ CollectedIsBehind'
         /\ LinesAreTheLog'
<1> USE DEF fileVars
<1>1. /\ content \in [1..MaxFiles -> Seq(Bytes)] /\ written \in Nat
      /\ name = NoFile \/ Len(content[name]) \in Nat
  <2>0. /\ content \in [1..MaxFiles -> Seq(Bytes)] /\ files \in 1..MaxFiles
        /\ name \in 0..files /\ MaxFiles \in Nat /\ written \in 0..MaxBytes /\ MaxBytes \in Nat
    BY TailerAssumption DEF TailerInv, TypeOK
  <2>1. /\ content \in [1..MaxFiles -> Seq(Bytes)] /\ written \in Nat
        /\ name = NoFile \/ name \in 1..MaxFiles
    BY <2>0 DEF NoFile
  <2>2. name = NoFile \/ content[name] \in Seq(Bytes)
    BY <2>1
  <2> QED BY <2>1, <2>2, LenProperties
<1>2. BufferIsHalfLine'
  BY DEF BufferIsHalfLine
<1>3. ~raced' => CollectedIsBehind'
  <2> SUFFICES ASSUME ~raced, NEW i \in DOMAIN collected
               PROVE  /\ collected[i] # <<>> /\ Newline(Last(collected[i])) /\ Last(collected[i]) \in 1..written
                      /\ name # NoFile =>
                           \A k \in 1..Len(content[name]) : Last(collected[i]) < content[name][k]
    <3>1. Resume' = 0
      BY DEF Resume
    <3> QED BY <3>1 DEF CollectedIsBehind
  <2>1. name = NoFile \/ (~Misled /\ Resume = 0)
    BY DEF Misled, Resume
  <2>2. /\ collected[i] # <<>> /\ Newline(Last(collected[i])) /\ Last(collected[i]) \in 1..written
        /\ name # NoFile /\ ~Misled =>
             \A k \in (Resume + 1)..Len(content[name]) : Last(collected[i]) < content[name][k]
    BY DEF TailerInv, CollectedIsBehind
  <2>3. name # NoFile => \A k \in 1..Len(content[name]) : Last(collected[i]) < content[name][k]
    <3> SUFFICES ASSUME name # NoFile PROVE \A k \in 1..Len(content[name]) : Last(collected[i]) < content[name][k]
      OBVIOUS
    <3>1. \A k \in (0 + 1)..Len(content[name]) : Last(collected[i]) < content[name][k]
      BY <2>1, <2>2
    <3> QED BY <3>1
  <2> QED BY <2>2, <2>3
<1>4. LinesAreWhole' /\ CollectedInOrder'
  BY DEF TailerInv, LinesAreTheLog, LinesAreWhole, CollectedInOrder
<1>5. NonePassedOver'
  BY DEF NonePassedOver
<1> QED BY <1>2, <1>3, <1>4, <1>5 DEF LinesAreTheLog

\* A file that is gone is forgotten.
LEMMA SyncStep ==
  ASSUME TailerInv, Sync
  PROVE  TailerInv'
<1>1. /\ pc = "sync" /\ UNCHANGED <<fileVars, batch, topicVars, collected, cut, raced, faults>>
      /\ skipped' = IF name = NoFile THEN FirstPoll ELSE skipped
      /\ IF name = NoFile THEN state' = NotTracked /\ initialized' = TRUE /\ UNCHANGED pc
         ELSE IF state = NotTracked THEN pc' = "track" /\ UNCHANGED <<state, initialized>>
         ELSE pc' = "stat" /\ initialized' = TRUE /\ UNCHANGED state
  BY DEF Sync
<1> USE DEF fileVars, topicVars
<1>2. /\ state \in [inode : -1..files, offset : Nat, buf : Seq(Bytes)]
      /\ files \in Nat /\ written \in Nat /\ skipped \in 0..written
  BY TailerAssumption DEF TailerInv, TypeOK
<1>3. /\ NotTracked \in [inode : -1..files, offset : Nat, buf : Seq(Bytes)]
      /\ NotTracked.offset = 0 /\ NotTracked.buf = <<>> /\ NotTracked.inode = -1
  BY <1>2, EmptySeq DEF NotTracked
<1>4. TypeOK'
  <2>1. state' \in [inode : -1..files, offset : Nat, buf : Seq(Bytes)]
    BY <1>1, <1>2, <1>3
  <2>2. ~raced' => Len(state'.buf) <= 1 /\ Range(state'.buf) \cap {b \in Bytes : Newline(b)} = {}
    <3>1. CASE state' = state
      BY <1>1, <3>1 DEF TailerInv, TypeOK
    <3>2. CASE state' = NotTracked
      BY <1>3, <3>2, EmptySeq DEF Range
    <3> QED BY <1>1, <3>1, <3>2
  <2>3. skipped' \in 0..written'
    BY <1>1, <1>2 DEF FirstPoll
  <2>4. /\ pc' \in {"sync", "track", "stat", "read", "publish"} /\ pc' # "publish" /\ batch' = <<>>
        /\ initialized' \in BOOLEAN
    BY <1>1 DEF TailerInv, TypeOK
  <2> QED BY <1>1, <2>1, <2>2, <2>3, <2>4 DEF TailerInv, TypeOK
<1>5. PollsInOrder'
  BY <1>1, <1>3 DEF TailerInv, PollsInOrder, Settled
<1>6. /\ ~raced' => BufferIsHalfLine' /\ CollectedIsBehind'
      /\ LinesAreTheLog'
  <2>1. CASE name = NoFile
    BY <1>1, <1>3, <2>1, FromTheBeginning
  <2>2. CASE name # NoFile
    <3>1. UNCHANGED <<state, skipped>>
      BY <1>1, <2>2
    <3>2. (~raced => BufferIsHalfLine /\ CollectedIsBehind) /\ LinesAreTheLog
      BY DEF TailerInv
    <3>3. ~raced' => BufferIsHalfLine' /\ CollectedIsBehind'
      BY <1>1, <3>1, <3>2 DEF BufferIsHalfLine, CollectedIsBehind, Resume, Settled, Misled
    <3>4. LinesAreTheLog'
      BY <1>1, <3>1, <3>2 DEF LinesAreTheLog, LinesAreWhole, CollectedInOrder, NonePassedOver, Settled, Misled, Skipped
    <3> QED BY <3>3, <3>4
  <2> QED BY <2>1, <2>2
<1>7. FilesAreRuns'
  BY <1>1, FilesAreKept
<1> QED BY <1>1, <1>4, <1>5, <1>6, <1>7 DEF TailerInv

\* Only at the first poll of an incarnation may C1 begin at the end of the file.
LEMMA TrackStep ==
  ASSUME TailerInv, Track
  PROVE  TailerInv'
<1> DEFINE fromEnd == ~initialized /\ ~ReadExisting /\ name # NoFile
<1>1. /\ pc = "track" /\ pc' = "stat" /\ initialized' = TRUE /\ cut' = FALSE /\ skipped' = FirstPoll
      /\ UNCHANGED <<fileVars, batch, topicVars, collected, raced, faults>>
  BY DEF Track
<1>2. state' = [inode |-> name, offset |-> IF fromEnd THEN Len(content[name]) ELSE 0, buf |-> <<>>]
  BY DEF Track
<1> USE DEF fileVars, topicVars
<1>3. /\ files \in 1..MaxFiles /\ name \in 0..files /\ MaxFiles \in Nat
      /\ content \in [1..MaxFiles -> Seq(Bytes)] /\ written \in Nat /\ skipped \in 0..written
      /\ name = NoFile \/ name \in 1..MaxFiles
  BY TailerAssumption DEF TailerInv, TypeOK, NoFile
<1>4. name = NoFile \/ Len(content[name]) \in Nat
  BY <1>3, LenProperties
<1>5. state' \in [inode : -1..files, offset : Nat, buf : Seq(Bytes)] /\ state'.buf = <<>> /\ state'.inode = name
  BY <1>2, <1>3, <1>4, EmptySeq
<1>6. TypeOK'
  <2>1. Len(state'.buf) <= 1 /\ Range(state'.buf) \cap {b \in Bytes : Newline(b)} = {}
    BY <1>5, EmptySeq DEF Range
  <2>2. skipped' \in 0..written'
    BY <1>1, <1>3 DEF FirstPoll
  <2> QED BY <1>1, <1>5, <2>1, <2>2 DEF TailerInv, TypeOK
<1>7. name # NoFile => Settled' /\ ~Misled'
  BY <1>1, <1>2, <1>4, <1>5 DEF Settled, Misled
<1>8. PollsInOrder'
  BY <1>1, <1>7 DEF PollsInOrder
<1>9. state = NotTracked /\ state.inode = -1
  BY <1>1 DEF TailerInv, PollsInOrder, NotTracked
<1>10. ~Settled
  BY <1>3, <1>9 DEF Settled
<1>11. /\ ~raced' => BufferIsHalfLine' /\ CollectedIsBehind'
       /\ LinesAreTheLog'
  <2>1. CASE ~fromEnd
    BY <1>1, <1>2, <1>5, <1>10, <2>1, FromTheBeginning
  <2>2. CASE fromEnd
    <3>1. PICK m, c : m = Len(content[name]) /\ c = content[name]
      OBVIOUS
    <3>2. /\ name # NoFile /\ ~ReadExisting /\ collected = <<>> /\ skipped' = written
          /\ state'.offset = m /\ m \in Nat
      BY <1>1, <1>2, <1>4, <2>2, <3>1 DEF TailerInv, PollsInOrder, FirstPoll
    <3>3. \A k \in 1..m : c[k] \in 1..written
      <4>1. c \in Seq(Bytes)
        BY <1>3, <3>1, <3>2
      <4>2. DOMAIN c = 1..m
        BY <3>1, <4>1, LenProperties
      <4> QED BY <1>3, <3>1, <3>2, <4>2 DEF TailerInv, FilesAreRuns
    <3>4. DOMAIN collected' = {}
      BY <1>1, <3>2, EmptySeq
    <3>5. BufferIsHalfLine'
      <4>1. m > 0 => Newline(c[m]) \/ c[m] <= skipped'
        BY <1>3, <3>2, <3>3
      <4> QED BY <1>1, <1>5, <3>1, <3>2, <4>1 DEF BufferIsHalfLine
    <3>6. CollectedIsBehind'
      BY <3>4 DEF CollectedIsBehind
    <3>7. LinesAreWhole' /\ CollectedInOrder'
      BY <3>4 DEF LinesAreWhole, CollectedInOrder
    <3>8. NonePassedOver'
      <4>1. ASSUME NEW n \in Lines, NEW k \in 1..m, c[k] = 2 * n PROVE 2 * n - 1 <= skipped'
        <5>1. c[k] \in 1..written /\ n \in Nat
          BY <3>3, TailerAssumption DEF Lines
        <5> QED BY <1>3, <3>2, <4>1, <5>1
      <4> QED BY <1>1, <3>1, <3>2, <4>1 DEF NonePassedOver, Skipped
    <3> QED BY <3>5, <3>6, <3>7, <3>8 DEF LinesAreTheLog
  <2> QED BY <2>1, <2>2
<1>12. FilesAreRuns'
  BY <1>1, FilesAreKept
<1> QED BY <1>1, <1>6, <1>8, <1>11, <1>12 DEF TailerInv

\* Another file, or a shorter one, is read from the beginning; C1 goes on with this one.
LEMMA StatStep ==
  ASSUME TailerInv, Stat
  PROVE  TailerInv'
<1> USE DEF fileVars, topicVars
<1>1. /\ pc = "stat" /\ cut' = FALSE
      /\ UNCHANGED <<fileVars, initialized, batch, topicVars, collected, skipped, faults>>
  BY DEF Stat
<1>2. /\ state \in [inode : -1..files, offset : Nat, buf : Seq(Bytes)] /\ initialized
      /\ files \in 1..MaxFiles /\ name \in 0..files /\ MaxFiles \in Nat
      /\ content \in [1..MaxFiles -> Seq(Bytes)]
      /\ name = NoFile \/ name \in 1..MaxFiles
      /\ batch = <<>>
  BY <1>1, TailerAssumption DEF TailerInv, TypeOK, NoFile, PollsInOrder
<1>3. name = NoFile \/ Len(content[name]) \in Nat
  BY <1>2, LenProperties
<1>4. /\ NotTracked \in [inode : -1..files, offset : Nat, buf : Seq(Bytes)]
      /\ NotTracked.offset = 0 /\ NotTracked.buf = <<>> /\ NotTracked.inode = -1
  BY <1>2, EmptySeq DEF NotTracked
<1>5. FilesAreRuns'
  BY <1>1, FilesAreKept
\* What remains when the state of the file is begun anew.
<1>6. ASSUME raced' \in BOOLEAN, ~raced' => ~raced, raced' = raced,
             state' \in [inode : -1..files, offset : Nat, buf : Seq(Bytes)],
             state'.offset = 0, state'.buf = <<>>, name = NoFile \/ ~Settled,
             pc' \in {"sync", "read"}
      PROVE  TailerInv'
  <2>1. Len(state'.buf) <= 1 /\ Range(state'.buf) \cap {b \in Bytes : Newline(b)} = {}
    BY <1>6, EmptySeq DEF Range
  <2>2. TypeOK'
    BY <1>1, <1>2, <1>6, <2>1 DEF TailerInv, TypeOK
  <2>3. PollsInOrder'
    BY <1>1, <1>2, <1>3, <1>6 DEF PollsInOrder, Settled
  <2>4. /\ ~raced' => BufferIsHalfLine' /\ CollectedIsBehind'
        /\ LinesAreTheLog'
    BY <1>1, <1>6, FromTheBeginning
  <2> QED BY <1>1, <1>5, <2>2, <2>3, <2>4 DEF TailerInv
<1>7. CASE name = NoFile
  <2>1. state' = NotTracked /\ pc' = "sync" /\ raced' = raced
    BY <1>7 DEF Stat
  <2> QED BY <1>4, <1>6, <1>7, <2>1 DEF TailerInv, TypeOK
<1>8. CASE name # NoFile /\ Replaced(Len(content[name]))
  <2>1. state' = [inode |-> name, offset |-> 0, buf |-> <<>>] /\ pc' \in {"sync", "read"}
    BY <1>8 DEF Stat, Reset
  <2>2. raced' = raced
    BY <1>8 DEF Stat, TailerInv, TypeOK
  <2>3. state' \in [inode : -1..files, offset : Nat, buf : Seq(Bytes)]
    BY <1>2, <2>1, EmptySeq
  <2>4. ~Settled
    BY <1>2, <1>3, <1>8 DEF Settled, Replaced
  <2> QED BY <1>6, <2>1, <2>2, <2>3, <2>4 DEF TailerInv, TypeOK
<1>9. CASE name # NoFile /\ ~Replaced(Len(content[name]))
  <2>1. /\ state' = state /\ pc' \in {"sync", "read"}
        /\ raced' = (raced \/ (cut /\ state.offset > 0))
    BY <1>9 DEF Stat
  <2>2. Settled /\ Settled' /\ ~Misled' /\ Resume' = Resume
    BY <1>1, <1>2, <1>3, <1>9, <2>1 DEF Settled, Replaced, Misled, Resume
  <2>3. ~raced' => ~raced /\ ~Misled
    BY <2>1 DEF Misled
  <2>4. raced' \in BOOLEAN
    BY <2>1
  <2>5. TypeOK'
    BY <1>1, <1>2, <2>1, <2>3, <2>4 DEF TailerInv, TypeOK
  <2>6. PollsInOrder'
    BY <1>1, <1>2, <2>1, <2>2 DEF PollsInOrder
  <2>7. ~raced' => BufferIsHalfLine'
    BY <1>1, <2>1, <2>2, <2>3 DEF TailerInv, BufferIsHalfLine
  <2>8. ~raced' => CollectedIsBehind'
    BY <1>1, <2>1, <2>2, <2>3 DEF TailerInv, CollectedIsBehind
  <2>9. LinesAreWhole' /\ CollectedInOrder'
    BY <1>1, <2>3 DEF TailerInv, LinesAreTheLog, LinesAreWhole, CollectedInOrder
  <2>10. NonePassedOver'
    BY <1>1, <2>1, <2>2, <2>3 DEF TailerInv, LinesAreTheLog, NonePassedOver, Skipped
  <2> QED BY <1>1, <1>5, <2>5, <2>6, <2>7, <2>8, <2>9, <2>10 DEF TailerInv, LinesAreTheLog
<1> QED BY <1>7, <1>8, <1>9

\* Every line of the batch is stored, or its publish failed.
LEMMA PublishStep ==
  ASSUME TailerInv, Publish
  PROVE  TailerInv'
<1> USE DEF fileVars, topicVars
<1>1. /\ pc = "publish" /\ batch' = <<>> /\ pc' = "sync"
      /\ UNCHANGED <<fileVars, initialized, state, collected, skipped, cut, raced>>
  BY DEF Publish
<1>2. stored \cup lost \cup Range(batch) \subseteq stored' \cup lost' /\ faults' \in 0..MaxFaults
  <2>1. CASE stored' = stored \cup Range(batch) /\ UNCHANGED <<lost, faults>>
    BY <2>1 DEF TailerInv, TypeOK
  <2>2. CASE Fault /\ \E some \in SUBSET Range(batch) :
               stored' = stored \cup some /\ lost' = lost \cup (Range(batch) \ some)
    <3>1. faults' \in 0..MaxFaults
      BY <2>2, TailerAssumption DEF Fault, TailerInv, TypeOK
    <3> QED BY <2>2, <3>1
  <2> QED BY <2>1, <2>2 DEF Publish
<1>3. TypeOK'
  BY <1>1, <1>2 DEF TailerInv, TypeOK
<1>4. PollsInOrder'
  BY <1>1 DEF TailerInv, PollsInOrder, Settled
<1>5. ~raced' => BufferIsHalfLine' /\ CollectedIsBehind'
  BY <1>1 DEF TailerInv, BufferIsHalfLine, CollectedIsBehind, Resume, Settled, Misled
<1>6. LinesAreWhole' /\ CollectedInOrder'
  BY <1>1 DEF TailerInv, LinesAreTheLog, LinesAreWhole, CollectedInOrder
<1>7. NonePassedOver'
  BY <1>1, <1>2 DEF TailerInv, LinesAreTheLog, NonePassedOver, Settled, Misled, Skipped
<1>8. FilesAreRuns'
  BY <1>1, FilesAreKept
<1> QED BY <1>1, <1>3, <1>4, <1>5, <1>6, <1>7, <1>8 DEF TailerInv, LinesAreTheLog

\* A new incarnation has collected nothing and follows no file.
LEMMA RestartStep ==
  ASSUME TailerInv, Restart
  PROVE  TailerInv'
<1> USE DEF fileVars, topicVars
<1>1. /\ Fault /\ pc' = "sync" /\ initialized' = FALSE /\ state' = NotTracked
      /\ batch' = <<>> /\ collected' = <<>>
      /\ UNCHANGED <<fileVars, lost, skipped, cut, raced>>
  BY DEF Restart
<1>2. faults' \in 0..MaxFaults
  BY <1>1, TailerAssumption DEF Fault, TailerInv, TypeOK
<1>3. files \in 1..MaxFiles /\ MaxFiles \in Nat /\ name \in 0..files
  BY TailerAssumption DEF TailerInv, TypeOK
<1>4. /\ NotTracked \in [inode : -1..files, offset : Nat, buf : Seq(Bytes)]
      /\ NotTracked.offset = 0 /\ NotTracked.buf = <<>> /\ NotTracked.inode = -1
  BY <1>3, EmptySeq DEF NotTracked
<1>5. Len(state'.buf) <= 1 /\ Range(state'.buf) \cap {b \in Bytes : Newline(b)} = {}
  BY <1>1, <1>4, EmptySeq DEF Range
<1>6. TypeOK'
  BY <1>1, <1>2, <1>4, <1>5 DEF TailerInv, TypeOK
<1>7. state'.inode # name' /\ ~Settled'
  BY <1>1, <1>3, <1>4 DEF Settled
<1>8. PollsInOrder'
  BY <1>1, <1>7 DEF PollsInOrder
<1>9. collected' \in Seq(Seq(Bytes)) /\ DOMAIN collected' = {}
  BY <1>1, EmptySeq
<1>10. BufferIsHalfLine' /\ CollectedIsBehind'
  BY <1>1, <1>4, <1>7, <1>9 DEF BufferIsHalfLine, CollectedIsBehind
<1>11. LinesAreTheLog'
  BY <1>7, <1>9 DEF LinesAreTheLog, LinesAreWhole, CollectedInOrder, NonePassedOver
<1>12. FilesAreRuns'
  BY <1>1, FilesAreKept
<1> QED BY <1>6, <1>8, <1>9, <1>10, <1>11, <1>12 DEF TailerInv

-----------------------------------------------------------------------------
(* C1 reads.                                                               *)

\* Every run is divided into lines.
LEMMA HalvesExist ==
  ASSUME NEW m \in Nat, NEW x \in Nat
  PROVE  \E e, K : Halves(e, K, m, x)
<1>1. CASE Newline(x)
  <2>1. PICK K : K = (m + 1) \div 2
    OBVIOUS
  <2>2. K \in Nat /\ (1 + 2 * K - 2 = m - 1 \/ 1 + 2 * K - 2 = m)
    BY <2>1
  <2>3. Halves(1, K, m, x)
    BY <1>1, <2>2 DEF Halves
  <2> QED BY <2>3
<1>2. CASE ~Newline(x)
  <2>1. PICK K : K = m \div 2
    OBVIOUS
  <2>2. K \in Nat /\ (2 + 2 * K - 2 = m - 1 \/ 2 + 2 * K - 2 = m)
    BY <2>1
  <2>3. Halves(2, K, m, x)
    BY <1>2, <2>2 DEF Halves
  <2> QED BY <2>3
<1> QED BY <1>1, <1>2

\* What C1 reads, and what it splits then.
Chunk == IF name = NoFile THEN <<>> ELSE SubSeq(content[name], state.offset + 1, Len(content[name]))
Data == state.buf \o Chunk

\* The chunk reaches to the end of the file.
LEMMA ChunkFacts ==
  ASSUME TypeOK
  PROVE  /\ Chunk \in Seq(Bytes) /\ Data \in Seq(Bytes) /\ Len(Chunk) \in Nat
         /\ Chunk # <<>> =>
              /\ name \in 1..MaxFiles /\ name # NoFile /\ content[name] \in Seq(Bytes)
              /\ state.offset < Len(content[name]) /\ Len(Chunk) = Len(content[name]) - state.offset
              /\ \A i \in 1..Len(Chunk) : Chunk[i] = content[name][state.offset + i]
<1>1. /\ state \in [inode : -1..files, offset : Nat, buf : Seq(Bytes)]
      /\ content \in [1..MaxFiles -> Seq(Bytes)]
      /\ name = NoFile \/ name \in 1..MaxFiles
  BY TailerAssumption DEF TypeOK, NoFile
<1>2. PICK o, c : o = state.offset /\ c = content[name]
  OBVIOUS
<1>3. CASE name = NoFile
  <2>1. Chunk = <<>>
    BY <1>3 DEF Chunk
  <2> QED BY <1>1, <2>1, EmptySeq, ConcatProperties DEF Data
<1>4. CASE name # NoFile
  <2>1. /\ c \in Seq(Bytes) /\ Len(c) \in Nat /\ o \in Nat
        /\ o + 1 \in Int /\ Len(c) \in Int
        /\ \A i \in 1..Len(c) : c[i] \in Bytes
    BY <1>1, <1>2, <1>4, ElementOfSeq, LenProperties
  <2>2. Chunk = SubSeq(c, o + 1, Len(c))
    BY <1>2, <1>4 DEF Chunk
  <2>3. CASE o < Len(c)
    <3>1. PICK a : a = o + 1
      OBVIOUS
    <3>2. a \in Int /\ \A i \in a..Len(c) : c[i] \in Bytes
      BY <2>1, <3>1
    <3>3. /\ SubSeq(c, a, Len(c)) \in Seq(Bytes)
          /\ Len(SubSeq(c, a, Len(c))) = IF a <= Len(c) THEN Len(c) - a + 1 ELSE 0
          /\ \A i \in 1..(Len(c) - a + 1) : SubSeq(c, a, Len(c))[i] = c[a + i - 1]
      BY <2>1, <3>2, SubSeqProperties
    <3>4. Chunk \in Seq(Bytes) /\ Len(Chunk) = Len(c) - o
      BY <2>1, <2>2, <2>3, <3>1, <3>3
    <3>5. \A i \in 1..Len(Chunk) : Chunk[i] = c[o + i]
      BY <2>1, <2>2, <2>3, <3>1, <3>3, <3>4
    <3> QED BY <1>1, <1>2, <1>4, <2>1, <2>3, <3>4, <3>5, ConcatProperties DEF Data
  <2>4. CASE ~(o < Len(c))
    <3>1. Chunk = <<>>
      BY <2>1, <2>2, <2>4, SubSeqEmpty
    <3> QED BY <1>1, <3>1, EmptySeq, ConcatProperties DEF Data
  <2> QED BY <2>1, <2>3, <2>4
<1> QED BY <1>3, <1>4

\* The half line in the buffer and what is read behind it are consecutive bytes, which
\* begin a line, unless C1 began in the middle of one.
LEMMA DataIsRun ==
  ASSUME TailerInv, Chunk # <<>>, ~raced, name = state.inode, ~(cut /\ state.offset > 0)
  PROVE  \E s \in Nat :
           /\ s = state.offset \/ (s + 1 = state.offset /\ ~Newline(content[name][state.offset]))
           /\ content[name][1] \in Nat /\ Run(Data, Len(content[name]) - s, content[name][1] + s)
           /\ Newline(content[name][1] + s) =>
                collected = <<>> /\ ~ReadExisting /\ content[name][1] + s - 1 <= skipped
<1>1. PICK o, c, L : o = state.offset /\ c = content[name] /\ L = Len(c)
  OBVIOUS
<1>2. /\ Chunk \in Seq(Bytes) /\ Data \in Seq(Bytes)
      /\ name \in 1..MaxFiles /\ name # NoFile /\ c \in Seq(Bytes)
      /\ o < L /\ Len(Chunk) = L - o
      /\ \A i \in 1..Len(Chunk) : Chunk[i] = c[o + i]
  BY <1>1, ChunkFacts DEF TailerInv
<1>3. o \in Nat /\ L \in Nat /\ state.buf \in Seq(Bytes) /\ DOMAIN c = 1..L
  BY <1>1, <1>2, LenProperties DEF TailerInv, TypeOK
<1>4. /\ \A k \in 1..L : c[k] \in Nat /\ c[k] = c[1] + (k - 1)
      /\ ~Newline(c[1]) /\ c[1] \in Nat
  <2>1. \A k \in 1..L : c[k] \in 1..written /\ c[k] = c[1] + (k - 1)
    BY <1>1, <1>2, <1>3 DEF TailerInv, FilesAreRuns
  <2>2. c # <<>> /\ 1 \in 1..L
    BY <1>1, <1>2, <1>3, EmptySeq
  <2>3. ~Newline(c[1])
    BY <1>1, <1>2, <2>2 DEF TailerInv, FilesAreRuns
  <2>4. \A k \in 1..L : c[k] \in Nat
    BY <2>1
  <2> QED BY <2>1, <2>2, <2>3, <2>4
<1>5. Settled /\ ~Misled
  BY <1>1, <1>2, <1>3 DEF Settled, Misled
\* Without a half line in the buffer.
<1>6. ASSUME state.buf = <<>> PROVE Run(Data, L - o, c[1] + o)
  <2>1. Data = Chunk
    BY <1>2, <1>6, ConcatEmptySeq DEF Data
  <2>2. ASSUME NEW k \in 1..(L - o) PROVE Chunk[k] = (c[1] + o) + (k - 1)
    <3>1. o + k \in 1..L /\ Chunk[k] = c[o + k]
      BY <1>2, <1>3
    <3>2. c[o + k] = c[1] + ((o + k) - 1)
      BY <1>4, <3>1
    <3> QED BY <1>3, <1>4, <3>1, <3>2
  <2> QED BY <1>2, <2>1, <2>2 DEF Run
<1>7. CASE o = 0
  <2>1. state.buf = <<>>
    BY <1>1, <1>7 DEF TailerInv, BufferIsHalfLine
  <2>2. Run(Data, L - 0, c[1] + 0) /\ ~Newline(c[1] + 0)
    BY <1>4, <1>6, <1>7, <2>1
  <2> QED BY <1>1, <1>4, <1>7, <2>2
<1>8. CASE o > 0
  <2>1. o \in 1..L /\ o - 1 \in Nat /\ c[o] = c[1] + (o - 1) /\ c[o] \in Nat
    BY <1>2, <1>3, <1>4, <1>8
  <2>2. \/ Newline(c[o]) /\ state.buf = <<>>
        \/ ~Newline(c[o]) /\ state.buf = <<c[o]>>
        \/ ~Newline(c[o]) /\ state.buf = <<>> /\ collected = <<>> /\ ~ReadExisting /\ c[o] <= skipped
    BY <1>1, <1>5, <1>8 DEF TailerInv, BufferIsHalfLine
  <2>3. CASE state.buf = <<>>
    <3>1. Run(Data, L - o, c[1] + o)
      BY <1>6, <2>3
    <3>2. Newline(c[o]) => ~Newline(c[1] + o)
      <4>1. c[1] + o = c[o] + 1
        BY <1>3, <1>4, <2>1
      <4>2. \A y \in Nat : y % 2 = 0 => (y + 1) % 2 # 0
        OBVIOUS
      <4> QED BY <2>1, <4>1, <4>2 DEF Newline
    <3>3. ~Newline(c[o]) => collected = <<>> /\ ~ReadExisting /\ c[o] <= skipped
      <4>1. <<c[o]>> # <<>>
        OBVIOUS
      <4> QED BY <2>2, <2>3, <4>1
    <3>4. c[1] + o - 1 = c[o]
      BY <1>3, <1>4, <2>1
    <3> QED BY <1>1, <1>3, <1>4, <3>1, <3>2, <3>3, <3>4
  <2>4. CASE ~Newline(c[o]) /\ state.buf = <<c[o]>>
    <3>1. PICK s : s = o - 1
      OBVIOUS
    <3>2. s \in Nat /\ s + 1 = o /\ c[o] = c[1] + s
      BY <1>3, <2>1, <3>1
    <3>3. Len(state.buf) = 1 /\ state.buf[1] = c[o]
      BY <2>4
    <3>4. /\ Len(Data) = 1 + (L - o)
          /\ \A k \in 1..Len(Data) : Data[k] = IF k <= 1 THEN state.buf[k] ELSE Chunk[k - 1]
      <4>1. PICK b : b = state.buf
        OBVIOUS
      <4>2. /\ Len(b \o Chunk) = Len(b) + Len(Chunk)
            /\ \A k \in 1..(Len(b) + Len(Chunk)) : (b \o Chunk)[k] = IF k <= Len(b) THEN b[k] ELSE Chunk[k - Len(b)]
        <5>1. b \in Seq(Bytes) /\ Chunk \in Seq(Bytes)
          BY <1>2, <1>3, <4>1
        <5> QED BY <5>1, ConcatProperties
      <4> QED BY <1>2, <3>3, <4>1, <4>2 DEF Data
    <3>5. ASSUME NEW k \in 1..(L - s) PROVE Data[k] = (c[1] + s) + (k - 1)
      <4>1. CASE k = 1
        <5>1. 1 \in 1..Len(Data)
          BY <1>2, <1>3, <3>4
        <5>2. Data[1] = c[o]
          BY <3>3, <3>4, <5>1
        <5> QED BY <1>3, <1>4, <3>2, <4>1, <5>2
      <4>2. CASE k # 1
        <5>1. k - 1 \in 1..(L - o) /\ o + (k - 1) \in 1..L /\ k \in 1..Len(Data) /\ ~(k <= 1)
          <6>1. k \in Int /\ 1 <= k /\ k <= L - s /\ Len(Data) = L - s
            BY <1>3, <3>2, <3>4
          <6> QED BY <1>2, <1>3, <3>2, <4>2, <6>1
        <5>2. Data[k] = Chunk[k - 1] /\ Chunk[k - 1] = c[o + (k - 1)]
          BY <1>2, <3>4, <5>1
        <5>3. c[o + (k - 1)] = c[1] + ((o + (k - 1)) - 1)
          BY <1>4, <5>1
        <5> QED BY <1>3, <1>4, <3>2, <5>2, <5>3
      <4> QED BY <4>1, <4>2
    <3>6. Len(Data) = L - s
      BY <1>3, <3>2, <3>4
    <3>7. Run(Data, L - s, c[1] + s)
      BY <1>2, <3>5, <3>6 DEF Run
    <3>8. ~Newline(c[1] + s) /\ ~Newline(content[name][state.offset])
      BY <1>1, <2>4, <3>2
    <3> QED BY <1>1, <1>4, <3>2, <3>7, <3>8
  <2> QED BY <2>2, <2>3, <2>4
<1> QED BY <1>3, <1>7, <1>8

\* A line of a run is a whole line of the log, unless the run begins with its newline.
LEMMA LineFacts ==
  ASSUME NEW m \in Nat, NEW x \in Nat, NEW data, Run(data, m, x),
         NEW e, NEW K, Halves(e, K, m, x), NEW n \in 1..K,
         NEW line, line = LinesOf(data)[n], NEW y, y = LastOfLine(n, x, e)
  PROVE  /\ e + 2 * n - 2 \in 1..m /\ y \in Bytes /\ Newline(y)
         /\ line # <<>> /\ Last(line) = y
         /\ n = 1 /\ e = 1 => Len(line) = 1
         /\ ~(n = 1 /\ e = 1) => Head(line) = y - 1 /\ \E p \in Lines : line = WholeLine(p) /\ y = 2 * p
<1>1. K \in Nat /\ e \in {1, 2} /\ e + 2 * K - 2 \in {m - 1, m} /\ (e = 1 <=> Newline(x))
  BY DEF Halves
<1>2. line = IF n = 1 /\ e = 1 THEN <<x>> ELSE <<x + (e + 2 * n - 4), x + (e + 2 * n - 3)>>
  <2>1. \A i \in 1..K : LinesOf(data)[i] = LineOfRun(i, x, e)
    BY RunIsSplit
  <2> QED BY <2>1 DEF LineOfRun
<1>0. y = x + (e + 2 * n - 3)
  BY DEF LastOfLine
<1>3. e + 2 * n - 2 \in 1..m /\ y \in Nat
  BY <1>0, <1>1
<1>4. y \in Bytes
  <2>1. data \in Seq(Bytes) /\ Len(data) = m /\ data[e + 2 * n - 2] = x + ((e + 2 * n - 2) - 1)
    BY <1>3 DEF Run
  <2>2. data[e + 2 * n - 2] \in Bytes
    BY <1>3, <2>1, ElementOfSeq
  <2>3. data[e + 2 * n - 2] = y
    BY <1>0, <1>1, <2>1
  <2> QED BY <2>2, <2>3
<1>5. Newline(y)
  <2>1. CASE e = 1
    <3>1. x % 2 = 0 /\ y = x + 2 * (n - 1) /\ n - 1 \in Nat
      BY <1>0, <1>1, <2>1 DEF Newline
    <3>2. y % 2 = 0
      BY <3>1
    <3> QED BY <3>2 DEF Newline
  <2>2. CASE e = 2
    <3>1. x % 2 = 1 /\ y = x + 2 * (n - 1) + 1 /\ n - 1 \in Nat
      BY <1>0, <1>1, <2>2 DEF Newline
    <3>2. y % 2 = 0
      BY <3>1
    <3> QED BY <3>2 DEF Newline
  <2> QED BY <1>1, <2>1, <2>2
<1>6. CASE n = 1 /\ e = 1
  <2>1. line = <<y>>
    <3>1. y = x
      BY <1>0, <1>6
    <3> QED BY <1>2, <1>6, <3>1
  <2>2. line # <<>> /\ Len(line) = 1 /\ line[1] = y
    BY <2>1
  <2> QED BY <1>3, <1>4, <1>5, <1>6, <2>2 DEF Last
<1>7. CASE ~(n = 1 /\ e = 1)
  <2>1. line = <<y - 1, y>>
    <3>1. x + (e + 2 * n - 4) = y - 1
      BY <1>0, <1>1
    <3> QED BY <1>0, <1>2, <1>7, <3>1
  <2>2. line # <<>> /\ Len(line) = 2 /\ line[2] = y /\ Head(line) = y - 1
    BY <2>1
  <2>3. PICK p : p = y \div 2
    OBVIOUS
  <2>4. p \in Nat /\ y = 2 * p
    BY <1>3, <1>5, <2>3 DEF Newline
  <2>5. p \in Lines
    BY <1>4, <2>4, TailerAssumption DEF Lines, Bytes
  <2>6. line = WholeLine(p)
    BY <2>1, <2>4 DEF WholeLine
  <2> QED BY <1>3, <1>4, <1>5, <1>7, <2>2, <2>4, <2>5, <2>6 DEF Last
<1> QED BY <1>6, <1>7

\* What a poll collects follows what was collected before, in order and complete.
LEMMA LinesOfPoll ==
  ASSUME TailerInv, Chunk # <<>>, ~raced, name = state.inode, ~(cut /\ state.offset > 0)
  PROVE  /\ \A j \in DOMAIN LinesOf(Data) :
              /\ LinesOf(Data)[j] # <<>> /\ Newline(Last(LinesOf(Data)[j])) /\ Last(LinesOf(Data)[j]) \in 1..written
              /\ \/ \E p \in Lines : LinesOf(Data)[j] = WholeLine(p)
                 \/ j = 1 /\ collected = <<>> /\ ~ReadExisting /\ Len(LinesOf(Data)[j]) = 1
              /\ \A i \in DOMAIN collected : Last(collected[i]) < Head(LinesOf(Data)[j])
              /\ \A i \in DOMAIN LinesOf(Data) : i < j => Last(LinesOf(Data)[i]) < Head(LinesOf(Data)[j])
         /\ \A p \in Lines, k \in (state.offset + 1)..Len(content[name]) :
              content[name][k] = 2 * p => WholeLine(p) \in Range(LinesOf(Data)) \/ Skipped(p)
         /\ \/ Rest(Data) = <<>> /\ Newline(content[name][Len(content[name])])
            \/ Rest(Data) = <<content[name][Len(content[name])]>> /\ ~Newline(content[name][Len(content[name])])
<1>1. PICK o, c, L, lines : o = state.offset /\ c = content[name] /\ L = Len(c) /\ lines = LinesOf(Data)
  OBVIOUS
<1>2. PICK s \in Nat :
           /\ s = o \/ (s + 1 = o /\ ~Newline(c[o]))
           /\ c[1] \in Nat /\ Run(Data, L - s, c[1] + s)
           /\ Newline(c[1] + s) => collected = <<>> /\ ~ReadExisting /\ c[1] + s - 1 <= skipped
  BY <1>1, DataIsRun
<1>3. /\ name \in 1..MaxFiles /\ name # NoFile /\ c \in Seq(Bytes) /\ o < L
      /\ o \in Nat /\ L \in Nat /\ DOMAIN c = 1..L
  <2>1. TypeOK /\ state.offset \in Nat
    BY DEF TailerInv, TypeOK
  <2> QED BY <1>1, <2>1, ChunkFacts, LenProperties
<1>4. PICK m, x, data : m = L - s /\ x = c[1] + s /\ data = Data
  OBVIOUS
<1>5. m \in Nat /\ m >= 1 /\ x \in Nat /\ s <= o /\ o <= s + 1 /\ L = s + m
  BY <1>2, <1>3, <1>4
<1>20. c[1] \in Nat /\ x = c[1] + s /\ s \in Nat
  <2>1. c[1] \in Nat
    BY <1>2, Zenon
  <2>2. s \in Nat
    BY <1>2, Zenon
  <2>3. x = c[1] + s
    BY <1>4, Zenon
  <2> QED BY <2>1, <2>2, <2>3
<1>6. Run(data, m, x)
  BY <1>2, <1>4
<1>7. \A k \in 1..L : c[k] \in 1..written /\ c[k] = c[1] + (k - 1)
  BY <1>1, <1>3 DEF TailerInv, FilesAreRuns
<1>8. \A i \in 1..m : s + i \in 1..L /\ c[s + i] = x + (i - 1)
  <2> SUFFICES ASSUME NEW i \in 1..m PROVE s + i \in 1..L /\ c[s + i] = x + (i - 1)
    OBVIOUS
  <2>1. s + i \in 1..L
    BY <1>5
  <2>2. c[s + i] = c[1] + ((s + i) - 1)
    BY <1>7, <2>1
  <2>3. c[1] + ((s + i) - 1) = x + (i - 1)
    BY <1>2, <1>4
  <2> QED BY <2>1, <2>2, <2>3
<1>9. PICK e, K : Halves(e, K, m, x)
  BY <1>5, HalvesExist
<1>10. K \in Nat /\ e \in {1, 2} /\ e + 2 * K - 2 \in {m - 1, m} /\ (e = 1 <=> Newline(x))
  BY <1>9 DEF Halves
<1>11. DOMAIN lines = 1..K
  <2>1. LinesOf(data) \in Seq(Seq(Bytes)) /\ Len(LinesOf(data)) = K
    BY <1>5, <1>6, <1>9, RunIsSplit
  <2> QED BY <1>1, <1>4, <1>10, <2>1, LenProperties
<1>19. \A j \in 1..K : LastOfLine(j, x, e) \in Int /\ LastOfLine(j, x, e) = x + (e + 2 * j - 3)
  BY <1>5, <1>10 DEF LastOfLine
<1>12. ASSUME NEW j \in 1..K
       PROVE  /\ e + 2 * j - 2 \in 1..m /\ LastOfLine(j, x, e) \in Bytes /\ Newline(LastOfLine(j, x, e))
              /\ lines[j] # <<>> /\ Last(lines[j]) = LastOfLine(j, x, e)
              /\ j = 1 /\ e = 1 => Len(lines[j]) = 1
              /\ ~(j = 1 /\ e = 1) =>
                   /\ Head(lines[j]) = LastOfLine(j, x, e) - 1
                   /\ \E p \in Lines : lines[j] = WholeLine(p) /\ LastOfLine(j, x, e) = 2 * p
  <2>1. PICK line, y : line = LinesOf(data)[j] /\ y = LastOfLine(j, x, e)
    OBVIOUS
  <2>2. /\ e + 2 * j - 2 \in 1..m /\ y \in Bytes /\ Newline(y)
        /\ line # <<>> /\ Last(line) = y
        /\ j = 1 /\ e = 1 => Len(line) = 1
        /\ ~(j = 1 /\ e = 1) => Head(line) = y - 1 /\ \E p \in Lines : line = WholeLine(p) /\ y = 2 * p
    <3>1. m \in Nat /\ x \in Nat
      BY <1>5
    <3> QED BY <1>6, <1>9, <2>1, <3>1, LineFacts
  <2>3. lines[j] = line
    BY <1>1, <1>4, <2>1
  <2> QED BY <2>1, <2>2, <2>3
<1>13. e = 1 => collected = <<>> /\ ~ReadExisting /\ x - 1 <= skipped
  <2>1. x - 1 = c[1] + s - 1
    <3> QED BY <1>20
  <2> QED BY <1>2, <1>4, <1>10, <2>1
<1>14. ASSUME NEW j \in 1..K
       PROVE  /\ lines[j] # <<>> /\ Newline(Last(lines[j])) /\ Last(lines[j]) \in 1..written
              /\ \/ \E p \in Lines : lines[j] = WholeLine(p)
                 \/ j = 1 /\ collected = <<>> /\ ~ReadExisting /\ Len(lines[j]) = 1
  <2>1. PICK i \in 1..m : i = e + 2 * j - 2
    BY <1>12
  <2>2. LastOfLine(j, x, e) = c[s + i]
    <3>1. LastOfLine(j, x, e) = x + (e + 2 * j - 3) /\ c[s + i] = x + (i - 1)
      BY <1>8, <1>19
    <3>2. e + 2 * j - 3 = i - 1
      BY <1>10, <2>1
    <3> QED BY <3>1, <3>2
  <2>3. Last(lines[j]) \in 1..written
    BY <1>7, <1>8, <1>12, <2>2
  <2> QED BY <1>12, <1>13, <2>3
\* The first byte of a line lies behind what was collected.
<1>15. ASSUME NEW j \in 1..K, NEW i \in DOMAIN collected
       PROVE  Last(collected[i]) < Head(lines[j])
  <2>1. PICK z : z = Last(collected[i])
    OBVIOUS
  <2>2. e = 2
    BY <1>10, <1>13, EmptySeq
  <2>3. Settled /\ ~Misled /\ Resume = o
    BY <1>1, <1>3 DEF Settled, Misled, Resume
  <2>4. z \in 1..written /\ Newline(z) /\ \A k \in (o + 1)..L : z < c[k]
    BY <1>1, <1>3, <2>1, <2>3 DEF TailerInv, CollectedIsBehind
  <2>5. z < c[o + 1] /\ c[o + 1] = c[1] + o
    <3>1. o + 1 \in (o + 1)..L /\ o + 1 \in 1..L
      BY <1>3
    <3>2. z < c[o + 1] /\ c[o + 1] = c[1] + ((o + 1) - 1)
      BY <1>7, <2>4, <3>1
    <3> QED BY <1>2, <1>3, <3>2
  <2>6. z < x
    <3>1. CASE s = o
      BY <1>4, <2>5, <3>1
    <3>2. CASE s + 1 = o
      <4>1. z \in Nat /\ z < x + 1
        <5>1. c[1] + o = x + 1
          <6> QED BY <1>20, <3>2
        <5> QED BY <2>4, <2>5, <5>1
      <4>2. z # x
        BY <1>10, <2>2, <2>4
      <4> QED BY <1>5, <4>1, <4>2
    <3> QED BY <1>2, <3>1, <3>2
  <2>7. Head(lines[j]) = LastOfLine(j, x, e) - 1 /\ LastOfLine(j, x, e) - 1 >= x
    BY <1>5, <1>12, <1>19, <2>2
  <2>8. z \in Int
    BY <2>4
  <2>9. LastOfLine(j, x, e) \in Int
    BY <1>19
  <2> QED BY <1>5, <2>1, <2>6, <2>7, <2>8, <2>9
<1>16. ASSUME NEW j \in 1..K, NEW i \in 1..K, i < j PROVE Last(lines[i]) < Head(lines[j])
  <2>0. j # 1
    BY <1>10, <1>16
  <2>1. Last(lines[i]) = LastOfLine(i, x, e) /\ Head(lines[j]) = LastOfLine(j, x, e) - 1
    BY <1>12, <2>0
  <2>2. LastOfLine(i, x, e) < LastOfLine(j, x, e) - 1
    BY <1>5, <1>10, <1>16, <1>19
  <2> QED BY <2>1, <2>2
<1>17. ASSUME NEW p \in Lines, NEW k \in (o + 1)..L, c[k] = 2 * p
       PROVE  WholeLine(p) \in Range(lines) \/ Skipped(p)
  <2>1. PICK i : i = k - s
    OBVIOUS
  <2>2. i \in 1..m /\ k = s + i
    BY <1>3, <1>5, <2>1
  <2>3. 2 * p = x + (i - 1) /\ p \in Nat
    BY <1>8, <1>17, <2>2, TailerAssumption DEF Lines
  <2>4. PICK q : q = (i - e) \div 2 + 1
    OBVIOUS
  <2>5. q \in 1..K /\ i = e + 2 * q - 2
    <3>1. (e = 1 /\ x % 2 = 0) \/ (e = 2 /\ x % 2 = 1)
      BY <1>5, <1>10 DEF Newline
    <3> QED BY <1>5, <1>10, <2>2, <2>3, <2>4, <3>1
  <2>6. LastOfLine(q, x, e) = 2 * p
    <3>1. LastOfLine(q, x, e) = x + (e + 2 * q - 3)
      BY <1>19, <2>5
    <3>2. e + 2 * q - 3 = i - 1
      BY <1>10, <2>5
    <3> QED BY <2>3, <3>1, <3>2
  <2>7. CASE q = 1 /\ e = 1
    <3>1. 2 * p = x
      BY <1>5, <1>19, <2>5, <2>6, <2>7
    <3> QED BY <1>13, <2>7, <3>1 DEF Skipped
  <2>8. CASE ~(q = 1 /\ e = 1)
    <3>1. PICK r \in Lines : lines[q] = WholeLine(r) /\ LastOfLine(q, x, e) = 2 * r
      BY <1>12, <2>5, <2>8
    <3>2. r = p
      BY <2>3, <2>6, <3>1, TailerAssumption DEF Lines
    <3> QED BY <1>11, <2>5, <3>1, <3>2 DEF Range
  <2> QED BY <2>7, <2>8
<1>18. \/ Rest(Data) = <<>> /\ Newline(c[L])
       \/ Rest(Data) = <<c[L]>> /\ ~Newline(c[L])
  <2>1. Rest(data) = IF e + 2 * K - 2 = m \/ m = 0 THEN <<>> ELSE <<x + (m - 1)>>
    <3>1. Rest(data) = RestOfRun(m, x, e, K)
      BY <1>5, <1>6, <1>9, RunIsSplit
    <3> QED BY <3>1 DEF RestOfRun
  <2>2. c[L] = x + (m - 1)
    <3>1. m \in 1..m /\ s + m = L
      BY <1>5
    <3> QED BY <1>8, <3>1
  <2>3. CASE e + 2 * K - 2 = m
    <3>0. K \in 1..K
      BY <1>5, <1>10, <2>3
    <3>1. Newline(LastOfLine(K, x, e)) /\ LastOfLine(K, x, e) = c[L]
      <4>1. LastOfLine(K, x, e) = x + (e + 2 * K - 3) /\ Newline(LastOfLine(K, x, e))
        BY <1>12, <1>19, <3>0
      <4>2. e + 2 * K - 3 = m - 1
        BY <1>5, <1>10, <2>3
      <4> QED BY <2>2, <4>1, <4>2
    <3> QED BY <1>4, <2>1, <2>3, <3>1
  <2>4. CASE e + 2 * K - 2 = m - 1
    <3>1. (e = 1 /\ x % 2 = 0) \/ (e = 2 /\ x % 2 = 1)
      BY <1>5, <1>10 DEF Newline
    <3>2. c[L] % 2 = 1
      BY <1>5, <1>10, <2>2, <2>4, <3>1
    <3>3. ~(e + 2 * K - 2 = m \/ m = 0)
      BY <1>5, <2>4
    <3> QED BY <1>4, <2>1, <2>2, <3>2, <3>3 DEF Newline
  <2> QED BY <1>10, <2>3, <2>4
<1> QED BY <1>1, <1>11, <1>14, <1>15, <1>16, <1>17, <1>18

\* A half line is no line, and all of it remains.
LEMMA HalfLineRemains ==
  ASSUME NEW data \in Seq(Bytes), \A i \in DOMAIN data : ~Newline(data[i])
  PROVE  LinesOf(data) = <<>> /\ Rest(data) = data
<1>1. Ends(data) = {}
  BY DEF Ends
<1>2. Cardinality(Ends(data)) = 0
  BY <1>1, FS_EmptySet
<1>3. LinesOf(data) = <<>>
  <2>1. DOMAIN LinesOf(data) = 1..0
    BY <1>2 DEF LinesOf
  <2>2. LinesOf(data) \in Seq(Seq(Bytes))
    BY PiecesAreBytes
  <2>3. Len(LinesOf(data)) = 0
    BY <2>1, <2>2, LenProperties
  <2> QED BY <2>2, <2>3, EmptySeq
<1>4. Rest(data) = SubSeq(data, 1, Len(data))
  BY <1>2 DEF Rest, End
<1>5. SubSeq(data, 1, Len(data)) = data
  OBVIOUS
<1> QED BY <1>3, <1>4, <1>5

\* Every element of s \o t is one of s or one of t.
LEMMA ConcatElements ==
  ASSUME NEW T, NEW s \in Seq(T), NEW t \in Seq(T), NEW i \in DOMAIN (s \o t)
  PROVE  \/ i \in DOMAIN s /\ (s \o t)[i] = s[i]
         \/ \E j \in DOMAIN t : i = Len(s) + j /\ (s \o t)[i] = t[j]
<1>1. PICK a, b : a = Len(s) /\ b = Len(t)
  OBVIOUS
<1>2. a \in Nat /\ b \in Nat /\ DOMAIN s = 1..a /\ DOMAIN t = 1..b
  BY <1>1, LenProperties
<1>3. /\ s \o t \in Seq(T) /\ Len(s \o t) = a + b
      /\ \A k \in 1..(a + b) : (s \o t)[k] = IF k <= a THEN s[k] ELSE t[k - a]
  BY <1>1, ConcatProperties
<1>4. i \in 1..(a + b)
  BY <1>3, LenProperties
<1>5. CASE i <= a
  BY <1>2, <1>3, <1>4, <1>5
<1>6. CASE ~(i <= a)
  <2>1. PICK j : j = i - a
    OBVIOUS
  <2>2. j \in 1..b /\ i = a + j /\ (s \o t)[i] = t[j]
    BY <1>2, <1>3, <1>4, <1>6, <2>1
  <2> QED BY <1>1, <1>2, <2>2
<1> QED BY <1>5, <1>6

\* Types, whichever file is read.
LEMMA ReadTypes ==
  ASSUME TailerInv, Read
  PROVE  /\ UNCHANGED <<fileVars, initialized, topicVars, skipped, cut, faults>>
         /\ pc = "read" /\ batch = <<>> /\ batch' = LinesOf(Data) /\ collected' = collected \o LinesOf(Data)
         /\ LinesOf(Data) \in Seq(Seq(Bytes)) /\ Data \in Seq(Bytes) /\ collected \in Seq(Seq(Bytes))
         /\ collected' \in Seq(Seq(Bytes)) /\ initialized
         /\ state' \in [inode : -1..files, offset : Nat, buf : Seq(Bytes)]
         /\ state'.inode = state.inode /\ state'.offset = state.offset + Len(Chunk) /\ state'.buf = Rest(Data)
         /\ pc' \in {"sync", "publish"} /\ (pc' = "publish" <=> batch' # <<>>)
         /\ raced' \in BOOLEAN
         /\ raced' = (raced \/ (Chunk # <<>> /\ (name # state.inode \/ (cut /\ state.offset > 0))))
<1>1. /\ UNCHANGED <<fileVars, initialized, topicVars, skipped, cut, faults>> /\ pc = "read"
      /\ batch' = LinesOf(Data) /\ collected' = collected \o LinesOf(Data)
      /\ state' = [state EXCEPT !.offset = @ + Len(Chunk), !.buf = Rest(Data)]
      /\ pc' = IF LinesOf(Data) = <<>> THEN "sync" ELSE "publish"
      /\ raced' = (raced \/ (Chunk # <<>> /\ (name # state.inode \/ (cut /\ state.offset > 0))))
  BY DEF Read, Data, Chunk
<1>2. Data \in Seq(Bytes) /\ Len(Chunk) \in Nat
  BY ChunkFacts DEF TailerInv
<1>3. LinesOf(Data) \in Seq(Seq(Bytes)) /\ Rest(Data) \in Seq(Bytes)
  BY <1>2, PiecesAreBytes
<1>4. /\ state \in [inode : -1..files, offset : Nat, buf : Seq(Bytes)] /\ collected \in Seq(Seq(Bytes))
      /\ batch = <<>> /\ initialized /\ raced \in BOOLEAN
  BY <1>1 DEF TailerInv, TypeOK, PollsInOrder
<1>5. collected' \in Seq(Seq(Bytes))
  BY <1>1, <1>3, <1>4, ConcatProperties
<1>6. PICK o, b : o = state.offset + Len(Chunk) /\ b = Rest(Data)
  OBVIOUS
<1>7. state' = [state EXCEPT !.offset = o, !.buf = b] /\ o \in Nat /\ b \in Seq(Bytes)
  BY <1>1, <1>2, <1>3, <1>4, <1>6
<1>8. /\ state' \in [inode : -1..files, offset : Nat, buf : Seq(Bytes)]
      /\ state'.inode = state.inode /\ state'.offset = o /\ state'.buf = b
  BY <1>4, <1>7
<1>9. pc' \in {"sync", "publish"} /\ (pc' = "publish" <=> batch' # <<>>)
  BY <1>1
<1>10. raced' \in BOOLEAN
  BY <1>1
<1> QED BY <1>1, <1>2, <1>3, <1>4, <1>5, <1>6, <1>8, <1>9, <1>10

\* A poll that finds nothing changes nothing, unless it raced before.
LEMMA ReadNothing ==
  ASSUME TailerInv, Chunk = <<>>, ~raced
  PROVE  LinesOf(Data) = <<>> /\ Rest(Data) = state.buf
<1>1. state.buf \in Seq(Bytes)
  BY DEF TailerInv, TypeOK
<1>2. Data = state.buf
  BY <1>1, ConcatEmptySeq DEF Data
<1>3. \A i \in DOMAIN state.buf : ~Newline(state.buf[i])
  <2>1. state.buf = <<>> \/ \E b \in Bytes : state.buf = <<b>> /\ ~Newline(b)
    BY DEF TailerInv, BufferIsHalfLine
  <2>2. CASE state.buf = <<>>
    BY <2>2, EmptySeq
  <2>3. ASSUME NEW b \in Bytes, state.buf = <<b>>, ~Newline(b)
        PROVE  \A i \in DOMAIN state.buf : ~Newline(state.buf[i])
    <3>1. DOMAIN <<b>> = {1} /\ <<b>>[1] = b
      OBVIOUS
    <3> QED BY <2>3, <3>1
  <2> QED BY <2>1, <2>2, <2>3
<1> QED BY <1>1, <1>2, <1>3, HalfLineRemains

\* What C1 reads goes on where it was, in a file that is still the one it follows.
LEMMA ReadMore ==
  ASSUME TailerInv, Read, Chunk # <<>>, ~raced'
  PROVE  TailerInv'
<1>1. /\ UNCHANGED <<fileVars, initialized, topicVars, skipped, cut, faults>>
      /\ pc = "read" /\ batch = <<>> /\ batch' = LinesOf(Data) /\ collected' = collected \o LinesOf(Data)
      /\ LinesOf(Data) \in Seq(Seq(Bytes)) /\ Data \in Seq(Bytes) /\ collected \in Seq(Seq(Bytes))
      /\ collected' \in Seq(Seq(Bytes)) /\ initialized
      /\ state' \in [inode : -1..files, offset : Nat, buf : Seq(Bytes)]
      /\ state'.inode = state.inode /\ state'.offset = state.offset + Len(Chunk) /\ state'.buf = Rest(Data)
      /\ pc' \in {"sync", "publish"} /\ (pc' = "publish" <=> batch' # <<>>)
      /\ raced' \in BOOLEAN
      /\ raced' = (raced \/ (Chunk # <<>> /\ (name # state.inode \/ (cut /\ state.offset > 0))))
  BY ReadTypes
<1> USE DEF fileVars, topicVars
<1>2. ~raced /\ name = state.inode /\ ~(cut /\ state.offset > 0)
  BY <1>1
<1>3. PICK o, c, L, lines : o = state.offset /\ c = content[name] /\ L = Len(c) /\ lines = LinesOf(Data)
  OBVIOUS
<1>4. /\ name \in 1..MaxFiles /\ name # NoFile /\ c \in Seq(Bytes) /\ o < L /\ Len(Chunk) = L - o
      /\ o \in Nat /\ L \in Nat /\ L > 0 /\ DOMAIN c = 1..L
  <2>1. TypeOK /\ state.offset \in Nat
    BY DEF TailerInv, TypeOK
  <2>2. /\ name \in 1..MaxFiles /\ name # NoFile /\ c \in Seq(Bytes) /\ o < L /\ Len(Chunk) = L - o /\ o \in Nat
    BY <1>3, <2>1, ChunkFacts
  <2> QED BY <1>3, <2>2, LenProperties
<1>5. /\ \A j \in DOMAIN lines :
            /\ lines[j] # <<>> /\ Newline(Last(lines[j])) /\ Last(lines[j]) \in 1..written
            /\ \/ \E p \in Lines : lines[j] = WholeLine(p)
               \/ j = 1 /\ collected = <<>> /\ ~ReadExisting /\ Len(lines[j]) = 1
            /\ \A i \in DOMAIN collected : Last(collected[i]) < Head(lines[j])
            /\ \A i \in DOMAIN lines : i < j => Last(lines[i]) < Head(lines[j])
      /\ \A p \in Lines, k \in (o + 1)..L :
            c[k] = 2 * p => WholeLine(p) \in Range(lines) \/ Skipped(p)
      /\ \/ Rest(Data) = <<>> /\ Newline(c[L])
         \/ Rest(Data) = <<c[L]>> /\ ~Newline(c[L])
  BY <1>2, <1>3, LinesOfPoll
<1>6. state'.offset = L /\ state'.buf = Rest(Data) /\ state'.inode = name /\ content'[name'] = c /\ name' = name
  <2>1. state'.offset = o + Len(Chunk) /\ state'.buf = Rest(Data) /\ state'.inode = name
    BY <1>1, <1>2, <1>3
  <2>2. UNCHANGED <<content, name>>
    BY <1>1
  <2>3. o + Len(Chunk) = L
    BY <1>4
  <2> QED BY <1>3, <2>1, <2>2, <2>3
<1>7. c[L] \in Bytes /\ L \in 1..L
  BY <1>3, <1>4, ElementOfSeq
<1>8. Settled /\ ~Misled /\ Settled' /\ Resume' = L
  <2>1. Settled
    BY <1>2, <1>3, <1>4 DEF Settled
  <2>2. ~Misled
    BY <1>2 DEF Misled
  <2>3. L <= L
    BY <1>4
  <2>4. Settled'
    BY <1>3, <1>4, <1>6, <2>3 DEF Settled
  <2> QED BY <1>6, <2>1, <2>2, <2>4 DEF Resume
<1>9. /\ \A i \in DOMAIN collected :
            collected[i] # <<>> /\ Newline(Last(collected[i])) /\ Last(collected[i]) \in 1..written
      /\ LinesAreWhole /\ CollectedInOrder /\ NonePassedOver
  BY <1>2 DEF TailerInv, CollectedIsBehind, LinesAreTheLog
\* Where an element of what was collected comes from.
<1>10. \A i \in DOMAIN collected' :
          \/ i \in DOMAIN collected /\ collected'[i] = collected[i]
          \/ \E j \in DOMAIN lines : i = Len(collected) + j /\ collected'[i] = lines[j]
  <2>1. PICK q : q = collected
    OBVIOUS
  <2>2. q \in Seq(Seq(Bytes)) /\ lines \in Seq(Seq(Bytes)) /\ collected' = q \o lines
    BY <1>1, <1>3, <2>1
  <2>3. \A i \in DOMAIN (q \o lines) :
           \/ i \in DOMAIN q /\ (q \o lines)[i] = q[i]
           \/ \E j \in DOMAIN lines : i = Len(q) + j /\ (q \o lines)[i] = lines[j]
    BY <2>2, ConcatElements
  <2> QED BY <2>1, <2>2, <2>3
<1>11. BufferIsHalfLine'
  <2>1. state'.offset # 0
    BY <1>4, <1>6
  <2>2. state'.buf = <<>> \/ \E b \in Bytes : state'.buf = <<b>> /\ ~Newline(b)
    BY <1>5, <1>6, <1>7
  <2>3. \/ Newline(c[L]) /\ state'.buf = <<>>
        \/ ~Newline(c[L]) /\ state'.buf = <<c[L]>>
    BY <1>5, <1>6
  <2> QED BY <1>6, <2>1, <2>2, <2>3 DEF BufferIsHalfLine
<1>12. CollectedIsBehind'
  <2>1. \A i \in DOMAIN collected' :
           collected'[i] # <<>> /\ Newline(Last(collected'[i])) /\ Last(collected'[i]) \in 1..written
    BY <1>5, <1>9, <1>10
  <2>2. ASSUME NEW k \in (Resume' + 1)..Len(content'[name']) PROVE FALSE
    BY <1>3, <1>4, <1>6, <1>8, <2>2
  <2> QED BY <1>1, <2>1, <2>2 DEF CollectedIsBehind
<1>13. LinesAreWhole'
  <2> SUFFICES ASSUME NEW i \in DOMAIN collected'
               PROVE  \/ \E n \in Lines : collected'[i] = WholeLine(n)
                      \/ i = 1 /\ ~ReadExisting /\ Len(collected'[i]) = 1
    BY DEF LinesAreWhole
  <2>1. CASE i \in DOMAIN collected /\ collected'[i] = collected[i]
    BY <1>2, <1>9, <2>1 DEF LinesAreWhole
  <2>2. ASSUME NEW j \in DOMAIN lines, i = Len(collected) + j, collected'[i] = lines[j]
        PROVE  \/ \E n \in Lines : collected'[i] = WholeLine(n)
               \/ i = 1 /\ ~ReadExisting /\ Len(collected'[i]) = 1
    <3>1. CASE \E p \in Lines : lines[j] = WholeLine(p)
      BY <2>2, <3>1
    <3>2. CASE j = 1 /\ collected = <<>> /\ ~ReadExisting /\ Len(lines[j]) = 1
      <4>1. Len(collected) = 0
        BY <3>2, EmptySeq
      <4> QED BY <2>2, <3>2, <4>1
    <3> QED BY <1>5, <3>1, <3>2
  <2> QED BY <1>10, <2>1, <2>2
<1>14. CollectedInOrder'
  <2> SUFFICES ASSUME NEW i \in DOMAIN collected', NEW j \in DOMAIN collected', i < j
               PROVE  Last(collected'[i]) < Head(collected'[j])
    BY DEF CollectedInOrder
  <2>0. /\ Len(collected) \in Nat /\ DOMAIN collected = 1..Len(collected)
        /\ \A k \in DOMAIN lines : k \in Nat \ {0}
    <3>1. Len(collected) \in Nat /\ DOMAIN collected = 1..Len(collected)
      BY <1>1, LenProperties
    <3>2. DOMAIN lines = 1..Len(lines) /\ Len(lines) \in Nat
      BY <1>1, <1>3, LenProperties
    <3> QED BY <3>1, <3>2
  <2>1. CASE j \in DOMAIN collected /\ collected'[j] = collected[j]
    <3>1. i \in DOMAIN collected /\ collected'[i] = collected[i]
      <4>1. ASSUME NEW k \in DOMAIN lines PROVE i # Len(collected) + k
        BY <2>0, <2>1
      <4> QED BY <1>10, <4>1
    <3> QED BY <1>2, <1>9, <2>1, <3>1 DEF CollectedInOrder
  <2>2. ASSUME NEW k \in DOMAIN lines, j = Len(collected) + k, collected'[j] = lines[k]
        PROVE  Last(collected'[i]) < Head(collected'[j])
    <3>1. CASE i \in DOMAIN collected /\ collected'[i] = collected[i]
      BY <1>5, <2>2, <3>1
    <3>2. ASSUME NEW h \in DOMAIN lines, i = Len(collected) + h, collected'[i] = lines[h]
          PROVE  Last(collected'[i]) < Head(collected'[j])
      <4>1. h < k
        BY <2>0, <2>2, <3>2
      <4> QED BY <1>5, <2>2, <3>2, <4>1
    <3> QED BY <1>10, <3>1, <3>2
  <2> QED BY <1>10, <2>1, <2>2
<1>15. NonePassedOver'
  <2> SUFFICES ASSUME NEW n \in Lines, NEW k \in 1..L, c[k] = 2 * n
               PROVE  WholeLine(n) \in stored \cup lost \cup Range(batch') \/ Skipped(n)
    BY <1>1, <1>6 DEF NonePassedOver, Skipped
  <2>1. CASE k \in 1..o
    <3>1. WholeLine(n) \in stored \cup lost \cup Range(batch) \/ Skipped(n)
      BY <1>2, <1>3, <1>8, <1>9, <2>1 DEF NonePassedOver
    <3>2. Range(batch) = {}
      BY <1>1, EmptySeq DEF Range
    <3> QED BY <3>1, <3>2
  <2>2. CASE k \in (o + 1)..L
    BY <1>1, <1>3, <1>5, <2>2
  <2>3. k \in 1..o \/ k \in (o + 1)..L
    BY <1>4
  <2> QED BY <2>1, <2>2, <2>3
<1>16. TypeOK'
  <2>1. Len(state'.buf) <= 1 /\ Range(state'.buf) \cap {b \in Bytes : Newline(b)} = {}
    <3>1. CASE Rest(Data) = <<>>
      BY <1>6, <3>1, EmptySeq DEF Range
    <3>2. CASE Rest(Data) = <<c[L]>> /\ ~Newline(c[L])
      <4>1. Len(<<c[L]>>) = 1 /\ Range(<<c[L]>>) = {c[L]}
        BY DEF Range
      <4> QED BY <1>6, <3>2, <4>1
    <3> QED BY <1>5, <3>1, <3>2
  <2> QED BY <1>1, <2>1 DEF TailerInv, TypeOK
<1>17. PollsInOrder'
  BY <1>1, <1>8 DEF PollsInOrder
<1>18. FilesAreRuns'
  BY <1>1, FilesAreKept
<1> QED BY <1>1, <1>11, <1>12, <1>13, <1>14, <1>15, <1>16, <1>17, <1>18 DEF TailerInv, LinesAreTheLog

\* All that Read may do.
LEMMA ReadStep ==
  ASSUME TailerInv, Read
  PROVE  TailerInv'
<1>1. /\ UNCHANGED <<fileVars, initialized, topicVars, skipped, cut, faults>>
      /\ pc = "read" /\ batch = <<>> /\ batch' = LinesOf(Data) /\ collected' = collected \o LinesOf(Data)
      /\ LinesOf(Data) \in Seq(Seq(Bytes)) /\ Data \in Seq(Bytes) /\ collected \in Seq(Seq(Bytes))
      /\ collected' \in Seq(Seq(Bytes)) /\ initialized
      /\ state' \in [inode : -1..files, offset : Nat, buf : Seq(Bytes)]
      /\ state'.inode = state.inode /\ state'.offset = state.offset + Len(Chunk) /\ state'.buf = Rest(Data)
      /\ pc' \in {"sync", "publish"} /\ (pc' = "publish" <=> batch' # <<>>)
      /\ raced' \in BOOLEAN
      /\ raced' = (raced \/ (Chunk # <<>> /\ (name # state.inode \/ (cut /\ state.offset > 0))))
  BY ReadTypes
<1> USE DEF fileVars, topicVars
<1>2. FilesAreRuns'
  BY <1>1, FilesAreKept
<1>3. CASE raced'
  <2>1. TypeOK'
    BY <1>1, <1>3 DEF TailerInv, TypeOK
  <2>2. PollsInOrder'
    <3>1. Chunk = <<>> => state'.offset = state.offset
      <4>1. state.offset \in Nat
        BY DEF TailerInv, TypeOK
      <4> QED BY <1>1, <4>1, EmptySeq
    <3>2. Chunk # <<>> => (state'.inode = name => Settled')
      <4> SUFFICES ASSUME Chunk # <<>>, state'.inode = name PROVE Settled'
        OBVIOUS
      <4>1. /\ name # NoFile /\ state.offset < Len(content[name]) /\ Len(Chunk) = Len(content[name]) - state.offset
            /\ state.offset \in Nat /\ content[name] \in Seq(Bytes)
        BY ChunkFacts DEF TailerInv, TypeOK
      <4>2. Len(content[name]) \in Nat
        BY <4>1, LenProperties
      <4>3. state'.offset = Len(content[name])
        <5>1. PICK o, L, a : o = state.offset /\ L = Len(content[name]) /\ a = Len(Chunk)
          OBVIOUS
        <5>2. o \in Nat /\ L \in Nat /\ a = L - o /\ state'.offset = o + a
          BY <1>1, <4>1, <4>2, <5>1
        <5> QED BY <5>1, <5>2
      <4> QED BY <1>1, <4>1, <4>2, <4>3 DEF Settled
    <3>3. state'.inode = name' /\ name' # NoFile /\ ~Settled' => cut'
      <4>1. CASE Chunk = <<>>
        BY <1>1, <3>1, <4>1 DEF TailerInv, PollsInOrder, Settled
      <4>2. CASE Chunk # <<>>
        BY <1>1, <3>2, <4>2
      <4> QED BY <4>1, <4>2
    <3> QED BY <1>1, <3>3 DEF PollsInOrder
  <2>3. LinesAreTheLog'
    BY <1>3 DEF LinesAreTheLog, LinesAreWhole, CollectedInOrder, NonePassedOver
  <2> QED BY <1>1, <1>2, <1>3, <2>1, <2>2, <2>3 DEF TailerInv
<1>4. CASE Chunk = <<>> /\ ~raced'
  <2>1. ~raced /\ LinesOf(Data) = <<>> /\ Rest(Data) = state.buf
    BY <1>1, <1>4, ReadNothing
  <2>2. collected' = collected /\ batch' = batch /\ pc' = "sync"
    <3>1. collected' = collected
      BY <1>1, <2>1, ConcatEmptySeq
    <3> QED BY <1>1, <2>1, <3>1
  <2>3. state \in [inode : -1..files, offset : Nat, buf : Seq(Bytes)]
    BY DEF TailerInv, TypeOK
  <2>4. state'.offset = state.offset /\ state'.buf = state.buf
    BY <1>1, <1>4, <2>1, <2>3, EmptySeq
  <2>5. state' = state
    <3>1. state = [inode |-> state.inode, offset |-> state.offset, buf |-> state.buf]
      BY <2>3
    <3>2. state' = [inode |-> state'.inode, offset |-> state'.offset, buf |-> state'.buf]
      BY <1>1
    <3> QED BY <1>1, <2>4, <3>1, <3>2
  <2>6. raced' = raced
    BY <1>1, <1>4 DEF TailerInv, TypeOK
  <2>7. TypeOK'
    BY <1>1, <2>2, <2>5, <2>6 DEF TailerInv, TypeOK
  <2>8. PollsInOrder'
    BY <1>1, <2>2, <2>5 DEF TailerInv, PollsInOrder, Settled
  <2>9. BufferIsHalfLine' /\ CollectedIsBehind'
    BY <1>1, <2>1, <2>2, <2>5 DEF TailerInv, BufferIsHalfLine, CollectedIsBehind, Resume, Settled, Misled
  <2>10. LinesAreWhole' /\ CollectedInOrder'
    BY <2>2, <2>6 DEF TailerInv, LinesAreTheLog, LinesAreWhole, CollectedInOrder
  <2>11. NonePassedOver'
    BY <1>1, <2>2, <2>5, <2>6 DEF TailerInv, LinesAreTheLog, NonePassedOver, Settled, Misled, Skipped
  <2> QED BY <1>1, <1>2, <2>7, <2>8, <2>9, <2>10, <2>11 DEF TailerInv, LinesAreTheLog
<1>5. CASE Chunk # <<>> /\ ~raced'
  BY <1>5, ReadMore
<1> QED BY <1>3, <1>4, <1>5

-----------------------------------------------------------------------------
(* The theorems of the tailer.                                             *)

\* Initially the invariant holds.
LEMMA TailerStart ==
  ASSUME Init
  PROVE  TailerInv
<1>1. /\ content = [i \in 1..MaxFiles |-> <<>>] /\ files = 1 /\ name = 1 /\ fd = 1 /\ written = 0 /\ cuts = 0
      /\ pc = "sync" /\ initialized = FALSE /\ state = NotTracked /\ batch = <<>>
      /\ collected = <<>> /\ skipped = 0 /\ cut = FALSE /\ raced = FALSE /\ faults = 0
  BY DEF Init
<1>2. MaxFiles \in Nat /\ 1 \in 1..MaxFiles /\ MaxBytes \in Nat /\ MaxCuts \in Nat /\ MaxFaults \in Nat
  BY TailerAssumption
<1>3. /\ NotTracked \in [inode : -1..files, offset : Nat, buf : Seq(Bytes)]
      /\ NotTracked.offset = 0 /\ NotTracked.buf = <<>> /\ NotTracked.inode = -1
  BY <1>1, EmptySeq DEF NotTracked
<1>4. DOMAIN <<>> = {} /\ \A T : <<>> \in Seq(T) /\ Len(<<>>) = 0
  BY EmptySeq
<1>5. content \in [1..MaxFiles -> Seq(Bytes)] /\ \A i \in 1..MaxFiles : content[i] = <<>>
  BY <1>1, <1>4
<1>6. TypeOK
  <2>1. Len(state.buf) <= 1 /\ Range(state.buf) \cap {b \in Bytes : Newline(b)} = {}
    BY <1>1, <1>3, <1>4 DEF Range
  <2>2. /\ files \in 1..MaxFiles /\ name \in 0..files /\ fd \in 1..files
        /\ written \in 0..MaxBytes /\ cuts \in 0..MaxCuts /\ skipped \in 0..written /\ faults \in 0..MaxFaults
    BY <1>1, <1>2
  <2>3. pc # "publish" /\ batch = <<>> /\ initialized \in BOOLEAN /\ cut \in BOOLEAN /\ raced \in BOOLEAN
    BY <1>1
  <2>4. state \in [inode : -1..files, offset : Nat, buf : Seq(Bytes)]
    BY <1>1, <1>3
  <2>5. pc \in {"sync", "track", "stat", "read", "publish"}
    BY <1>1
  <2> QED BY <1>5, <2>1, <2>2, <2>3, <2>4, <2>5 DEF TypeOK
<1>7. FilesAreRuns
  <2>1. ~Newline(written + 1)
    BY <1>1 DEF Newline
  <2> QED BY <1>1, <1>2, <1>4, <1>5, <2>1 DEF FilesAreRuns, NoFile
<1>8. ~Settled /\ state.inode # name
  BY <1>1, <1>3 DEF Settled
<1>9. PollsInOrder
  BY <1>1, <1>8 DEF PollsInOrder
<1>10. DOMAIN collected = {} /\ collected \in Seq(Seq(Bytes))
  BY <1>1, <1>4
<1>11. BufferIsHalfLine /\ CollectedIsBehind
  BY <1>1, <1>3, <1>8, <1>10 DEF BufferIsHalfLine, CollectedIsBehind
<1>12. LinesAreTheLog
  BY <1>8, <1>10 DEF LinesAreTheLog, LinesAreWhole, CollectedInOrder, NonePassedOver
<1> QED BY <1>6, <1>7, <1>9, <1>10, <1>11, <1>12 DEF TailerInv

\* Every step keeps the invariant.
LEMMA TailerStep == TailerInv /\ [Next]_vars => TailerInv'
<1> SUFFICES ASSUME TailerInv, [Next]_vars PROVE TailerInv'
  OBVIOUS
<1>1. CASE Write
  BY <1>1, WriteStep
<1>2. CASE Rename
  BY <1>2, RenameStep
<1>3. CASE Create
  BY <1>3, CreateStep
<1>4. CASE Reopen
  BY <1>4, ReopenStep
<1>5. CASE Truncate
  BY <1>5, TruncateStep
<1>6. CASE Sync
  BY <1>6, SyncStep
<1>7. CASE Track
  BY <1>7, TrackStep
<1>8. CASE Stat
  BY <1>8, StatStep
<1>9. CASE Read
  BY <1>9, ReadStep
<1>10. CASE Publish
  BY <1>10, PublishStep
<1>11. CASE Restart
  BY <1>11, RestartStep
<1>12. CASE UNCHANGED vars
  <2> USE <1>12 DEF vars, fileVars, topicVars
  <2>1. TypeOK' /\ FilesAreRuns' /\ PollsInOrder' /\ collected' \in Seq(Seq(Bytes))
    BY DEF TailerInv, TypeOK, FilesAreRuns, PollsInOrder, Settled
  <2>2. ~raced' => BufferIsHalfLine' /\ CollectedIsBehind'
    BY DEF TailerInv, BufferIsHalfLine, CollectedIsBehind, Resume, Settled, Misled
  <2>3. LinesAreTheLog'
    BY DEF TailerInv, LinesAreTheLog, LinesAreWhole, CollectedInOrder, NonePassedOver, Settled, Misled, Skipped
  <2> QED BY <2>1, <2>2, <2>3 DEF TailerInv
<1> QED BY <1>1, <1>2, <1>3, <1>4, <1>5, <1>6, <1>7, <1>8, <1>9, <1>10, <1>11, <1>12 DEF Next

\* In every reachable state the files hold consecutive bytes, the buffer the half line
\* before the offset, and what was collected lies before what remains to be read.
THEOREM TailerInvariant == Spec => []TailerInv
BY TailerStart, TailerStep, PTL DEF Spec

\* Types; C1 keeps at most the text of one line between two polls (tailer.py, _split_lines).
THEOREM TypeCorrect == Spec => []TypeOK
<1>1. TailerInv => TypeOK
  BY DEF TailerInv
<1> QED BY <1>1, TailerInvariant, PTL

\* C1 collects whole lines only, none twice and none out of order, and passes over no line
\* of the file it follows: whatever is written, rotated or truncated between the system
\* calls of a poll, unless the file is replaced between stat and open, or truncated and
\* filled again past the offset (tailer.py, LogTailer.poll).
THEOREM LinesAreCollected == Spec => []LinesAreTheLog
<1>1. TailerInv => LinesAreTheLog
  BY DEF TailerInv
<1> QED BY <1>1, TailerInvariant, PTL

-----------------------------------------------------------------------------
(* The scope client, from here on.                                         *)

USE ScopeAssumption

-----------------------------------------------------------------------------
(* The inductive invariant of the scope client.                            *)

\* Real time is never less than a clock may be set back, so that clocks show naturals.
ClocksShowNaturals == now >= MaxBehind

\* The history of the allowlist: a domain is in or out of scope now, and was at lastIn and
\* at lastOut.
HistoryIsRight ==
  \A d \in Domains :
    /\ row[d] = "enabled" => lastIn[d] = now
    /\ row[d] # "enabled" => lastOut[d] = now
    /\ lastIn[d] <= now /\ 0 <= lastOut[d] /\ lastOut[d] <= now
    /\ \A c \in Clients : lastFail[c][d] <= now

\* A call under way began at sentAt, no longer ago than its time-out, by a clock that shows
\* no more than real time; and the answer on its way was true at some time since.
CallsAreYoung ==
  \A c \in Clients : phase[c] # "idle" =>
    /\ askedAt[c] <= sentAt[c] /\ sentAt[c] <= now /\ now <= sentAt[c] + Timeout
    /\ phase[c] = "answered" =>
         IF answer[c] THEN sentAt[c] <= lastIn[target[c]] ELSE sentAt[c] <= lastOut[target[c]]

\* An entry expires a TTL after an instant at which it was true, or a failure TTL after a
\* failed call.
EntryExpires(c, d) ==
  IF cache[c][d].allowed THEN cache[c][d].expires <= lastIn[d] + Ttl
  ELSE \/ cache[c][d].expires <= lastOut[d] + Ttl
       \/ cache[c][d].expires <= lastFail[c][d] + FailureTtl

EntriesExpire == \A c \in Clients, d \in Domains : EntryExpires(c, d)

\* What NoStaleVerdict says of the verdict of one client.
FreshVerdict(c) ==
  LET d == decision[c].domain IN
  IF decision[c].allowed THEN decision[c].at < lastIn[d] + Ttl + behind[c]
  ELSE \/ decision[c].at < lastOut[d] + Ttl + behind[c]
       \/ decision[c].at < lastFail[c][d] + FailureTtl + behind[c]

ScopeInv ==
  /\ ScopeTypeOK /\ ClocksShowNaturals /\ HistoryIsRight /\ CallsAreYoung /\ EntriesExpire
  /\ NoStaleVerdict
-----------------------------------------------------------------------------
(* Type correctness.                                                       *)

\* The types of the initial state.
LEMMA ScopeTypeInit == ScopeInit => ScopeTypeOK /\ ClocksShowNaturals
  BY DEF ScopeInit, ScopeTypeOK, ClocksShowNaturals, NoEntry, Never

\* A write to one row is well typed.
LEMMA SetRowType ==
  ASSUME ScopeTypeOK, NEW d \in Domains, NEW value \in {"absent", "enabled", "disabled"},
         SetRow(d, value)
  PROVE  /\ row' \in [Domains -> {"absent", "enabled", "disabled"}]
         /\ lastIn' \in [Domains -> Int] /\ lastOut' \in [Domains -> Int]
  BY DEF ScopeTypeOK, SetRow

\* Every step keeps the types, and real time does not run backwards.
LEMMA ScopeTypeStep ==
  ASSUME ScopeTypeOK, ClocksShowNaturals, [ScopeNext]_scopeVars
  PROVE  ScopeTypeOK' /\ ClocksShowNaturals'
<1> USE DEF ScopeTypeOK, ClocksShowNaturals, timeVars, p1Vars, callVars
<1>1. CASE UNCHANGED scopeVars
  BY <1>1 DEF scopeVars
<1>2. CASE StartP1
  BY <1>2 DEF StartP1
<1>3. CASE ServeP1
  BY <1>3 DEF ServeP1
<1>4. CASE StopP1
  BY <1>4 DEF StopP1
<1>5. CASE Tick
  BY <1>5 DEF Tick
<1>6. ASSUME NEW d \in Domains, SeedRow(d) PROVE ScopeTypeOK' /\ ClocksShowNaturals'
  <2>1. CASE row[d] = "absent"
    <3>1. SetRow(d, "enabled")
      BY <1>6, <2>1 DEF SeedRow
    <3> QED BY <1>6, <3>1, SetRowType DEF SeedRow
  <2>2. CASE row[d] # "absent"
    BY <1>6, <2>2 DEF SeedRow
  <2> QED BY <2>1, <2>2
<1>7. ASSUME NEW d \in Domains, RemoveAllowlist(d) PROVE ScopeTypeOK' /\ ClocksShowNaturals'
  BY <1>7 DEF RemoveAllowlist, SetRow
<1>8. ASSUME NEW d \in Domains, NEW e \in BOOLEAN, AddAllowlist(d, e)
      PROVE  ScopeTypeOK' /\ ClocksShowNaturals'
  BY <1>8 DEF AddAllowlist, SetRow
<1>9. ASSUME NEW c \in Clients, Check(c) PROVE ScopeTypeOK' /\ ClocksShowNaturals'
  BY <1>9 DEF Check
<1>10. ASSUME NEW c \in Clients, Receive(c) PROVE ScopeTypeOK' /\ ClocksShowNaturals'
  BY <1>10 DEF Receive, HangUp, Decide
<1>11. ASSUME NEW c \in Clients, Fail(c) PROVE ScopeTypeOK' /\ ClocksShowNaturals'
  BY <1>11 DEF Fail, HangUp, Decide
<1>12. ASSUME NEW c \in Clients, RestartClient(c) PROVE ScopeTypeOK' /\ ClocksShowNaturals'
  BY <1>12 DEF RestartClient, HangUp, NoEntry
<1>13. ASSUME NEW c \in Clients, SetBack(c) PROVE ScopeTypeOK' /\ ClocksShowNaturals'
  BY <1>13 DEF SetBack
<1>14. ASSUME NEW c \in Clients, NEW d \in Domains, CacheHit(c, d)
       PROVE  ScopeTypeOK' /\ ClocksShowNaturals'
  BY <1>14 DEF CacheHit, Decide
<1>15. ASSUME NEW c \in Clients, NEW d \in Domains, Ask(c, d)
       PROVE  ScopeTypeOK' /\ ClocksShowNaturals'
  BY <1>15 DEF Ask, WallClock
<1> QED
  BY <1>1, <1>2, <1>3, <1>4, <1>5, <1>6, <1>7, <1>8, <1>9, <1>10, <1>11, <1>12, <1>13,
     <1>14, <1>15 DEF ScopeNext

-----------------------------------------------------------------------------
(* Verdicts.                                                               *)

\* Initially every domain is out of scope and nothing is cached.
LEMMA ScopeStart == ScopeInit => ScopeInv
<1> SUFFICES ASSUME ScopeInit PROVE ScopeInv
  OBVIOUS
<1>1. ScopeTypeOK /\ ClocksShowNaturals
  BY ScopeTypeInit
<1>2. HistoryIsRight /\ CallsAreYoung /\ EntriesExpire
  BY DEF ScopeInit, HistoryIsRight, CallsAreYoung, EntriesExpire, EntryExpires, NoEntry, Never
<1>3. NoStaleVerdict
  BY DEF ScopeInit, NoStaleVerdict, NoStaleApproval, NoStaleDenial
<1> QED BY <1>1, <1>2, <1>3 DEF ScopeInv

\* NoStaleVerdict speaks of each client on its own.
LEMMA VerdictByClient ==
  /\ NoStaleVerdict <=> \A c \in Clients : FreshVerdict(c)
  /\ NoStaleVerdict' <=> \A c \in Clients : FreshVerdict(c)'
  BY DEF NoStaleVerdict, NoStaleApproval, NoStaleDenial, FreshVerdict

\* A verdict that the client does not change gets no staler: what the past says of a domain
\* is only ever brought nearer, and the clock is only ever set back.
LEMMA VerdictKept ==
  ASSUME ScopeTypeOK, ScopeTypeOK', NEW c \in Clients, FreshVerdict(c),
         decision'[c] = decision[c], behind[c] <= behind'[c],
         \A d \in Domains : lastIn[d] <= lastIn'[d] /\ lastOut[d] <= lastOut'[d],
         \A d \in Domains : lastFail[c][d] <= lastFail'[c][d]
  PROVE  FreshVerdict(c)'
<1> DEFINE d == decision[c].domain
<1>1. /\ d \in Domains /\ decision[c].at \in Nat
      /\ lastIn[d] \in Int /\ lastIn'[d] \in Int /\ lastOut[d] \in Int /\ lastOut'[d] \in Int
      /\ behind[c] \in Int /\ behind'[c] \in Int
      /\ lastFail[c][d] \in Int /\ lastFail'[c][d] \in Int
  BY DEF ScopeTypeOK
<1>2. lastIn[d] <= lastIn'[d] /\ lastOut[d] <= lastOut'[d] /\ lastFail[c][d] <= lastFail'[c][d]
  BY <1>1
<1> QED BY <1>1, <1>2 DEF FreshVerdict

\* The actions that leave the past of every domain and call alone.
PastKept == UNCHANGED <<now, row, lastIn, lastOut, lastFail>>

\* A step of P1 or of time writes rows and moves their history, and touches no client.
RowStep ==
  \/ Tick
  \/ \E d \in Domains, value \in {"absent", "enabled", "disabled"} : SetRow(d, value) /\ now' = now

\* Every step either keeps the past, or writes rows and lets time pass, or is a failed call.
LEMMA StepKinds ==
  ASSUME ScopeTypeOK, [ScopeNext]_scopeVars
  PROVE  \/ PastKept
         \/ /\ RowStep
            /\ UNCHANGED <<behind, phase, target, sentAt, askedAt, answer, cache, decision, lastFail>>
         \/ \E c \in Clients : Fail(c)
<1> USE DEF PastKept, timeVars, p1Vars, callVars
<1>1. CASE UNCHANGED scopeVars
  BY <1>1 DEF scopeVars
<1>2. CASE StartP1 \/ ServeP1 \/ StopP1
  BY <1>2 DEF StartP1, ServeP1, StopP1
<1>3. CASE Tick
  BY <1>3 DEF Tick, RowStep
<1>4. ASSUME NEW d \in Domains, SeedRow(d)
      PROVE  PastKept \/ (RowStep /\ UNCHANGED <<behind, callVars, cache, decision, lastFail>>)
  <2>1. CASE row[d] = "absent"
    BY <1>4, <2>1 DEF SeedRow, RowStep
  <2>2. CASE row[d] # "absent"
    BY <1>4, <2>2 DEF SeedRow
  <2> QED BY <2>1, <2>2
<1>5. ASSUME NEW d \in Domains, RemoveAllowlist(d)
      PROVE  RowStep /\ UNCHANGED <<behind, callVars, cache, decision, lastFail>>
  BY <1>5 DEF RemoveAllowlist, RowStep
<1>6. ASSUME NEW d \in Domains, NEW e \in BOOLEAN, AddAllowlist(d, e)
      PROVE  RowStep /\ UNCHANGED <<behind, callVars, cache, decision, lastFail>>
  BY <1>6 DEF AddAllowlist, RowStep
<1>7. ASSUME NEW c \in Clients, Check(c) \/ Receive(c) \/ RestartClient(c) \/ SetBack(c)
      PROVE  PastKept
  BY <1>7 DEF Check, Receive, RestartClient, SetBack
<1>8. ASSUME NEW c \in Clients, NEW d \in Domains, CacheHit(c, d) \/ Ask(c, d)
      PROVE  PastKept
  BY <1>8 DEF CacheHit, Ask
<1> QED BY <1>1, <1>2, <1>3, <1>4, <1>5, <1>6, <1>7, <1>8 DEF ScopeNext

\* What the history of the allowlist says is right after every step, and is never taken back.
LEMMA HistoryStep ==
  ASSUME ScopeTypeOK, ClocksShowNaturals, HistoryIsRight, [ScopeNext]_scopeVars
  PROVE  /\ HistoryIsRight'
         /\ \A d \in Domains : lastIn[d] <= lastIn'[d] /\ lastOut[d] <= lastOut'[d]
         /\ \A c \in Clients, d \in Domains : lastFail[c][d] <= lastFail'[c][d]
<1>1. CASE PastKept
  BY <1>1 DEF PastKept, HistoryIsRight, ScopeTypeOK
<1>2. CASE RowStep /\ UNCHANGED lastFail
  <2>1. CASE Tick
    BY <1>2, <2>1 DEF Tick, HistoryIsRight, ScopeTypeOK, ClocksShowNaturals, p1Vars
  <2>2. ASSUME NEW d \in Domains, NEW value \in {"absent", "enabled", "disabled"},
               SetRow(d, value), now' = now
        PROVE  /\ HistoryIsRight'
               /\ \A k \in Domains : lastIn[k] <= lastIn'[k] /\ lastOut[k] <= lastOut'[k]
    BY <1>2, <2>2 DEF SetRow, HistoryIsRight, ScopeTypeOK
  <2> QED BY <1>2, <2>1, <2>2 DEF RowStep, ScopeTypeOK
<1>3. ASSUME NEW c \in Clients, Fail(c)
      PROVE  /\ HistoryIsRight'
             /\ lastIn' = lastIn /\ lastOut' = lastOut
             /\ \A b \in Clients, d \in Domains : lastFail[b][d] <= lastFail'[b][d]
  BY <1>3 DEF Fail, HistoryIsRight, ScopeTypeOK, timeVars, p1Vars
<1> QED BY <1>1, <1>2, <1>3, StepKinds DEF ScopeTypeOK
\* A call under way stays young: time waits for its time-out, the row is read while it is
\* under way, and what the history says of the answer is not taken back.
LEMMA CallsStep ==
  ASSUME ScopeInv, ScopeTypeOK', HistoryIsRight', [ScopeNext]_scopeVars,
         \A d \in Domains : lastIn[d] <= lastIn'[d] /\ lastOut[d] <= lastOut'[d]
  PROVE  CallsAreYoung'
<1> USE DEF CallsAreYoung, timeVars, p1Vars, callVars
<1> ScopeTypeOK /\ CallsAreYoung /\ HistoryIsRight
  BY DEF ScopeInv
<1>1. CASE Tick
  BY <1>1 DEF Tick, ScopeTypeOK
<1>2. ASSUME UNCHANGED <<now, phase, target, sentAt, askedAt, answer>> PROVE CallsAreYoung'
  BY <1>2 DEF ScopeTypeOK
<1>3. ASSUME NEW c \in Clients, Check(c) PROVE CallsAreYoung'
  <2>1. ASSUME NEW b \in Clients, b # c
        PROVE  phase'[b] = phase[b] /\ answer'[b] = answer[b]
    BY <1>3, <2>1 DEF Check, ScopeTypeOK
  <2>2. UNCHANGED <<now, lastIn, lastOut, target, askedAt, sentAt, row>> /\ phase[c] = "sent"
    BY <1>3 DEF Check
  <2>3. CASE row[target[c]] = "enabled"
    <3>1. answer'[c] = TRUE
      BY <1>3, <2>3 DEF Check, ScopeTypeOK
    <3> QED BY <2>1, <2>2, <2>3, <3>1 DEF ScopeTypeOK, HistoryIsRight
  <2>4. CASE row[target[c]] # "enabled"
    <3>1. answer'[c] = FALSE
      BY <1>3, <2>4 DEF Check, ScopeTypeOK
    <3> QED BY <2>1, <2>2, <2>4, <3>1 DEF ScopeTypeOK, HistoryIsRight
  <2> QED BY <2>3, <2>4
<1>4. ASSUME NEW c \in Clients, NEW d \in Domains, Ask(c, d) PROVE CallsAreYoung'
  BY <1>4 DEF Ask, ScopeTypeOK, WallClock
<1>5. ASSUME NEW c \in Clients, HangUp(c), UNCHANGED <<now, lastIn, lastOut>>
      PROVE  CallsAreYoung'
  <2>1. ASSUME NEW b \in Clients, phase'[b] # "idle"
        PROVE  /\ b # c
               /\ phase'[b] = phase[b] /\ sentAt'[b] = sentAt[b] /\ askedAt'[b] = askedAt[b]
               /\ answer'[b] = answer[b] /\ target'[b] = target[b]
    BY <1>5, <2>1 DEF HangUp, ScopeTypeOK
  <2> QED BY <1>5, <2>1
<1> QED
  BY <1>1, <1>2, <1>3, <1>4, <1>5
  DEF ScopeNext, scopeVars, StartP1, ServeP1, StopP1, SeedRow, RemoveAllowlist, AddAllowlist, Receive,
      Fail, RestartClient, SetBack, CacheHit

\* An entry goes in with the expiry its verdict allows, and none is ever prolonged.
LEMMA EntriesStep ==
  ASSUME ScopeInv, ScopeTypeOK', HistoryIsRight', [ScopeNext]_scopeVars,
         \A d \in Domains : lastIn[d] <= lastIn'[d] /\ lastOut[d] <= lastOut'[d],
         \A c \in Clients, d \in Domains : lastFail[c][d] <= lastFail'[c][d]
  PROVE  EntriesExpire'
<1> USE DEF timeVars, p1Vars, callVars
<1> ScopeTypeOK /\ CallsAreYoung /\ HistoryIsRight /\ EntriesExpire
  BY DEF ScopeInv
<1>0. ASSUME NEW c \in Clients, NEW d \in Domains, cache'[c][d] = cache[c][d]
      PROVE  EntryExpires(c, d)'
  <2>1. EntryExpires(c, d)
    BY DEF EntriesExpire
  <2>2. /\ cache[c][d].expires \in Nat
        /\ lastIn[d] \in Int /\ lastIn'[d] \in Int /\ lastOut[d] \in Int /\ lastOut'[d] \in Int
        /\ lastFail[c][d] \in Int /\ lastFail'[c][d] \in Int
    BY DEF ScopeTypeOK
  <2>3. lastIn[d] <= lastIn'[d] /\ lastOut[d] <= lastOut'[d] /\ lastFail[c][d] <= lastFail'[c][d]
    OBVIOUS
  <2> QED BY <1>0, <2>1, <2>2, <2>3 DEF EntryExpires
<1>1. ASSUME UNCHANGED cache PROVE EntriesExpire'
  BY <1>0, <1>1 DEF EntriesExpire
<1>2. ASSUME NEW c \in Clients, Receive(c) PROVE EntriesExpire'
  <2>1. ASSUME NEW b \in Clients, NEW d \in Domains, b # c \/ d # target[c]
        PROVE  cache'[b][d] = cache[b][d]
    BY <1>2, <2>1 DEF Receive, ScopeTypeOK
  <2>2. target[c] \in Domains /\ askedAt[c] \in Nat /\ sentAt[c] \in Nat
    BY DEF ScopeTypeOK
  <2>5. cache'[c][target[c]] = [allowed |-> answer[c], expires |-> askedAt[c] + Ttl]
    <3>1. Ttl = IF Ttl > 1 THEN Ttl ELSE 1
      OBVIOUS
    <3>2. cache' = [cache EXCEPT ![c][target[c]] =
                      [allowed |-> answer[c], expires |-> askedAt[c] + Ttl]]
      BY <1>2, <3>1 DEF Receive
    <3>3. cache \in [Clients -> [Domains -> [allowed : BOOLEAN, expires : Nat]]]
      BY DEF ScopeTypeOK
    <3> QED BY <2>2, <3>2, <3>3
  <2>3. IF answer[c] THEN askedAt[c] <= lastIn'[target[c]] ELSE askedAt[c] <= lastOut'[target[c]]
    <3>1. /\ askedAt[c] <= sentAt[c]
          /\ IF answer[c] THEN sentAt[c] <= lastIn[target[c]] ELSE sentAt[c] <= lastOut[target[c]]
      BY <1>2 DEF Receive, CallsAreYoung
    <3>2. lastIn' = lastIn /\ lastOut' = lastOut
      BY <1>2 DEF Receive
    <3>3. lastIn[target[c]] \in Int /\ lastOut[target[c]] \in Int
      BY <2>2 DEF ScopeTypeOK
    <3> QED BY <2>2, <3>1, <3>2, <3>3
  <2>4. ASSUME NEW d \in Domains, d = target[c] PROVE EntryExpires(c, d)'
    <3>1. /\ lastIn'[d] \in Int /\ lastOut'[d] \in Int
          /\ cache'[c][d].allowed = answer[c]
          /\ cache'[c][d].expires = askedAt[c] + Ttl
      BY <2>4, <2>5 DEF ScopeTypeOK
    <3> QED BY <2>2, <2>3, <2>4, <3>1 DEF EntryExpires
  <2> SUFFICES ASSUME NEW b \in Clients, NEW d \in Domains PROVE EntryExpires(b, d)'
    BY DEF EntriesExpire
  <2>6. CASE b = c /\ d = target[c]
    BY <2>4, <2>6
  <2> QED BY <1>0, <2>1, <2>6
<1>3. ASSUME NEW c \in Clients, Fail(c) PROVE EntriesExpire'
  BY <1>3 DEF Fail, CallsAreYoung, ScopeTypeOK, EntriesExpire, EntryExpires
<1>4. ASSUME NEW c \in Clients, RestartClient(c) PROVE EntriesExpire'
  BY <1>4 DEF RestartClient, NoEntry, HistoryIsRight, ScopeTypeOK, EntriesExpire, EntryExpires
<1> QED
  BY <1>1, <1>2, <1>3, <1>4
  DEF ScopeNext, scopeVars, StartP1, ServeP1, StopP1, SeedRow, RemoveAllowlist, AddAllowlist, Check,
      Tick, Ask, SetBack, CacheHit

\* The steps that change a verdict or a clock.
LEMMA VerdictSteps ==
  ASSUME [ScopeNext]_scopeVars
  PROVE  \/ UNCHANGED <<behind, decision>>
         \/ \E c \in Clients : \/ Receive(c) \/ Fail(c) \/ SetBack(c)
                               \/ \E d \in Domains : CacheHit(c, d)
<1> USE DEF timeVars
<1>1. ASSUME NEW d \in Domains, NEW e \in BOOLEAN,
             SeedRow(d) \/ RemoveAllowlist(d) \/ AddAllowlist(d, e)
      PROVE  UNCHANGED <<behind, decision>>
  BY <1>1 DEF SeedRow, RemoveAllowlist, AddAllowlist
<1>2. CASE StartP1 \/ ServeP1 \/ StopP1 \/ Tick
  BY <1>2 DEF StartP1, ServeP1, StopP1, Tick
<1>3. ASSUME NEW c \in Clients, NEW d \in Domains, Check(c) \/ RestartClient(c) \/ Ask(c, d)
      PROVE  UNCHANGED <<behind, decision>>
  BY <1>3 DEF Check, RestartClient, Ask
<1>4. ASSUME NEW c \in Clients, Check(c) \/ RestartClient(c)
      PROVE  UNCHANGED <<behind, decision>>
  BY <1>4 DEF Check, RestartClient
<1>5. CASE UNCHANGED scopeVars
  BY <1>5 DEF scopeVars
<1> QED BY <1>1, <1>2, <1>3, <1>4, <1>5 DEF ScopeNext

\* A client acts on what it has just received, on a failure, or on an entry that its clock
\* has not seen expire.
LEMMA VerdictStep ==
  ASSUME ScopeInv, ScopeTypeOK', [ScopeNext]_scopeVars,
         \A d \in Domains : lastIn[d] <= lastIn'[d] /\ lastOut[d] <= lastOut'[d],
         \A c \in Clients, d \in Domains : lastFail[c][d] <= lastFail'[c][d]
  PROVE  NoStaleVerdict'
<1> USE DEF timeVars, p1Vars, callVars
<1> ScopeTypeOK /\ CallsAreYoung /\ HistoryIsRight /\ EntriesExpire /\ NoStaleVerdict
  BY DEF ScopeInv
<1> SUFFICES ASSUME NEW b \in Clients PROVE FreshVerdict(b)'
  BY VerdictByClient
<1>1. ASSUME decision'[b] = decision[b], behind[b] <= behind'[b] PROVE FreshVerdict(b)'
  BY <1>1, VerdictByClient, VerdictKept
<1>2. /\ behind[b] <= behind'[b]
      /\ \/ decision'[b] = decision[b] \/ Receive(b) \/ Fail(b)
         \/ \E d \in Domains : CacheHit(b, d)
  <2>1. ASSUME NEW c \in Clients, SetBack(c)
        PROVE  behind[b] <= behind'[b] /\ decision' = decision
    BY <2>1 DEF SetBack, ScopeTypeOK
  <2>2. ASSUME NEW c \in Clients, Receive(c) \/ Fail(c)
        PROVE  behind' = behind /\ (b # c => decision'[b] = decision[b])
    BY <2>2 DEF Receive, Fail, Decide, ScopeTypeOK
  <2>3. ASSUME NEW c \in Clients, NEW d \in Domains, CacheHit(c, d)
        PROVE  behind' = behind /\ (b # c => decision'[b] = decision[b])
    BY <2>3 DEF CacheHit, Decide, ScopeTypeOK
  <2> QED BY <2>1, <2>2, <2>3, VerdictSteps DEF ScopeTypeOK
<1>3. CASE Receive(b)
  <2>1. /\ decision'[b] = [domain |-> target[b], allowed |-> answer[b], at |-> now]
        /\ lastIn' = lastIn /\ lastOut' = lastOut /\ behind' = behind
    BY <1>3 DEF Receive, Decide, ScopeTypeOK
  <2>2. /\ now <= sentAt[b] + Timeout
        /\ IF answer[b] THEN sentAt[b] <= lastIn[target[b]] ELSE sentAt[b] <= lastOut[target[b]]
    BY <1>3 DEF Receive, CallsAreYoung
  <2> QED BY <2>1, <2>2 DEF FreshVerdict, ScopeTypeOK
<1>4. CASE Fail(b)
  BY <1>4 DEF Fail, Decide, FreshVerdict, ScopeTypeOK
<1>5. ASSUME NEW d \in Domains, CacheHit(b, d) PROVE FreshVerdict(b)'
  <2>1. /\ decision'[b] = [domain |-> d, allowed |-> cache[b][d].allowed, at |-> now]
        /\ lastIn' = lastIn /\ lastOut' = lastOut /\ lastFail' = lastFail /\ behind' = behind
    BY <1>5 DEF CacheHit, Decide, ScopeTypeOK
  <2>2. cache[b][d].expires > now - behind[b] /\ EntryExpires(b, d)
    BY <1>5 DEF CacheHit, WallClock, EntriesExpire
  <2> QED BY <2>1, <2>2 DEF FreshVerdict, EntryExpires, ScopeTypeOK
<1> QED BY <1>1, <1>2, <1>3, <1>4, <1>5
-----------------------------------------------------------------------------
(* Theorems.                                                               *)

\* ScopeTypeOK is an invariant of the scope and its clients.
THEOREM ScopeTypeCorrect == ScopeSpec => []ScopeTypeOK
<1>1. ScopeTypeOK /\ ClocksShowNaturals /\ [ScopeNext]_scopeVars => ScopeTypeOK' /\ ClocksShowNaturals'
  BY ScopeTypeStep
<1> QED BY <1>1, ScopeTypeInit, PTL DEF ScopeSpec

\* The inductive invariant holds: histories are right, calls young, entries bounded.
THEOREM ScopeInvariant == ScopeSpec => []ScopeInv
<1>1. ScopeInv /\ [ScopeNext]_scopeVars => ScopeInv'
  <2> SUFFICES ASSUME ScopeInv, [ScopeNext]_scopeVars PROVE ScopeInv'
    OBVIOUS
  <2>1. ScopeTypeOK' /\ ClocksShowNaturals'
    BY ScopeTypeStep DEF ScopeInv
  <2>2. /\ HistoryIsRight'
        /\ \A d \in Domains : lastIn[d] <= lastIn'[d] /\ lastOut[d] <= lastOut'[d]
        /\ \A c \in Clients, d \in Domains : lastFail[c][d] <= lastFail'[c][d]
    BY HistoryStep DEF ScopeInv
  <2>3. CallsAreYoung'
    BY <2>1, <2>2, CallsStep
  <2>4. EntriesExpire'
    BY <2>1, <2>2, EntriesStep
  <2>5. NoStaleVerdict'
    BY <2>1, <2>2, VerdictStep
  <2> QED BY <2>1, <2>2, <2>3, <2>4, <2>5 DEF ScopeInv
<1> QED BY <1>1, ScopeStart, PTL DEF ScopeSpec

\* Whoever removes a domain knows when every client has stopped letting its logs through,
\* and whoever adds it when they let them through again: a verdict acted on is never older
\* than its TTL and what the clock of the client was set back.
THEOREM FreshVerdicts == ScopeSpec => []NoStaleVerdict
<1>1. ScopeInv => NoStaleVerdict
  BY DEF ScopeInv
<1> QED BY <1>1, ScopeInvariant, PTL
=============================================================================
