-------------------------- MODULE Detection_proofs ---------------------------
(***************************************************************************)
(* Proofs about Detection, for any requests, rule sets, thresholds, batch  *)
(* sizes and numbers of tracked clients: type correctness, the spacing of  *)
(* alerts, that no attack passes without an alert and its evidence, that a *)
(* client that keeps coming is not forgotten, and that the totals kept up  *)
(* to date by adding and expiring buckets are those of the covered         *)
(* requests.                                                               *)
(***************************************************************************)
EXTENDS Detection, FiniteSetTheorems, WellFoundedInduction, TLAPS

-----------------------------------------------------------------------------
(* The inductive invariant.                                                *)

Fields == {"buckets", "requests", "errors", "paths", "latest", "lastAlert", "lastProcessed"}

\* A window has its fields, and knows when it was last used.
IsWindow(w) == DOMAIN w = Fields /\ w = [f \in DOMAIN w |-> w[f]] /\ w.lastProcessed \in Nat

WindowsHaveFields == IsFiniteSet(Tracked) /\ \A c \in Tracked : IsWindow(windows[c])

\* The alert that suppresses those after it was raised for the same client in this
\* incarnation, which sent it.
LastAlertIsBacked ==
  /\ \A c \in Tracked :
       \/ windows[c].lastAlert = Never
       \/ \E j \in alerted : log[j].client = c /\ log[j].second = windows[c].lastAlert
  /\ \A j \in alerted : <<"alert", j>> \in stored \cup inflight

\* No alert raised from the window of a client is newer than its last one.
LastAlertIsNewest ==
  \A c \in Tracked : \A i \in alerted :
    log[i].client = c /\ i >= born[c] =>
      windows[c].lastAlert # Never /\ log[i].second <= windows[c].lastAlert

\* The outputs that record i can count on: stored ones, and as long as it is not committed
\* those that are sent before it is.
SentFor(i) == IF i <= committed THEN stored ELSE stored \cup inflight

\* What EveryAttackAlerted and EveryAttackReported say, of records in a batch as well.
AttacksAlerted ==
  \A i \in DOMAIN found :
    RuleScore(found[i]) >= AlertThreshold =>
      \E j \in 1..i : /\ <<"alert", j>> \in SentFor(i)
                      /\ log[j].client = log[i].client
                      /\ log[j].second > log[i].second - Cooldown

AttacksReported ==
  \A i \in DOMAIN found :
    found[i] # {} =>
      {<<"anomaly", i>>} \cup {<<"attack", i, r.id>> : r \in found[i]} \subseteq SentFor(i)

\* The order of the map is the order of the last requests.
UsedLast ==
  \A c \in Tracked : used[c] \in Seen(c) /\ \A j \in Seen(c) : j <= used[c]

DetectionInv ==
  /\ TypeOK /\ WindowsHaveFields /\ LastAlertIsBacked /\ LastAlertIsNewest /\ AlertsSpaced
  /\ AttacksAlerted /\ AttacksReported /\ UsedLast

-----------------------------------------------------------------------------
(* Lemmas about the score and the window.                                  *)

\* A nonempty set of scores has a largest element, which is what Max chooses.
LEMMA MaxIsScore ==
  ASSUME NEW S, S \subseteq 1..100, S # {}
  PROVE  Max(S) \in S
<1> DEFINE T == {n \in Nat : 100 - n \in S}
<1>1. T \subseteq Nat /\ T # {}
  <2>1. PICK s \in S : TRUE
    OBVIOUS
  <2>2. s \in 1..100 /\ 100 - s \in Nat /\ 100 - (100 - s) = s
    BY <2>1
  <2> QED BY <2>1, <2>2
<1>2. PICK n \in T : \A m \in T : ~ (<<m, n>> \in OpToRel(<, Nat))
  BY <1>1, NatLessThanWellFounded, WFMin
<1>3. \A m \in T : ~ (m < n)
  BY <1>1, <1>2 DEF OpToRel
<1>4. ASSUME NEW s \in S PROVE 100 - n >= s
  <2>1. s \in 1..100 /\ 100 - s \in Nat /\ 100 - (100 - s) = s
    OBVIOUS
  <2>2. 100 - s \in T
    BY <2>1
  <2>3. n \in Nat /\ ~ (100 - s < n)
    BY <1>2, <1>3, <2>2
  <2> HIDE DEF T
  <2> QED BY <2>1, <2>3
<1>5. 100 - n \in S
  BY <1>2
<1> QED BY <1>4, <1>5 DEF Max

\* The score of the rules that match is an integer.
LEMMA RuleScoreIsInt ==
  ASSUME NEW n \in DOMAIN RuleSets, NEW fields
  PROVE  RuleScore(Match(RuleSets[n], fields)) \in Int
<1> DEFINE matches == Match(RuleSets[n], fields)
<1>1. matches \subseteq RuleSets[n] /\ IsFiniteSet(RuleSets[n])
  BY DetectionAssumption DEF Match
<1>2. IsFiniteSet(matches) /\ Cardinality(matches) \in Nat
  BY <1>1, FS_Subset, FS_CardinalityType
<1>a. \A r \in matches : r.score \in 1..100
  BY <1>1, DetectionAssumption
<1>3. CASE matches = {}
  BY <1>3 DEF RuleScore
<1>4. CASE matches # {}
  <2> DEFINE scores == {r.score : r \in matches}
  <2>1. scores \subseteq 1..100 /\ scores # {}
    <3> HIDE DEF matches
    <3> QED BY <1>a, <1>4
  <2>2. Max(scores) \in Int
    <3> HIDE DEF scores
    <3>1. Max(scores) \in scores
      BY <2>1, MaxIsScore, Zenon
    <3>2. Max(scores) \in 1..100
      BY <2>1, <3>1
    <3> QED BY <3>2
  <2>3. RuleScore(matches) = Max(scores) + 10 * (Cardinality(matches) - 1)
    BY <1>4 DEF RuleScore
  <2> HIDE DEF scores
  <2> QED BY <1>2, <2>2, <2>3
<1> QED BY <1>3, <1>4

\* Rules that reach the threshold alone make the whole score reach it.
LEMMA RulesSuffice ==
  ASSUME NEW w, NEW matches, RuleScore(matches) \in Int, RuleScore(matches) >= AlertThreshold
  PROVE  Score(w, matches) >= AlertThreshold
<1> DEFINE a == IF w.requests >= RequestThreshold THEN 30 ELSE 0
           b == IF w.requests >= FloodThreshold THEN 40 ELSE 0
           c == IF w.errors >= ErrorThreshold THEN 25 ELSE 0
           d == IF Cardinality({p \in Paths : w.paths[p] > 0}) >= PathThreshold THEN 25 ELSE 0
           total == RuleScore(matches) + a + b + c + d
<1>1. Score(w, matches) = IF total > 100 THEN 100 ELSE total
  BY DEF Score
<1>2. a \in Nat /\ b \in Nat /\ c \in Nat /\ d \in Nat
  OBVIOUS
<1>3. total \in Int /\ total >= RuleScore(matches)
  <2> HIDE DEF a, b, c, d
  <2> QED BY <1>2
<1> HIDE DEF total
<1> QED BY <1>1, <1>3, DetectionAssumption

\* Sliding the window keeps its fields and its last alert.
LEMMA SlideKeepsAlert ==
  ASSUME NEW w, IsWindow(w), NEW e \in Inputs, clock \in Nat
  PROVE  IsWindow(Slide(w, e)) /\ Slide(w, e).lastAlert = w.lastAlert
<1>1. ASSUME NEW v, IsWindow(v), NEW cutoff
      PROVE  IsWindow(Expire(v, cutoff)) /\ Expire(v, cutoff).lastAlert = v.lastAlert
  BY <1>1 DEF IsWindow, Fields, Expire
<1>2. ASSUME NEW v, IsWindow(v)
      PROVE  IsWindow(Add(v, e)) /\ Add(v, e).lastAlert = v.lastAlert
  BY <1>2 DEF IsWindow, Fields, Add, Counted
<1>3. ASSUME NEW v, IsWindow(v), NEW latest
      PROVE  LET u == [v EXCEPT !.latest = latest, !.lastProcessed = clock] IN
             IsWindow(u) /\ u.lastAlert = v.lastAlert
  BY <1>3 DEF IsWindow, Fields
<1> DEFINE latest == IF e.second > w.latest THEN e.second ELSE w.latest
           cutoff == latest - WindowSeconds
           expired == Expire(w, cutoff)
           slid == [expired EXCEPT !.latest = latest, !.lastProcessed = clock]
<1>4. IsWindow(expired) /\ expired.lastAlert = w.lastAlert
  BY <1>1
<1>5. IsWindow(slid) /\ slid.lastAlert = w.lastAlert
  <2> HIDE DEF expired, latest
  <2> QED BY <1>3, <1>4
<1>6. IsWindow(Add(slid, e)) /\ Add(slid, e).lastAlert = slid.lastAlert
  <2> HIDE DEF slid
  <2> QED BY <1>2, <1>5
<1>7. Slide(w, e) = Add(slid, e) \/ Slide(w, e) = slid
  BY Zenon DEF Slide
<1> HIDE DEF slid
<1> QED BY <1>5, <1>6, <1>7, Zenon

-----------------------------------------------------------------------------
(* Lemmas about the order of the map.                                      *)

\* Some tracked client was used before the others, and Eldest chooses it.
LEMMA EldestIsFirst ==
  ASSUME used \in [Tracked -> Nat], Tracked # {}
  PROVE  Eldest \in Tracked /\ \A d \in Tracked : used[Eldest] <= used[d]
<1> DEFINE T == {used[d] : d \in Tracked}
<1>1. T \subseteq Nat /\ T # {}
  OBVIOUS
<1>2. PICK n \in T : \A m \in T : ~ (<<m, n>> \in OpToRel(<, Nat))
  BY <1>1, NatLessThanWellFounded, WFMin
<1>3. PICK c \in Tracked : used[c] = n
  BY <1>2
<1>4. ASSUME NEW d \in Tracked PROVE used[c] <= used[d]
  <2>1. used[d] \in T /\ used[d] \in Nat /\ n \in Nat
    BY <1>1, <1>2
  <2>2. ~ (used[d] < n)
    BY <1>2, <2>1 DEF OpToRel
  <2> QED BY <1>3, <2>1, <2>2
<1> QED BY <1>3, <1>4 DEF Eldest

\* The client of a request has a place in the map, which is not outgrown; another client
\* leaves it as the eldest of a full one, or when it was idle.
LEMMA KeptFacts ==
  ASSUME TypeOK, WindowsHaveFields, NEW c \in Clients
  PROVE  /\ c \in Kept(c) /\ Kept(c) \subseteq Tracked \cup {c}
         /\ IsFiniteSet(Kept(c)) /\ Cardinality(Kept(c)) <= MaxTracked
         /\ \A d \in Tracked \ Kept(c) :
              \/ windows[d].lastProcessed < clock - 2 * WindowSeconds
              \/ /\ c \notin Tracked /\ Cardinality(Tracked) = MaxTracked
                 /\ d \in Tracked /\ \A other \in Tracked : used[d] <= used[other]
<1>1. IsFiniteSet(Tracked) /\ Cardinality(Tracked) \in Nat /\ Cardinality(Tracked) <= MaxTracked
  BY FS_CardinalityType DEF TypeOK, WindowsHaveFields
<1>2. /\ IsFiniteSet(Tracked \cup {c})
      /\ Cardinality(Tracked \cup {c}) =
           IF c \in Tracked THEN Cardinality(Tracked) ELSE Cardinality(Tracked) + 1
  BY <1>1, FS_AddElement
<1>3. MaxTracked \in Nat /\ MaxTracked >= 1
  BY DetectionAssumption
<1>4. used \in [Tracked -> Nat]
  BY DEF TypeOK
<1>5. CASE Cardinality(Tracked \cup {c}) > MaxTracked
  <2>1. c \notin Tracked /\ Cardinality(Tracked) = MaxTracked
    BY <1>1, <1>2, <1>3, <1>5
  <2>2. Tracked # {}
    BY <1>3, <2>1, FS_EmptySet
  <2>3. Eldest \in Tracked /\ \A d \in Tracked : used[Eldest] <= used[d]
    BY <1>4, <2>2, EldestIsFirst
  <2>4. Others(c) = Tracked \ {Eldest}
    BY <1>5 DEF Others
  <2>5. /\ IsFiniteSet(Tracked \ {Eldest})
        /\ Cardinality(Tracked \ {Eldest}) = MaxTracked - 1
    BY <1>1, <2>1, <2>3, FS_RemoveElement
  <2>6. /\ IsFiniteSet((Tracked \ {Eldest}) \cup {c})
        /\ Cardinality((Tracked \ {Eldest}) \cup {c}) = MaxTracked
    BY <1>3, <2>1, <2>5, FS_AddElement
  <2>7. Kept(c) \in SUBSET ((Tracked \ {Eldest}) \cup {c}) /\ c \in Kept(c)
    BY <2>4 DEF Kept
  <2>8. IsFiniteSet(Kept(c)) /\ Cardinality(Kept(c)) <= MaxTracked
    BY <2>6, <2>7, FS_Subset
  <2>9. ASSUME NEW d \in Tracked \ Kept(c), d # Eldest
        PROVE  windows[d].lastProcessed < clock - 2 * WindowSeconds
    <3>1. ~ (windows[d].lastProcessed >= clock - 2 * WindowSeconds)
      BY <2>4, <2>9 DEF Kept
    <3>2. windows[d].lastProcessed \in Nat /\ clock \in Nat /\ WindowSeconds \in Nat
      BY DetectionAssumption DEF WindowsHaveFields, IsWindow, TypeOK
    <3> QED BY <3>1, <3>2
  <2> QED BY <2>1, <2>3, <2>7, <2>8, <2>9
<1>6. CASE ~ (Cardinality(Tracked \cup {c}) > MaxTracked)
  <2>1. Others(c) = Tracked
    BY <1>6 DEF Others
  <2>2. Kept(c) \in SUBSET (Tracked \cup {c}) /\ c \in Kept(c)
    BY <2>1 DEF Kept
  <2>3. Cardinality(Tracked \cup {c}) <= MaxTracked
    BY <1>1, <1>2, <1>3, <1>6
  <2>4. IsFiniteSet(Kept(c)) /\ Cardinality(Kept(c)) \in Nat
        /\ Cardinality(Kept(c)) <= Cardinality(Tracked \cup {c})
        /\ Cardinality(Tracked \cup {c}) \in Nat
    BY <1>2, <2>2, FS_Subset, FS_CardinalityType
  <2>5. Cardinality(Kept(c)) <= MaxTracked
    BY <1>3, <2>3, <2>4
  <2>6. ASSUME NEW d \in Tracked \ Kept(c)
        PROVE  windows[d].lastProcessed < clock - 2 * WindowSeconds
    <3>1. ~ (windows[d].lastProcessed >= clock - 2 * WindowSeconds)
      BY <2>1, <2>6 DEF Kept
    <3>2. windows[d].lastProcessed \in Nat /\ clock \in Nat /\ WindowSeconds \in Nat
      BY DetectionAssumption DEF WindowsHaveFields, IsWindow, TypeOK
    <3> QED BY <3>1, <3>2
  <2> QED BY <2>2, <2>4, <2>5, <2>6
<1> QED BY <1>5, <1>6

-----------------------------------------------------------------------------
(* The analysis of a record, in the terms of the invariant.                *)

\* Reading a record, again or for the first time, leaves those before it.
LEMMA ReadsRecord ==
  ASSUME TypeOK, NEW e \in Inputs, Process(e)
  PROVE  /\ pos \in Nat /\ pos' = pos + 1 /\ pos' <= Len(log') /\ log'[pos + 1] = e
         /\ log' \in Seq(Inputs) /\ Len(log') <= MaxRecords
         /\ \A i \in 1..pos : log'[i] = log[i]
         /\ UNCHANGED <<clock, rules, committed, stored>>
<1>1. /\ pos' = pos + 1 /\ UNCHANGED <<clock, rules, committed, stored>>
      /\ IF pos < Len(log) THEN e = log[pos + 1] /\ UNCHANGED log
         ELSE Len(log) < MaxRecords /\ log' = Append(log, e)
  BY DEF Process
<1>2. pos \in 0..Len(log) /\ log \in Seq(Inputs) /\ Len(log) <= MaxRecords /\ MaxRecords \in Nat
  BY DetectionAssumption DEF TypeOK
<1>3. CASE pos < Len(log)
  BY <1>1, <1>2, <1>3
<1>4. CASE ~ (pos < Len(log))
  <2>1. pos = Len(log) /\ Len(log) < MaxRecords /\ log' = Append(log, e)
    BY <1>1, <1>2, <1>4
  <2> QED BY <1>1, <1>2, <2>1
<1> QED BY <1>3, <1>4

\* The last alert of a client before a step, if it is remembered.
LastAlertOf(c) == IF c \in Tracked THEN windows[c].lastAlert ELSE Never

\* Record i, with content e, raises an alert, no sooner than a cooldown after the last one.
RaisesAlert(i, e) ==
  /\ alerted' = alerted \cup {i} /\ <<"alert", i>> \in inflight'
  /\ windows'[e.client].lastAlert = e.second
  /\ LastAlertOf(e.client) = Never \/ ~ (e.second - LastAlertOf(e.client) < Cooldown)

\* It raises none: the rules did not reach the threshold, or the last one suppresses it.
RaisesNone(i, e) ==
  /\ alerted' = alerted /\ windows'[e.client].lastAlert = LastAlertOf(e.client)
  /\ RuleScore(found'[i]) >= AlertThreshold =>
       LastAlertOf(e.client) # Never /\ e.second - LastAlertOf(e.client) < Cooldown

\* The identifiers of the outputs of a record tell alerts from the rest.
LEMMA AlertIsAnOutput ==
  ASSUME NEW i, NEW e, NEW w, NEW matches
  PROVE  /\ <<"alert", i>> \in Outputs(i, e, w, matches) <=>
              Score(w, matches) >= AlertThreshold /\ ~Suppressed(w, e)
         /\ matches # {} =>
              {<<"anomaly", i>>} \cup {<<"attack", i, r.id>> : r \in matches}
                \subseteq Outputs(i, e, w, matches)
<1>1. <<"alert", i>> # <<"anomaly", i>> /\ \A x : <<"alert", i>> # <<"attack", i, x>>
  OBVIOUS
<1> QED BY <1>1, Zenon DEF Outputs

\* What analysing a record does.
LEMMA AnalyseEffect ==
  ASSUME TypeOK, WindowsHaveFields, NEW e \in Inputs, Process(e), Analyse(pos + 1, e)
  PROVE  /\ Tracked' = Kept(e.client) /\ used' = Touched(e.client, pos + 1)
         /\ \A d \in Kept(e.client) \ {e.client} : windows'[d] = windows[d]
         /\ e.client \in Clients /\ e.client \in Kept(e.client) /\ IsWindow(windows'[e.client])
         /\ born' = IF e.client \in Tracked THEN born ELSE [born EXCEPT ![e.client] = pos + 1]
         /\ DOMAIN found' = DOMAIN found \cup {pos + 1}
         /\ \A k \in DOMAIN found \ {pos + 1} : found'[k] = found[k]
         /\ found'[pos + 1] # {} =>
              {<<"anomaly", pos + 1>>}
                \cup {<<"attack", pos + 1, r.id>> : r \in found'[pos + 1]} \subseteq inflight'
         /\ inflight \subseteq inflight'
         /\ RaisesAlert(pos + 1, e) \/ RaisesNone(pos + 1, e)
         /\ processed' = (processed + 1) % CleanupEvery /\ UNCHANGED faults
<1> DEFINE i == pos + 1
           c == e.client
           matches == Match(RuleSets[rules], e.fields)
           old == IF c \in Tracked THEN windows[c] ELSE NewWindow
           w == Slide(old, e)
           outputs == Outputs(i, e, w, matches)
<1>1. /\ used' = Touched(c, i)
      /\ windows' = [d \in Kept(c) |->
                       IF d = c THEN AfterScore(w, e, Score(w, matches)) ELSE windows[d]]
      /\ inflight' = inflight \cup outputs
      /\ alerted' = IF <<"alert", i>> \in outputs THEN alerted \cup {i} ELSE alerted
      /\ born' = IF c \in Tracked THEN born ELSE [born EXCEPT ![c] = i]
      /\ found' = [k \in DOMAIN found \cup {i} |-> IF k = i THEN matches ELSE found[k]]
      /\ processed' = (processed + 1) % CleanupEvery /\ UNCHANGED faults
  BY Zenon DEF Analyse
<1>2. c \in Clients /\ c \in Kept(c)
  BY Zenon DEF Clients, Kept
<1>3. IsWindow(NewWindow) /\ NewWindow.lastAlert = Never
  BY DEF IsWindow, Fields, NewWindow
<1>4. IsWindow(old) /\ old.lastAlert = LastAlertOf(c)
  BY <1>3 DEF WindowsHaveFields, LastAlertOf
<1>5. clock \in Nat
  BY DetectionAssumption DEF TypeOK
<1>6. IsWindow(w) /\ w.lastAlert = LastAlertOf(c)
  <2> HIDE DEF old
  <2> QED BY <1>4, <1>5, SlideKeepsAlert
<1>7. RuleScore(matches) \in Int
  BY RuleScoreIsInt DEF TypeOK
<1>8. found'[i] = matches /\ DOMAIN found' = DOMAIN found \cup {i}
      /\ \A k \in DOMAIN found \ {i} : found'[k] = found[k]
  <2> HIDE DEF matches, i
  <2> QED BY <1>1
<1>9. windows'[c] = AfterScore(w, e, Score(w, matches))
  <2> HIDE DEF w, matches, c
  <2> QED BY <1>1, <1>2
<1>10. ASSUME Score(w, matches) >= AlertThreshold, ~Suppressed(w, e)
       PROVE  IsWindow(windows'[c]) /\ (RaisesAlert(i, e) \/ RaisesNone(i, e))
  <2>1. windows'[c] = [w EXCEPT !.lastAlert = e.second]
    <3> HIDE DEF w, matches, c
    <3> QED BY <1>9, <1>10 DEF AfterScore
  <2>2. IsWindow(windows'[c]) /\ windows'[c].lastAlert = e.second
    <3> HIDE DEF w, c
    <3> QED BY <1>6, <2>1 DEF IsWindow, Fields
  <2>3. LastAlertOf(c) = Never \/ ~ (e.second - LastAlertOf(c) < Cooldown)
    <3> HIDE DEF w, c
    <3> QED BY <1>6, <1>10, Zenon DEF Suppressed
  <2>4. <<"alert", i>> \in outputs
    BY <1>10, AlertIsAnOutput, Zenon
  <2>5. alerted' = alerted \cup {i} /\ <<"alert", i>> \in inflight'
    <3> HIDE DEF outputs, i
    <3> QED BY <1>1, <2>4
  <2>6. RaisesAlert(i, e)
    BY <2>2, <2>3, <2>5, Zenon DEF RaisesAlert
  <2> QED BY <2>2, <2>6
<1>11. ASSUME ~ (Score(w, matches) >= AlertThreshold /\ ~Suppressed(w, e))
       PROVE  IsWindow(windows'[c]) /\ (RaisesAlert(i, e) \/ RaisesNone(i, e))
  <2>1. windows'[c] = w
    <3> HIDE DEF w, matches, c
    <3> QED BY <1>9, <1>11 DEF AfterScore
  <2>2. IsWindow(windows'[c]) /\ windows'[c].lastAlert = LastAlertOf(c)
    BY <1>6, <2>1, Zenon
  <2>3. <<"alert", i>> \notin outputs
    BY <1>11, AlertIsAnOutput, Zenon
  <2>4. ASSUME RuleScore(matches) >= AlertThreshold
        PROVE  LastAlertOf(c) # Never /\ e.second - LastAlertOf(c) < Cooldown
    <3>1. Score(w, matches) >= AlertThreshold
      BY <1>7, <2>4, RulesSuffice, Zenon
    <3>2. Suppressed(w, e)
      BY <1>11, <3>1, Zenon
    <3> HIDE DEF w, c
    <3> QED BY <1>6, <3>2, Zenon DEF Suppressed
  <2>5. alerted' = alerted
    <3> HIDE DEF outputs, i
    <3> QED BY <1>1, <2>3
  <2>6. RaisesNone(i, e)
    <3> HIDE DEF matches
    <3> QED BY <1>8, <2>2, <2>4, <2>5, Zenon DEF RaisesNone
  <2> QED BY <2>2, <2>6
<1>12. matches # {} => {<<"anomaly", i>>} \cup {<<"attack", i, r.id>> : r \in matches} \subseteq outputs
  BY AlertIsAnOutput, Zenon
<1>13. /\ Tracked' = Kept(c) /\ inflight \subseteq inflight' /\ outputs \subseteq inflight'
       /\ \A d \in Kept(c) \ {c} : windows'[d] = windows[d]
  <2> HIDE DEF w, matches, c, outputs
  <2> QED BY <1>1 DEF Tracked
<1>14. IsWindow(windows'[c]) /\ (RaisesAlert(i, e) \/ RaisesNone(i, e))
  BY <1>10, <1>11, Zenon
<1> HIDE DEF w, matches, outputs
<1> QED BY <1>1, <1>2, <1>8, <1>12, <1>13, <1>14

-----------------------------------------------------------------------------
(* Every step keeps the invariant.                                         *)

\* At first there is no window, no record and no output.
LEMMA DetectionInit == Init => DetectionInv
<1> SUFFICES ASSUME Init PROVE DetectionInv
  OBVIOUS
<1>1. /\ Tracked = {} /\ alerted = {} /\ DOMAIN found = {} /\ used = EmptyFunction
  BY DEF Init, EmptyFunction, Tracked
<1>2. IsFiniteSet(Tracked) /\ Cardinality(Tracked) = 0
  BY <1>1, FS_EmptySet
<1>3. TypeOK
  <2>1. /\ clock \in Instants /\ rules = 1 /\ log = <<>> /\ pos = 0 /\ committed = 0
        /\ processed = 0 /\ born = [c \in Clients |-> 0] /\ faults = 0
    BY DEF Init
  <2>2. 1 \in DOMAIN RuleSets
    BY DetectionAssumption
  <2>3. /\ MaxTracked \in Nat \ {0} /\ CleanupEvery \in Nat \ {0} /\ MaxRecords \in Nat
        /\ MaxFaults \in Nat
    BY DetectionAssumption
  <2>4. used \in [Tracked -> 1..pos]
    BY <1>1 DEF EmptyFunction
  <2> QED BY <1>1, <1>2, <2>1, <2>2, <2>3, <2>4 DEF TypeOK
<1> QED BY <1>1, <1>2, <1>3 DEF DetectionInv, WindowsHaveFields, LastAlertIsBacked,
              LastAlertIsNewest, AlertsSpaced, AttacksAlerted, AttacksReported, UsedLast

\* A step that reads no record, or one that is not analysed, keeps the invariant if it takes
\* nothing back and what it commits is stored.
LEMMA QuietStep ==
  ASSUME DetectionInv, UNCHANGED memory, TypeOK', \A i \in 1..pos : log'[i] = log[i],
         stored \subseteq stored', stored \cup inflight \subseteq stored' \cup inflight',
         \A i \in 1..pos : SentFor(i) \subseteq SentFor(i)'
  PROVE  DetectionInv'
<1> TypeOK /\ WindowsHaveFields /\ LastAlertIsBacked /\ LastAlertIsNewest /\ AlertsSpaced
    /\ AttacksAlerted /\ AttacksReported /\ UsedLast
  BY DEF DetectionInv
<1>1. UNCHANGED <<windows, used, processed, found, alerted, born>> /\ Tracked' = Tracked
  BY DEF memory, Tracked
<1>2. DOMAIN found \subseteq 1..pos /\ alerted \subseteq 1..pos /\ pos \in Nat
  BY DEF TypeOK
<1>3. \A i \in DOMAIN found : log'[i] = log[i]
  BY <1>2
<1>4. \A i \in alerted : log'[i] = log[i]
  BY <1>2
<1>5. WindowsHaveFields'
  BY <1>1 DEF WindowsHaveFields
<1>6. LastAlertIsBacked'
  BY <1>1, <1>4 DEF LastAlertIsBacked
<1>7. LastAlertIsNewest' /\ AlertsSpaced'
  BY <1>1, <1>4 DEF LastAlertIsNewest, AlertsSpaced
<1>8. AttacksAlerted'
  <2> SUFFICES ASSUME NEW i \in DOMAIN found, RuleScore(found[i]) >= AlertThreshold
               PROVE  \E j \in 1..i : /\ <<"alert", j>> \in SentFor(i)'
                                      /\ log'[j].client = log'[i].client
                                      /\ log'[j].second > log'[i].second - Cooldown
    BY <1>1 DEF AttacksAlerted
  <2>1. PICK j \in 1..i : /\ <<"alert", j>> \in SentFor(i)
                          /\ log[j].client = log[i].client
                          /\ log[j].second > log[i].second - Cooldown
    BY DEF AttacksAlerted
  <2>2. i \in 1..pos /\ j \in 1..pos
    BY <1>2
  <2> QED BY <2>1, <2>2
<1>9. AttacksReported'
  <2> SUFFICES ASSUME NEW i \in DOMAIN found, found[i] # {}
               PROVE  {<<"anomaly", i>>} \cup {<<"attack", i, r.id>> : r \in found[i]}
                        \subseteq SentFor(i)'
    BY <1>1 DEF AttacksReported
  <2>1. {<<"anomaly", i>>} \cup {<<"attack", i, r.id>> : r \in found[i]} \subseteq SentFor(i)
    BY DEF AttacksReported
  <2>2. i \in 1..pos
    BY <1>2
  <2> QED BY <2>1, <2>2
<1>10. UsedLast'
  BY <1>1, <1>3 DEF UsedLast, Seen
<1> QED BY <1>5, <1>6, <1>7, <1>8, <1>9, <1>10 DEF DetectionInv

\* A record that is not analysed: dead letter, or out of scope.
LEMMA NotAnalysedStep ==
  ASSUME DetectionInv, NEW e \in Inputs, Process(e), DeadLetter(pos + 1, e) \/ Skip(pos + 1, e)
  PROVE  DetectionInv'
<1> TypeOK
  BY DEF DetectionInv
<1>1. /\ pos \in Nat /\ pos' = pos + 1 /\ pos' <= Len(log')
      /\ log' \in Seq(Inputs) /\ Len(log') <= MaxRecords
      /\ \A i \in 1..pos : log'[i] = log[i]
      /\ UNCHANGED <<clock, rules, committed, stored>>
  BY ReadsRecord
<1>2. UNCHANGED memory /\ inflight \subseteq inflight' /\ faults' \in 0..MaxFaults
  <2>1. CASE DeadLetter(pos + 1, e)
    BY <2>1 DEF DeadLetter, TypeOK
  <2>2. CASE Skip(pos + 1, e)
    BY <2>2, DetectionAssumption DEF Skip, Fault, TypeOK
  <2> QED BY <2>1, <2>2
<1>3. TypeOK'
  <2>1. UNCHANGED <<windows, used, processed, found, alerted, born>> /\ Tracked' = Tracked
    BY <1>2 DEF memory, Tracked
  <2>2. pos' \in 0..Len(log') /\ committed \in 0..pos' /\ 1..pos \subseteq 1..pos' /\ 0..pos \subseteq 0..pos'
    BY <1>1 DEF TypeOK
  <2>3. used \in [Tracked -> 1..pos'] /\ born \in [Clients -> 0..pos'] /\ DOMAIN found \subseteq 1..pos'
    BY <2>2 DEF TypeOK
  <2> QED BY <1>1, <1>2, <2>1, <2>2, <2>3 DEF TypeOK
<1>4. \A i \in 1..pos : SentFor(i) \subseteq SentFor(i)'
  BY <1>1, <1>2 DEF SentFor
<1> QED BY <1>1, <1>2, <1>3, <1>4, QuietStep

\* The end of a batch stores what its records count on.
LEMMA CommitStep ==
  ASSUME DetectionInv, Commit
  PROVE  DetectionInv'
<1> TypeOK
  BY DEF DetectionInv
<1>1. /\ stored' = stored \cup inflight /\ inflight' = {} /\ committed' = pos
      /\ UNCHANGED <<clock, rules, log, pos, memory, faults>>
  BY DEF Commit
<1>2. TypeOK'
  <2>1. pos \in 0..pos
    BY DEF TypeOK
  <2> QED BY <1>1, <2>1 DEF TypeOK, memory, Tracked
<1>3. \A i \in 1..pos : SentFor(i) \subseteq SentFor(i)'
  BY <1>1 DEF SentFor, TypeOK
<1> QED BY <1>1, <1>2, <1>3, QuietStep

\* The clock, and the subscriber thread that replaces the rules.
LEMMA OtherStep ==
  ASSUME DetectionInv, Tick \/ ReplaceRules \/ UNCHANGED vars
  PROVE  DetectionInv'
<1> TypeOK
  BY DEF DetectionInv
<1>1. /\ UNCHANGED <<log, pos, committed, memory, inflight, stored, faults>>
      /\ clock' \in Instants /\ rules' \in DOMAIN RuleSets
  <2>1. CASE Tick
    BY <2>1 DEF Tick, TypeOK
  <2>2. CASE ReplaceRules
    BY <2>2, DetectionAssumption DEF ReplaceRules, TypeOK
  <2>3. CASE UNCHANGED vars
    BY <2>3 DEF vars, TypeOK
  <2> QED BY <2>1, <2>2, <2>3
<1>2. TypeOK'
  BY <1>1 DEF TypeOK, memory, Tracked
<1>3. \A i \in 1..pos : SentFor(i) \subseteq SentFor(i)'
  BY <1>1 DEF SentFor
<1> QED BY <1>1, <1>2, <1>3, QuietStep

\* After a restart nothing is remembered, and only committed records count.
LEMMA RestartStep ==
  ASSUME DetectionInv, Restart
  PROVE  DetectionInv'
<1> TypeOK /\ AttacksAlerted /\ AttacksReported
  BY DEF DetectionInv
<1>1. /\ stored \subseteq stored' /\ inflight' = {} /\ pos' = committed
      /\ windows' = EmptyFunction /\ used' = EmptyFunction /\ processed' = 0
      /\ found' = [i \in {k \in DOMAIN found : k <= committed} |-> found[i]] /\ alerted' = {}
      /\ born' = [c \in Clients |-> 0]
      /\ faults' \in 0..MaxFaults /\ rules' \in DOMAIN RuleSets
      /\ UNCHANGED <<clock, log, committed>>
  BY DetectionAssumption DEF Restart, Fault, TypeOK
<1>2. /\ Tracked' = {} /\ IsFiniteSet({}) /\ Cardinality({}) = 0
      /\ DOMAIN found' = {k \in DOMAIN found : k <= committed}
      /\ \A i \in DOMAIN found' : found'[i] = found[i]
  BY <1>1, FS_EmptySet DEF Tracked, EmptyFunction
<1>3. pos \in Nat /\ committed \in Nat /\ committed <= pos /\ pos <= Len(log)
  BY DEF TypeOK
<1>4. TypeOK'
  <2>1. pos' \in 0..Len(log) /\ committed \in 0..committed
    BY <1>1, <1>3 DEF TypeOK
  <2>2. DOMAIN found' \subseteq 1..committed
    BY <1>2, <1>3 DEF TypeOK
  <2>3. used' \in [{} -> 1..committed] /\ born' \in [Clients -> 0..committed]
    BY <1>1, <1>3 DEF EmptyFunction
  <2>4. MaxTracked \in Nat \ {0} /\ 0 \in 0..(CleanupEvery - 1)
    BY DetectionAssumption
  <2> QED BY <1>1, <1>2, <2>1, <2>2, <2>3, <2>4 DEF TypeOK
<1>5. \A i \in DOMAIN found' : i \in DOMAIN found /\ SentFor(i) = stored /\ SentFor(i)' = stored'
  BY <1>1, <1>2 DEF SentFor
<1>6. AttacksAlerted'
  <2> SUFFICES ASSUME NEW i \in DOMAIN found', RuleScore(found'[i]) >= AlertThreshold
               PROVE  \E j \in 1..i : /\ <<"alert", j>> \in SentFor(i)'
                                      /\ log'[j].client = log'[i].client
                                      /\ log'[j].second > log'[i].second - Cooldown
    BY DEF AttacksAlerted
  <2>1. i \in DOMAIN found /\ RuleScore(found[i]) >= AlertThreshold
    BY <1>2, <1>5
  <2>2. PICK j \in 1..i : /\ <<"alert", j>> \in SentFor(i)
                          /\ log[j].client = log[i].client
                          /\ log[j].second > log[i].second - Cooldown
    BY <2>1 DEF AttacksAlerted
  <2> QED BY <1>1, <1>5, <2>2
<1>7. AttacksReported'
  BY <1>1, <1>2, <1>5 DEF AttacksReported
<1> QED BY <1>1, <1>2, <1>4, <1>6, <1>7 DEF DetectionInv, WindowsHaveFields, LastAlertIsBacked,
              LastAlertIsNewest, AlertsSpaced, UsedLast

\* A record that is analysed.
LEMMA AnalysedStep ==
  ASSUME DetectionInv, NEW e \in Inputs, Process(e), Analyse(pos + 1, e)
  PROVE  DetectionInv'
<1> DEFINE i == pos + 1
           c == e.client
<1> TypeOK /\ WindowsHaveFields /\ LastAlertIsBacked /\ LastAlertIsNewest /\ AlertsSpaced
    /\ AttacksAlerted /\ AttacksReported /\ UsedLast
  BY DEF DetectionInv
<1>1. /\ pos \in Nat /\ pos' = i /\ i <= Len(log') /\ log'[i] = e
      /\ log' \in Seq(Inputs) /\ Len(log') <= MaxRecords
      /\ \A k \in 1..pos : log'[k] = log[k]
      /\ UNCHANGED <<clock, rules, committed, stored>>
  BY ReadsRecord
<1>2. /\ Tracked' = Kept(c) /\ used' = Touched(c, i)
      /\ \A d \in Kept(c) \ {c} : windows'[d] = windows[d]
      /\ c \in Clients /\ c \in Kept(c) /\ IsWindow(windows'[c])
      /\ born' = IF c \in Tracked THEN born ELSE [born EXCEPT ![c] = i]
      /\ DOMAIN found' = DOMAIN found \cup {i}
      /\ \A k \in DOMAIN found \ {i} : found'[k] = found[k]
      /\ found'[i] # {} =>
           {<<"anomaly", i>>} \cup {<<"attack", i, r.id>> : r \in found'[i]} \subseteq inflight'
      /\ inflight \subseteq inflight'
      /\ RaisesAlert(i, e) \/ RaisesNone(i, e)
      /\ processed' = (processed + 1) % CleanupEvery /\ UNCHANGED faults
  BY AnalyseEffect
<1>3. /\ Kept(c) \subseteq Tracked \cup {c}
      /\ IsFiniteSet(Kept(c)) /\ Cardinality(Kept(c)) <= MaxTracked
  BY <1>2, KeptFacts
<1>4. /\ DOMAIN found \subseteq 1..pos /\ alerted \subseteq DOMAIN found /\ committed \in 0..pos
      /\ i \notin DOMAIN found /\ i \notin alerted /\ i > committed /\ i \in 1..i
  BY <1>1 DEF TypeOK
<1>5. /\ \A k \in DOMAIN found : log'[k] = log[k] /\ found'[k] = found[k]
      /\ \A k \in alerted : log'[k] = log[k]
  BY <1>1, <1>2, <1>4
<1>6. alerted' = alerted \/ alerted' = alerted \cup {i}
  BY <1>2 DEF RaisesAlert, RaisesNone
<1>7. /\ born \in [Clients -> 0..pos] /\ born' \in [Clients -> 0..i]
      /\ \A d \in Clients \ {c} : born'[d] = born[d]
      /\ born'[c] = IF c \in Tracked THEN born[c] ELSE i
  <2>1. born \in [Clients -> 0..pos] /\ 0..pos \subseteq 0..i /\ i \in 0..i
    BY <1>1 DEF TypeOK
  <2> HIDE DEF i, c
  <2> QED BY <1>2, <2>1
<1>8. /\ used' \in [Kept(c) -> 1..i] /\ used'[c] = i
      /\ \A d \in Kept(c) \ {c} : d \in Tracked /\ used'[d] = used[d]
  <2>1. used \in [Tracked -> 1..pos] /\ 1..pos \subseteq 1..i
    BY <1>1 DEF TypeOK
  <2> HIDE DEF i, c
  <2> QED BY <1>2, <1>3, <1>4, <2>1 DEF Touched
<1>9. TypeOK'
  <2>1. processed' \in 0..(CleanupEvery - 1)
    BY <1>2, DetectionAssumption DEF TypeOK
  <2>2. pos' \in 0..Len(log') /\ committed' \in 0..pos'
    BY <1>1, <1>4
  <2>3. DOMAIN found' \subseteq 1..pos' /\ alerted' \subseteq DOMAIN found'
    BY <1>1, <1>2, <1>4, <1>6
  <2>4. Tracked' \subseteq Clients
    BY <1>2, <1>3 DEF TypeOK
  <2> HIDE DEF i, c
  <2> QED BY <1>1, <1>2, <1>3, <1>7, <1>8, <2>1, <2>2, <2>3, <2>4 DEF TypeOK
<1>10. WindowsHaveFields'
  BY <1>2, <1>3 DEF WindowsHaveFields
<1>11. LastAlertIsBacked'
  <2>1. \A j \in alerted' : <<"alert", j>> \in stored' \cup inflight'
    BY <1>1, <1>2 DEF LastAlertIsBacked, RaisesAlert, RaisesNone
  <2>2. ASSUME NEW d \in Tracked, windows[d].lastAlert # Never
        PROVE  \E j \in alerted' : log'[j].client = d /\ log'[j].second = windows[d].lastAlert
    BY <1>5, <1>6, <2>2 DEF LastAlertIsBacked
  <2>3. ASSUME NEW d \in Kept(c) \ {c}
        PROVE  \/ windows'[d].lastAlert = Never
               \/ \E j \in alerted' : log'[j].client = d /\ log'[j].second = windows'[d].lastAlert
    BY <1>2, <1>3, <2>2
  <2>4. \/ windows'[c].lastAlert = Never
        \/ \E j \in alerted' : log'[j].client = c /\ log'[j].second = windows'[c].lastAlert
    <3>1. CASE RaisesAlert(i, e)
      BY <1>1, <3>1 DEF RaisesAlert
    <3>2. CASE RaisesNone(i, e)
      BY <2>2, <3>2 DEF RaisesNone, LastAlertOf
    <3> QED BY <1>2, <3>1, <3>2
  <2> HIDE DEF i, c
  <2> QED BY <1>2, <2>1, <2>3, <2>4 DEF LastAlertIsBacked
<1>12. \A j \in alerted : log[j].second \in Nat /\ j \in 1..pos
  <2>1. \A j \in 1..pos : log[j] \in Inputs
    BY DEF TypeOK
  <2> QED BY <1>4, <2>1, DetectionAssumption
<1>13. e.second \in Nat /\ Cooldown \in Nat
  BY DetectionAssumption
\* What holds of the alerts of the client before the step.
<1>14. ASSUME NEW k \in alerted, log[k].client = c, k >= born'[c]
       PROVE  /\ c \in Tracked /\ windows[c].lastAlert # Never /\ windows[c].lastAlert \in Nat
              /\ log[k].second <= windows[c].lastAlert
  <2>1. c \in Tracked
    BY <1>1, <1>7, <1>12, <1>14
  <2>2. windows[c].lastAlert # Never /\ log[k].second <= windows[c].lastAlert
    BY <1>7, <1>14, <2>1 DEF LastAlertIsNewest
  <2>3. windows[c].lastAlert \in Nat
    BY <1>12, <2>1, <2>2 DEF LastAlertIsBacked
  <2> QED BY <2>1, <2>2, <2>3
\* An alert raised now comes a cooldown after all of them.
<1>15. ASSUME RaisesAlert(i, e), NEW k \in alerted, log[k].client = c, k >= born'[c]
       PROVE  e.second - log[k].second >= Cooldown
  <2>1. /\ windows[c].lastAlert \in Nat /\ log[k].second <= windows[c].lastAlert
        /\ LastAlertOf(c) = windows[c].lastAlert /\ windows[c].lastAlert # Never
    BY <1>14, <1>15 DEF LastAlertOf
  <2>2. ~ (e.second - windows[c].lastAlert < Cooldown)
    BY <1>15, <2>1 DEF RaisesAlert
  <2>3. log[k].second \in Nat
    BY <1>12
  <2> QED BY <1>13, <2>1, <2>2, <2>3
<1>16. LastAlertIsNewest'
  <2> SUFFICES ASSUME NEW d \in Kept(c), NEW k \in alerted', log'[k].client = d, k >= born'[d]
               PROVE  windows'[d].lastAlert # Never /\ log'[k].second <= windows'[d].lastAlert
    BY <1>2 DEF LastAlertIsNewest
  <2>1. CASE d # c
    <3>1. d \in Tracked /\ d \in Clients /\ born'[d] = born[d] /\ windows'[d] = windows[d]
      BY <1>2, <1>3, <1>7, <2>1 DEF TypeOK
    <3>2. k \in alerted
      BY <1>1, <1>6, <2>1
    <3> QED BY <1>5, <3>1, <3>2 DEF LastAlertIsNewest
  <2>2. CASE d = c /\ RaisesAlert(i, e)
    <3>1. windows'[c].lastAlert = e.second /\ e.second # Never
      BY <1>13, <2>2 DEF RaisesAlert, Never
    <3>2. CASE k = i
      BY <1>1, <1>13, <2>2, <3>1, <3>2
    <3>3. CASE k # i
      <4>1. k \in alerted
        BY <1>6, <3>3
      <4>2. e.second - log[k].second >= Cooldown /\ log[k].second \in Nat /\ log'[k] = log[k]
        BY <1>5, <1>12, <1>15, <2>2, <4>1
      <4>3. log[k].second <= e.second
        BY <1>13, <4>2
      <4> QED BY <2>2, <3>1, <4>2, <4>3
    <3> QED BY <3>2, <3>3
  <2>3. CASE d = c /\ RaisesNone(i, e)
    <3>1. k \in alerted /\ log'[k] = log[k]
      BY <1>5, <2>3 DEF RaisesNone
    <3>2. c \in Tracked /\ windows[c].lastAlert # Never /\ log[k].second <= windows[c].lastAlert
      BY <1>14, <2>3, <3>1
    <3>3. windows'[c].lastAlert = windows[c].lastAlert
      BY <2>3, <3>2 DEF RaisesNone, LastAlertOf
    <3> QED BY <2>3, <3>1, <3>2, <3>3
  <2> QED BY <1>2, <2>1, <2>2, <2>3
<1>17. AlertsSpaced'
  <2> SUFFICES ASSUME NEW k \in alerted', NEW j \in alerted', k < j,
                      log'[j].client = log'[k].client, k >= born'[log'[k].client]
               PROVE  log'[j].second - log'[k].second >= Cooldown
    BY <1>1 DEF AlertsSpaced
  <2>1. CASE j # i
    <3>1. j \in alerted /\ k \in alerted /\ log'[j] = log[j] /\ log'[k] = log[k]
      BY <1>1, <1>5, <1>6, <1>12, <2>1
    <3>2. k >= born[log[k].client]
      <4>1. log[k].client \in Clients /\ k \in 1..pos
        BY <1>12, <3>1 DEF TypeOK, Clients
      <4>2. CASE log[k].client # c
        BY <1>7, <3>1, <4>1, <4>2
      <4>3. CASE log[k].client = c
        BY <1>1, <1>7, <3>1, <4>1, <4>3
      <4> QED BY <4>2, <4>3
    <3> QED BY <3>1, <3>2 DEF AlertsSpaced
  <2>2. CASE j = i
    <3>1. k \in alerted /\ log'[k] = log[k] /\ RaisesAlert(i, e)
      BY <1>2, <1>4, <1>5, <1>6, <2>2 DEF RaisesNone
    <3>2. log[k].client = c /\ k >= born'[c]
      BY <1>1, <2>2, <3>1
    <3> QED BY <1>1, <1>15, <2>2, <3>1, <3>2
  <2> QED BY <2>1, <2>2
<1>18. \A k \in DOMAIN found : SentFor(k) \subseteq SentFor(k)'
  BY <1>1, <1>2 DEF SentFor
<1>19. ASSUME NEW k, k = i PROVE SentFor(k)' = stored' \cup inflight'
  BY <1>1, <1>4, <1>19 DEF SentFor
<1>20. AttacksAlerted'
  <2> SUFFICES ASSUME NEW k \in DOMAIN found', RuleScore(found'[k]) >= AlertThreshold
               PROVE  \E j \in 1..k : /\ <<"alert", j>> \in SentFor(k)'
                                      /\ log'[j].client = log'[k].client
                                      /\ log'[j].second > log'[k].second - Cooldown
    BY DetectionAssumption DEF AttacksAlerted
  <2>1. CASE k \in DOMAIN found
    <3>1. PICK j \in 1..k : /\ <<"alert", j>> \in SentFor(k)
                            /\ log[j].client = log[k].client
                            /\ log[j].second > log[k].second - Cooldown
      BY <1>5, <2>1 DEF AttacksAlerted
    <3>2. j \in 1..pos /\ k \in 1..pos
      BY <1>1, <1>4, <2>1
    <3> QED BY <1>1, <1>18, <2>1, <3>1, <3>2
  <2>2. CASE k = i /\ RaisesAlert(i, e)
    <3>1. e.second > e.second - Cooldown
      BY <1>13, DetectionAssumption
    <3>2. <<"alert", i>> \in SentFor(k)'
      BY <1>19, <2>2 DEF RaisesAlert
    <3>3. log'[i].second > log'[i].second - Cooldown
      BY <1>1, <3>1
    <3> HIDE DEF i
    <3> QED BY <1>4, <2>2, <3>2, <3>3
  <2>3. CASE k = i /\ RaisesNone(i, e)
    <3>1. LastAlertOf(c) # Never /\ e.second - LastAlertOf(c) < Cooldown
      BY <2>3 DEF RaisesNone
    <3>2. c \in Tracked /\ LastAlertOf(c) = windows[c].lastAlert
      BY <3>1 DEF LastAlertOf
    <3>3. PICK j \in alerted : log[j].client = c /\ log[j].second = windows[c].lastAlert
      BY <3>1, <3>2 DEF LastAlertIsBacked
    <3>4. /\ <<"alert", j>> \in stored' \cup inflight' /\ log'[j] = log[j]
          /\ j \in 1..i /\ log[j].second \in Nat
      BY <1>1, <1>2, <1>5, <1>12 DEF LastAlertIsBacked
    <3>5. log[j].second > e.second - Cooldown
      BY <1>13, <3>1, <3>2, <3>3, <3>4
    <3>6. /\ <<"alert", j>> \in SentFor(k)' /\ log'[j].client = log'[i].client
          /\ log'[j].second > log'[i].second - Cooldown
      BY <1>1, <1>19, <2>3, <3>3, <3>4, <3>5
    <3> HIDE DEF i
    <3> QED BY <2>3, <3>4, <3>6
  <2> QED BY <1>2, <2>1, <2>2, <2>3
<1>21. AttacksReported'
  <2> SUFFICES ASSUME NEW k \in DOMAIN found', found'[k] # {}
               PROVE  {<<"anomaly", k>>} \cup {<<"attack", k, r.id>> : r \in found'[k]}
                        \subseteq SentFor(k)'
    BY DEF AttacksReported
  <2>1. CASE k \in DOMAIN found
    BY <1>5, <1>18, <2>1 DEF AttacksReported
  <2>2. CASE k = i
    <3>1. {<<"anomaly", i>>} \cup {<<"attack", i, r.id>> : r \in found'[i]} \subseteq SentFor(k)'
      <4>1. found'[i] # {}
        BY <2>2
      <4>2. SentFor(k)' = stored' \cup inflight'
        BY <1>19, <2>2
      <4> HIDE DEF i
      <4> QED BY <1>2, <4>1, <4>2
    <3> HIDE DEF i
    <3> QED BY <2>2, <3>1
  <2> QED BY <1>2, <2>1, <2>2
<1>22. UsedLast'
  <2> SUFFICES ASSUME NEW d \in Kept(c)
               PROVE  used'[d] \in Seen(d)' /\ \A j \in Seen(d)' : j <= used'[d]
    BY <1>2 DEF UsedLast
  <2>1. CASE d = c
    <3>1. used'[c] = i /\ i \in DOMAIN found' /\ log'[i].client = c /\ i >= born'[c]
      BY <1>1, <1>2, <1>7, <1>8
    <3>2. \A j \in DOMAIN found' : j <= i
      BY <1>1, <1>2, <1>4
    <3> QED BY <2>1, <3>1, <3>2 DEF Seen
  <2>2. CASE d # c
    <3>1. /\ d \in Tracked /\ d \in Clients /\ born'[d] = born[d] /\ used'[d] = used[d]
      BY <1>2, <1>3, <1>7, <1>8, <2>2 DEF TypeOK
    <3>2. Seen(d)' = Seen(d)
      BY <1>1, <1>2, <1>4, <1>5, <2>2, <3>1 DEF Seen
    <3> QED BY <3>1, <3>2 DEF UsedLast
  <2> QED BY <2>1, <2>2
<1> QED BY <1>9, <1>10, <1>11, <1>16, <1>17, <1>20, <1>21, <1>22 DEF DetectionInv

\* Every step keeps the invariant.
LEMMA DetectionStep == DetectionInv /\ [Next]_vars => DetectionInv'
<1> SUFFICES ASSUME DetectionInv, [Next]_vars PROVE DetectionInv'
  OBVIOUS
<1>1. ASSUME NEW e \in Inputs, Process(e) PROVE DetectionInv'
  <2>1. DeadLetter(pos + 1, e) \/ Skip(pos + 1, e) \/ Analyse(pos + 1, e)
    BY <1>1 DEF Process
  <2> QED BY <1>1, <2>1, NotAnalysedStep, AnalysedStep, Zenon
<1> QED BY <1>1, CommitStep, RestartStep, OtherStep DEF Next

\* The client that leaves a full map for another one made its last request before each of
\* those that stay made theirs.
LEMMA OthersCameSince ==
  ASSUME DetectionInv, NEW e \in Inputs, Process(e), Analyse(pos + 1, e),
         NEW c \in Tracked \ Tracked', ~ (windows[c].lastProcessed < clock - 2 * WindowSeconds),
         NEW last, last = CHOOSE i \in Seen(c) : \A j \in Seen(c) : j <= i
  PROVE  Cardinality({log'[i].client : i \in {j \in DOMAIN found' : j > last}}) >= MaxTracked
<1> DEFINE d == e.client
           after == {j \in DOMAIN found' : j > last}
           came == {log'[i].client : i \in after}
           stay == (Tracked \ {c}) \cup {d}
<1> TypeOK /\ WindowsHaveFields /\ UsedLast
  BY DEF DetectionInv
<1>1. Tracked' = Kept(d) /\ d \in Clients /\ DOMAIN found' = DOMAIN found \cup {pos + 1}
  BY AnalyseEffect
<1>2. /\ pos \in Nat /\ log'[pos + 1] = e /\ \A i \in 1..pos : log'[i] = log[i]
  BY ReadsRecord
<1>3. /\ d \notin Tracked /\ Cardinality(Tracked) = MaxTracked
      /\ \A other \in Tracked : used[c] <= used[other]
  BY <1>1, KeptFacts
<1>4. /\ \A b \in Tracked : used[b] \in Seen(b) /\ \A j \in Seen(b) : j <= used[b]
      /\ DOMAIN found \subseteq 1..pos
  BY DEF UsedLast, TypeOK
<1>5. \A b \in Tracked : used[b] \in DOMAIN found /\ used[b] \in 1..pos /\ log[used[b]].client = b
  BY <1>4 DEF Seen
<1>6. last = used[c]
  <2>1. last \in Seen(c) /\ \A j \in Seen(c) : j <= last
    BY <1>4
  <2>2. last <= used[c] /\ used[c] <= last /\ last \in 1..pos /\ used[c] \in 1..pos
    BY <1>4, <2>1 DEF Seen
  <2> QED BY <1>2, <2>2
<1>7. stay \subseteq came
  <2>1. ASSUME NEW b \in Tracked \ {c} PROVE b \in came
    <3>1. used[b] # used[c] /\ used[c] <= used[b] /\ used[b] \in 1..pos /\ used[c] \in 1..pos
      BY <1>3, <1>5
    <3>5. \A x, y \in 1..pos : x # y /\ x <= y => y > x
      BY <1>2
    <3>2. used[b] > last
      BY <1>6, <3>1, <3>5, Zenon
    <3>3. used[b] \in after
      BY <1>1, <1>5, <3>2
    <3>4. log'[used[b]].client = b
      BY <1>2, <1>5
    <3> HIDE DEF after
    <3> QED BY <3>3, <3>4
  <2>2. d \in came
    <3>1. last \in 1..pos
      BY <1>5, <1>6
    <3>2. pos + 1 \in after
      BY <1>1, <1>2, <3>1
    <3> HIDE DEF after
    <3> QED BY <1>2, <3>2
  <2> QED BY <2>1, <2>2
<1>8. IsFiniteSet(came)
  <2>1. after \in SUBSET (1..(pos + 1))
    BY <1>1, <1>2, <1>4
  <2>2. IsFiniteSet(after)
    <3>1. IsFiniteSet(1..(pos + 1))
      BY <1>2, FS_Interval
    <3> HIDE DEF after
    <3> QED BY <2>1, <3>1, FS_Subset, Zenon
  <2> DEFINE client == [i \in after |-> log'[i].client]
  <2>3. client \in Surjection(after, came)
    <3> HIDE DEF after
    <3> QED BY DEF Surjection
  <2> HIDE DEF after, came
  <2> QED BY <2>2, <2>3, FS_Surjection
<1>9. IsFiniteSet(stay) /\ Cardinality(stay) = MaxTracked
  <2>1. IsFiniteSet(Tracked) /\ MaxTracked \in Nat
    BY DetectionAssumption DEF WindowsHaveFields
  <2>2. IsFiniteSet(Tracked \ {c}) /\ Cardinality(Tracked \ {c}) = MaxTracked - 1
    BY <1>3, <2>1, FS_RemoveElement
  <2>3. d \notin Tracked \ {c} /\ stay = (Tracked \ {c}) \cup {d}
    BY <1>3
  <2> HIDE DEF d, stay
  <2>4. IsFiniteSet(stay) /\ Cardinality(stay) = (MaxTracked - 1) + 1
    BY <2>2, <2>3, FS_AddElement
  <2> QED BY <2>1, <2>4
<1>10. Cardinality(stay) <= Cardinality(came) /\ Cardinality(came) \in Nat
  <2> HIDE DEF stay, came
  <2> QED BY <1>7, <1>8, FS_Subset, FS_CardinalityType
<1>11. MaxTracked \in Nat
  BY DetectionAssumption
<1> HIDE DEF stay, came
<1>12. Cardinality(came) >= MaxTracked
  BY <1>9, <1>10, <1>11
<1> QED BY <1>12 DEF came

-----------------------------------------------------------------------------
(* Theorems.                                                               *)

\* The inductive invariant of the detector holds.
THEOREM DetectionInvariant == Spec => []DetectionInv
  BY DetectionInit, DetectionStep, PTL DEF Spec

\* TypeOK is an invariant of the detector: the map of windows never outgrows its bound.
THEOREM TypeCorrect == Spec => []TypeOK
<1>1. DetectionInv => TypeOK
  BY DEF DetectionInv
<1> QED BY <1>1, DetectionInvariant, PTL

\* Two alerts for a client that is not forgotten in between are a cooldown apart in the time
\* of their events, in whatever order events of different age arrive.
THEOREM AlertsAreSpaced == Spec => []AlertsSpaced
<1>1. DetectionInv => AlertsSpaced
  BY DEF DetectionInv
<1> QED BY <1>1, DetectionInvariant, PTL

\* No attack passes in silence: a committed request whose rules alone reach the threshold has
\* an alert on the broker, its own or one less than a cooldown older, and every committed
\* request has the evidence of the rules it was matched with, whatever batches died, windows
\* were forgotten and rules were replaced.
THEOREM NoAttackInSilence == Spec => []EveryAttackAnswered
<1>1. DetectionInv => EveryAttackAnswered
  <2> SUFFICES ASSUME DetectionInv PROVE EveryAttackAnswered
    OBVIOUS
  <2>1. EveryAttackAlerted
    BY DEF DetectionInv, AttacksAlerted, SentFor, EveryAttackAlerted
  <2>2. EveryAttackReported
    BY DEF DetectionInv, AttacksReported, SentFor, EveryAttackReported
  <2> QED BY <2>1, <2>2 DEF EveryAttackAnswered
<1> QED BY <1>1, DetectionInvariant, PTL

\* A running detector forgets a client only when it was idle for two windows, or when
\* MaxTracked others made requests since its last one.
THEOREM ActiveAreRemembered == Spec => ActiveIsRemembered
<1>1. DetectionInv /\ [Next]_vars =>
        [\A c \in Tracked \ Tracked' :
           \/ faults' > faults
           \/ windows[c].lastProcessed < clock - 2 * WindowSeconds
           \/ LET last == CHOOSE i \in Seen(c) : \A j \in Seen(c) : j <= i IN
              Cardinality({log'[i].client : i \in {j \in DOMAIN found' : j > last}})
                >= MaxTracked]_vars
  <2> SUFFICES ASSUME DetectionInv, Next, NEW c \in Tracked \ Tracked', ~ (faults' > faults),
                      ~ (windows[c].lastProcessed < clock - 2 * WindowSeconds)
               PROVE  LET last == CHOOSE i \in Seen(c) : \A j \in Seen(c) : j <= i IN
                      Cardinality({log'[i].client : i \in {j \in DOMAIN found' : j > last}})
                        >= MaxTracked
    BY Zenon
  <2>1. faults \in Nat
    BY DetectionAssumption DEF DetectionInv, TypeOK
  <2>2. ~ Fault
    BY <2>1 DEF Fault
  <2>3. ~ UNCHANGED windows
    BY DEF Tracked
  <2>4. PICK e \in Inputs : Process(e)
    BY <2>2, <2>3 DEF Next, Commit, Restart, Tick, ReplaceRules, memory
  <2>5. Analyse(pos + 1, e)
    BY <2>3, <2>4 DEF Process, DeadLetter, Skip, memory
  <2> QED BY <2>4, <2>5, OthersCameSince, Zenon
<1> QED BY <1>1, DetectionInvariant, PTL DEF Spec, ActiveIsRemembered

-----------------------------------------------------------------------------
(* Sums of counts.                                                         *)

\* The recursion that a sum over the finite set S unfolds to.
SumsUp(g, f, S) ==
  g = [s \in SUBSET S |->
         IF s = {} THEN 0
         ELSE LET x == CHOOSE x \in s : TRUE IN f[x] + g[s \ {x}]]

\* SumFunction is the value at its domain of some function of that recursion, if there is one.
LEMMA SumUnfolds ==
  ASSUME NEW S, NEW f, DOMAIN f = S, NEW h, SumsUp(h, f, S)
  PROVE  \E g : SumsUp(g, f, S) /\ SumFunction(f) = g[S]
<1> DEFINE g == CHOOSE g : SumsUp(g, f, S)
<1>1. SumsUp(g, f, S)
  BY Zenon
<1>2. SumFunction(f) = g[S]
  BY DEF SumFunction, SumFunctionOnSet, FoldFunctionOnSet, MapThenFoldSet, SumsUp
<1> QED BY <1>1, <1>2

\* That recursion has one solution, when S is finite.
LEMMA SumIsUnique ==
  ASSUME NEW S, IsFiniteSet(S), NEW f, NEW g, SumsUp(g, f, S), NEW h, SumsUp(h, f, S)
  PROVE  g[S] = h[S]
<1> DEFINE Differ == {s \in SUBSET S : g[s] # h[s]}
           Sizes == {Cardinality(s) : s \in Differ}
<1>1. \A s \in SUBSET S : IsFiniteSet(s) /\ Cardinality(s) \in Nat
  BY FS_Subset, FS_CardinalityType
<1>2. SUFFICES ASSUME Differ # {} PROVE FALSE
  BY Zenon
<1>3. Sizes \subseteq Nat /\ Sizes # {}
  BY <1>1, <1>2
<1>4. PICK n \in Sizes : \A m \in Sizes : ~ (<<m, n>> \in OpToRel(<, Nat))
  BY <1>3, NatLessThanWellFounded, WFMin
<1>5. PICK s \in Differ : Cardinality(s) = n
  BY <1>4
<1> DEFINE x == CHOOSE x \in s : TRUE
<1>6. s \in SUBSET S /\ g[s] # h[s] /\ IsFiniteSet(s) /\ Cardinality(s) \in Nat
  BY <1>1, <1>5
<1>7. s # {}
  BY <1>6 DEF SumsUp
<1>8. x \in s
  BY <1>7
<1>9. g[s] = f[x] + g[s \ {x}] /\ h[s] = f[x] + h[s \ {x}]
  BY <1>6, <1>7, Zenon DEF SumsUp
<1>10. s \ {x} \in Differ
  BY <1>6, <1>9
<1>11. Cardinality(s \ {x}) = Cardinality(s) - 1
  BY <1>6, <1>8, FS_RemoveElement
<1>12. Cardinality(s \ {x}) \in Sizes
  BY <1>10
<1>13. Cardinality(s \ {x}) \in Nat /\ Cardinality(s \ {x}) < n
  BY <1>3, <1>5, <1>6, <1>11, <1>12
<1> HIDE DEF Sizes, x
<1> QED BY <1>3, <1>4, <1>12, <1>13 DEF OpToRel

\* The sizes of the parts of a finite set add up to the size of what they cover.
LEMMA PartsAddUp ==
  ASSUME NEW I, IsFiniteSet(I), NEW key, NEW S, IsFiniteSet(S),
         NEW f, DOMAIN f = S, \A s \in S : f[s] = Cardinality({i \in I : key[i] = s})
  PROVE  SumFunction(f) = Cardinality({i \in I : key[i] \in S})
<1> DEFINE Over(s) == {i \in I : key[i] \in s}
           h == [s \in SUBSET S |-> Cardinality(Over(s))]
<1>1. \A s : IsFiniteSet(Over(s)) /\ Cardinality(Over(s)) \in Nat
  BY FS_Subset, FS_CardinalityType
<1>2. ASSUME NEW s \in SUBSET S, s = {} PROVE h[s] = 0
  <2>1. Over(s) = {}
    BY <1>2
  <2> QED BY <1>2, <2>1, FS_EmptySet
<1>3. ASSUME NEW s \in SUBSET S, NEW x \in s PROVE h[s] = f[x] + h[s \ {x}]
  <2> DEFINE one == {i \in I : key[i] = x}
             rest == Over(s \ {x})
  <2>1. one = Over({x}) /\ Over(s) = one \cup rest /\ one \cap rest = {}
    OBVIOUS
  <2>2. /\ IsFiniteSet(one) /\ Cardinality(one) \in Nat
        /\ IsFiniteSet(rest) /\ Cardinality(rest) \in Nat
    BY <1>1, <2>1
  <2>3. f[x] = Cardinality(one) /\ h[s] = Cardinality(Over(s)) /\ h[s \ {x}] = Cardinality(rest)
    OBVIOUS
  <2> HIDE DEF one, rest, Over, h
  <2>4. Cardinality(one \cup rest) = Cardinality(one) + Cardinality(rest) - Cardinality({})
    BY <2>1, <2>2, FS_Union
  <2> QED BY <2>1, <2>2, <2>3, <2>4, FS_EmptySet
<1>4. SumsUp(h, f, S)
  <2>1. ASSUME NEW s \in SUBSET S
        PROVE  h[s] = IF s = {} THEN 0
                      ELSE LET x == CHOOSE x \in s : TRUE IN f[x] + h[s \ {x}]
    <3> DEFINE x == CHOOSE x \in s : TRUE
    <3>1. CASE s = {}
      BY <1>2, <3>1, Zenon
    <3>2. CASE s # {}
      <4>1. x \in s
        BY <3>2
      <4>2. h[s] = f[x] + h[s \ {x}]
        BY <1>3, <4>1, Zenon
      <4> QED BY <3>2, <4>2, Zenon
    <3> QED BY <3>1, <3>2
  <2> DEFINE k == [s \in SUBSET S |->
                     IF s = {} THEN 0
                     ELSE LET x == CHOOSE x \in s : TRUE IN f[x] + h[s \ {x}]]
  <2>2. h = k
    <3>1. DOMAIN h = SUBSET S /\ h = [s \in SUBSET S |-> h[s]]
      OBVIOUS
    <3> HIDE DEF h
    <3> QED BY <2>1, <3>1, Zenon
  <2> HIDE DEF h
  <2> QED BY <2>2, Zenon DEF SumsUp
<1>5. PICK g : SumsUp(g, f, S) /\ SumFunction(f) = g[S]
  <2> HIDE DEF h
  <2> QED BY <1>4, SumUnfolds, Zenon
<1>6. g[S] = h[S]
  <2> HIDE DEF h
  <2> QED BY <1>4, <1>5, SumIsUnique
<1>7. h[S] = Cardinality(Over(S))
  OBVIOUS
<1> QED BY <1>5, <1>6, <1>7, Zenon

-----------------------------------------------------------------------------
(* What a window, or a bucket, counts of the records K of the log L.       *)

ErrorsIn(K, L) == {i \in K : L[i].path # Asset /\ L[i].error}
VisitsIn(K, L, p) == {i \in K : L[i].path # Asset /\ L[i].path = p}

Tallies(r, K, L) ==
  /\ r.requests = Cardinality(K)
  /\ r.errors = Cardinality(ErrorsIn(K, L))
  /\ r.paths = [p \in Paths |-> Cardinality(VisitsIn(K, L, p))]

Bucket == [requests : Nat, errors : Nat, paths : [Paths -> Nat]]

OfSecond(K, L, s) == {i \in K : L[i].second = s}

\* The totals of window w tally the records K, and each bucket those of its second.
Exact(w, K, L) ==
  /\ IsFiniteSet(K) /\ IsFiniteSet(DOMAIN w.buckets) /\ DOMAIN w.buckets \subseteq Int
  /\ Tallies(w, K, L)
  /\ \A s \in DOMAIN w.buckets :
       w.buckets[s] \in Bucket /\ Tallies(w.buckets[s], OfSecond(K, L, s), L)
  /\ \A i \in K : L[i].second \in DOMAIN w.buckets

\* What is taken off for the parts S of a finite set leaves the size of the rest.
LEMMA TakenOff ==
  ASSUME NEW I, IsFiniteSet(I), NEW key, NEW S, IsFiniteSet(S),
         NEW f, DOMAIN f = S, \A s \in S : f[s] = Cardinality({i \in I : key[i] = s})
  PROVE  Cardinality(I) - SumFunction(f) = Cardinality({i \in I : key[i] \notin S})
<1> DEFINE out == {i \in I : key[i] \in S}
           left == {i \in I : key[i] \notin S}
<1>1. SumFunction(f) = Cardinality(out)
  BY PartsAddUp
<1>2. IsFiniteSet(out) /\ Cardinality(out) \in Nat /\ IsFiniteSet(left) /\ Cardinality(left) \in Nat
  BY FS_Subset, FS_CardinalityType
<1>3. I = out \cup left /\ out \cap left = {}
  OBVIOUS
<1> HIDE DEF out, left
<1>4. Cardinality(I) = Cardinality(out) + Cardinality(left) - Cardinality({})
  BY <1>2, <1>3, FS_Union
<1>5. Cardinality(I) - SumFunction(f) = Cardinality(left)
  BY <1>1, <1>2, <1>4, FS_EmptySet
<1> QED BY <1>5 DEF left

\* A window or a bucket: a record with the three totals, and perhaps other fields.
HasTotals(r) == {"requests", "errors", "paths"} \subseteq DOMAIN r /\ r = [x \in DOMAIN r |-> r[x]]

\* Counting a request tallies one record more.
LEMMA CountedTallies ==
  ASSUME NEW L, NEW K, IsFiniteSet(K), NEW i, i \notin K, NEW e, L[i] = e, e.error \in BOOLEAN,
         NEW r, HasTotals(r), Tallies(r, K, L)
  PROVE  Tallies(Counted(r, e), K \cup {i}, L)
<1> DEFINE counts == e.path # Asset
           more == K \cup {i}
           c == Counted(r, e)
<1>1. /\ c.requests = r.requests + 1
      /\ c.errors = r.errors + (IF counts /\ e.error THEN 1 ELSE 0)
      /\ c.paths = [p \in Paths |-> r.paths[p] + (IF counts /\ p = e.path THEN 1 ELSE 0)]
  BY DEF Counted, HasTotals
<1>2. c.requests = Cardinality(more)
  <2>1. c.requests = Cardinality(K) + 1
    BY <1>1 DEF Tallies
  <2> HIDE DEF c
  <2> QED BY <2>1, FS_AddElement
<1>3. c.errors = Cardinality(ErrorsIn(more, L))
  <2>1. IsFiniteSet(ErrorsIn(K, L)) /\ i \notin ErrorsIn(K, L)
    BY FS_Subset DEF ErrorsIn
  <2>2. CASE counts /\ e.error
    <3>1. ErrorsIn(more, L) = ErrorsIn(K, L) \cup {i}
      BY <2>2 DEF ErrorsIn
    <3>2. c.errors = Cardinality(ErrorsIn(K, L)) + 1
      BY <1>1, <2>2 DEF Tallies
    <3> HIDE DEF c
    <3> QED BY <2>1, <3>1, <3>2, FS_AddElement
  <2>3. CASE ~ (counts /\ e.error)
    <3>1. ErrorsIn(more, L) = ErrorsIn(K, L)
      BY <2>3 DEF ErrorsIn
    <3>2. Cardinality(ErrorsIn(K, L)) \in Nat
      BY <2>1, FS_CardinalityType
    <3> QED BY <1>1, <2>3, <3>1, <3>2 DEF Tallies
  <2> QED BY <2>2, <2>3
<1>4. ASSUME NEW p \in Paths PROVE c.paths[p] = Cardinality(VisitsIn(more, L, p))
  <2>1. IsFiniteSet(VisitsIn(K, L, p)) /\ i \notin VisitsIn(K, L, p)
    BY FS_Subset DEF VisitsIn
  <2>2. c.paths[p] = Cardinality(VisitsIn(K, L, p)) + (IF counts /\ p = e.path THEN 1 ELSE 0)
    BY <1>1 DEF Tallies
  <2>3. CASE counts /\ p = e.path
    <3>1. VisitsIn(more, L, p) = VisitsIn(K, L, p) \cup {i}
      BY <2>3 DEF VisitsIn
    <3> QED BY <2>1, <2>2, <2>3, <3>1, FS_AddElement
  <2>4. CASE ~ (counts /\ p = e.path)
    <3>1. VisitsIn(more, L, p) = VisitsIn(K, L, p)
      BY <2>4 DEF VisitsIn
    <3>2. Cardinality(VisitsIn(K, L, p)) \in Nat
      BY <2>1, FS_CardinalityType
    <3> QED BY <2>2, <2>4, <3>1, <3>2
  <2> QED BY <2>3, <2>4
<1>5. c.paths = [p \in Paths |-> Cardinality(VisitsIn(more, L, p))]
  <2>1. c.paths = [p \in Paths |-> c.paths[p]]
    BY <1>1
  <2> HIDE DEF c, more
  <2> QED BY <1>4, <2>1
<1> HIDE DEF c, more
<1>6. Tallies(c, more, L)
  BY <1>2, <1>3, <1>5 DEF Tallies
<1> QED BY <1>6 DEF c, more

\* A bucket stays one when a request is counted in it.
LEMMA CountedIsBucket ==
  ASSUME NEW b \in Bucket, NEW e
  PROVE  Counted(b, e) \in Bucket
<1> DEFINE counts == e.path # Asset
           c == Counted(b, e)
<1>1. /\ DOMAIN b = {"requests", "errors", "paths"}
      /\ b.requests \in Nat /\ b.errors \in Nat /\ b.paths \in [Paths -> Nat]
  BY DEF Bucket
<1>2. /\ DOMAIN c = {"requests", "errors", "paths"} /\ c = [x \in DOMAIN c |-> c[x]]
      /\ c.requests = b.requests + 1
      /\ c.errors = b.errors + (IF counts /\ e.error THEN 1 ELSE 0)
      /\ c.paths = [p \in Paths |-> b.paths[p] + (IF counts /\ p = e.path THEN 1 ELSE 0)]
  BY <1>1 DEF Counted
<1>3. \A p \in Paths : b.paths[p] + (IF counts /\ p = e.path THEN 1 ELSE 0) \in Nat
  BY <1>1
<1>4. b.requests + 1 \in Nat /\ b.errors + (IF counts /\ e.error THEN 1 ELSE 0) \in Nat
  BY <1>1
<1>5. c.requests \in Nat /\ c.errors \in Nat /\ c.paths \in [Paths -> Nat]
  <2> HIDE DEF c
  <2> QED BY <1>2, <1>3, <1>4
<1> HIDE DEF c
<1>6. c = [requests |-> c.requests, errors |-> c.errors, paths |-> c.paths]
  BY <1>2
<1>7. c \in Bucket
  BY <1>5, <1>6 DEF Bucket
<1> QED BY <1>7 DEF c

\* Adding a request that the window did not cover leaves it exact.
LEMMA AddIsExact ==
  ASSUME NEW w, IsWindow(w), NEW L, NEW K, Exact(w, K, L),
         NEW i, i \notin K, NEW e \in Inputs, L[i] = e
  PROVE  Exact(Add(w, e), K \cup {i}, L)
<1> DEFINE t == e.second
           old == IF t \in DOMAIN w.buckets THEN w.buckets[t] ELSE NewBucket
           buckets == [s \in DOMAIN w.buckets \cup {t} |->
                         IF s = t THEN Counted(old, e) ELSE w.buckets[s]]
           c == Counted(w, e)
           more == K \cup {i}
           a == [c EXCEPT !.buckets = buckets]
<1>1. e.second \in Nat /\ e.error \in BOOLEAN
  BY DetectionAssumption
<1>2. /\ IsFiniteSet(K) /\ IsFiniteSet(DOMAIN w.buckets) /\ DOMAIN w.buckets \subseteq Int
      /\ Tallies(w, K, L)
      /\ \A s \in DOMAIN w.buckets :
           w.buckets[s] \in Bucket /\ Tallies(w.buckets[s], OfSecond(K, L, s), L)
      /\ \A j \in K : L[j].second \in DOMAIN w.buckets
  BY DEF Exact
<1>3. /\ DOMAIN w = Fields /\ w = [x \in DOMAIN w |-> w[x]]
      /\ {"requests", "errors", "paths"} \subseteq DOMAIN w
  BY DEF IsWindow, Fields
<1>4. Tallies(c, more, L) /\ c = [x \in DOMAIN w |-> c[x]]
  <2>1. /\ IsFiniteSet(K) /\ i \notin K /\ L[i] = e /\ e.error \in BOOLEAN
        /\ HasTotals(w) /\ Tallies(w, K, L)
    BY <1>1, <1>2, <1>3 DEF HasTotals
  <2>2. Tallies(Counted(w, e), K \cup {i}, L)
    BY <2>1, CountedTallies
  <2>3. Counted(w, e) = [x \in DOMAIN w |-> Counted(w, e)[x]]
    BY <1>3 DEF Counted
  <2> QED BY <2>2, <2>3
<1>5. /\ a.buckets = buckets /\ a.requests = c.requests /\ a.errors = c.errors
      /\ a.paths = c.paths
  <2> HIDE DEF c, buckets
  <2> QED BY <1>3, <1>4 DEF Fields
<1>6. Tallies(a, more, L)
  <2> HIDE DEF c, a, more
  <2> QED BY <1>4, <1>5 DEF Tallies
<1>7. /\ IsFiniteSet(more) /\ IsFiniteSet(DOMAIN buckets) /\ DOMAIN buckets \subseteq Int
      /\ DOMAIN buckets = DOMAIN w.buckets \cup {t}
  <2>1. IsFiniteSet(more) /\ IsFiniteSet(DOMAIN w.buckets \cup {t})
    BY <1>2, FS_AddElement
  <2>2. DOMAIN buckets = DOMAIN w.buckets \cup {t}
    OBVIOUS
  <2> HIDE DEF buckets, more
  <2> QED BY <1>1, <1>2, <2>1, <2>2
<1>8. old \in Bucket /\ Tallies(old, OfSecond(K, L, t), L)
  <2>1. CASE t \in DOMAIN w.buckets
    BY <1>2, <2>1
  <2>2. CASE t \notin DOMAIN w.buckets
    <3>1. OfSecond(K, L, t) = {}
      BY <1>2, <2>2 DEF OfSecond
    <3>2. ErrorsIn({}, L) = {} /\ \A p \in Paths : VisitsIn({}, L, p) = {}
      BY DEF ErrorsIn, VisitsIn
    <3>3. Tallies(NewBucket, {}, L)
      BY <3>2, FS_EmptySet DEF NewBucket, Tallies
    <3>4. NewBucket \in Bucket
      BY DEF NewBucket, Bucket
    <3> QED BY <2>2, <3>1, <3>3, <3>4
  <2> QED BY <2>1, <2>2
<1>9. Counted(old, e) \in Bucket
  <2> HIDE DEF old
  <2> QED BY <1>8, CountedIsBucket
<1>10. Tallies(Counted(old, e), OfSecond(K, L, t) \cup {i}, L)
  <2>1. IsFiniteSet(OfSecond(K, L, t)) /\ i \notin OfSecond(K, L, t)
    BY <1>2, FS_Subset DEF OfSecond
  <2> HIDE DEF old
  <2>2. HasTotals(old)
    BY <1>8 DEF Bucket, HasTotals
  <2> QED BY <1>1, <1>8, <2>1, <2>2, CountedTallies
<1>11. OfSecond(more, L, t) = OfSecond(K, L, t) \cup {i}
  BY DEF OfSecond
<1>12. \A s : s # t => OfSecond(more, L, s) = OfSecond(K, L, s)
  BY DEF OfSecond
<1>13. ASSUME NEW s \in DOMAIN buckets
       PROVE  buckets[s] \in Bucket /\ Tallies(buckets[s], OfSecond(more, L, s), L)
  <2>1. CASE s = t
    <3>1. buckets[s] = Counted(old, e)
      BY <2>1
    <3> HIDE DEF old, buckets, more
    <3> QED BY <1>9, <1>10, <1>11, <2>1, <3>1
  <2>2. CASE s # t
    <3>1. buckets[s] = w.buckets[s] /\ s \in DOMAIN w.buckets
      BY <2>2
    <3> HIDE DEF old, buckets, more
    <3> QED BY <1>2, <1>12, <2>2, <3>1
  <2> QED BY <2>1, <2>2
<1>14. \A j \in more : L[j].second \in DOMAIN buckets
  BY <1>2, <1>7
<1>15. Add(w, e) = a
  BY Zenon DEF Add
<1> HIDE DEF a, more, buckets
<1>16. Exact(a, more, L)
  BY <1>5, <1>6, <1>7, <1>13, <1>14 DEF Exact
<1> QED BY <1>15, <1>16 DEF more

\* Expiring the buckets up to cutoff takes off exactly the requests up to cutoff.
LEMMA ExpireIsExact ==
  ASSUME NEW w, IsWindow(w), NEW L, NEW K, Exact(w, K, L), NEW cutoff \in Int
  PROVE  Exact(Expire(w, cutoff), {i \in K : L[i].second > cutoff}, L)
<1> DEFINE gone == {s \in DOMAIN w.buckets : s <= cutoff}
           left == DOMAIN w.buckets \ gone
           rest == {i \in K : L[i].second > cutoff}
           key == [i \in K |-> L[i].second]
           requests == [s \in gone |-> w.buckets[s].requests]
           errors == [s \in gone |-> w.buckets[s].errors]
           paths(p) == [s \in gone |-> w.buckets[s].paths[p]]
           buckets == [s \in left |-> w.buckets[s]]
           a == Expire(w, cutoff)
<1>1. /\ IsFiniteSet(K) /\ IsFiniteSet(DOMAIN w.buckets) /\ DOMAIN w.buckets \subseteq Int
      /\ Tallies(w, K, L)
      /\ \A s \in DOMAIN w.buckets :
           w.buckets[s] \in Bucket /\ Tallies(w.buckets[s], OfSecond(K, L, s), L)
      /\ \A i \in K : L[i].second \in DOMAIN w.buckets
  BY DEF Exact
<1>2. /\ a.buckets = buckets
      /\ a.requests = w.requests - SumFunction(requests)
      /\ a.errors = w.errors - SumFunction(errors)
      /\ a.paths = [p \in Paths |-> w.paths[p] - SumFunction(paths(p))]
  BY DEF Expire, IsWindow, Fields
<1>3. IsFiniteSet(gone) /\ IsFiniteSet(left) /\ left \subseteq Int
  BY <1>1, FS_Subset
<1>4. \A i \in K : key[i] \notin gone <=> i \in rest
  BY <1>1
<1>5. \A s \in gone : Tallies(w.buckets[s], OfSecond(K, L, s), L)
  BY <1>1
<1>6. a.requests = Cardinality(rest)
  <2>1. ASSUME NEW s \in gone PROVE requests[s] = Cardinality({i \in K : key[i] = s})
    <3>1. OfSecond(K, L, s) = {i \in K : key[i] = s}
      BY DEF OfSecond
    <3>2. requests[s] = w.buckets[s].requests
      OBVIOUS
    <3> HIDE DEF requests, gone, key
    <3> QED BY <1>5, <3>1, <3>2 DEF Tallies
  <2>2. DOMAIN requests = gone
    OBVIOUS
  <2>3. {i \in K : key[i] \notin gone} = rest
    <3> HIDE DEF gone, key
    <3> QED BY <1>4 DEF rest
  <2> HIDE DEF requests, gone, key, rest, a
  <2>4. Cardinality(K) - SumFunction(requests) = Cardinality({i \in K : key[i] \notin gone})
    BY <1>1, <1>3, <2>1, <2>2, TakenOff
  <2> QED BY <1>1, <1>2, <2>3, <2>4 DEF Tallies
<1>7. a.errors = Cardinality(ErrorsIn(rest, L))
  <2> DEFINE I == ErrorsIn(K, L)
  <2>1. ASSUME NEW s \in gone PROVE errors[s] = Cardinality({i \in I : key[i] = s})
    <3>1. ErrorsIn(OfSecond(K, L, s), L) = {i \in I : key[i] = s}
      BY DEF OfSecond, ErrorsIn
    <3>2. errors[s] = w.buckets[s].errors
      OBVIOUS
    <3> HIDE DEF errors, gone, key, I
    <3> QED BY <1>5, <3>1, <3>2 DEF Tallies
  <2>2. DOMAIN errors = gone /\ IsFiniteSet(I) /\ I \subseteq K
    BY <1>1, FS_Subset DEF ErrorsIn
  <2>3. {i \in I : key[i] \notin gone} = ErrorsIn(rest, L)
    <3> HIDE DEF gone, key, rest
    <3> QED BY <1>4 DEF ErrorsIn, rest
  <2> HIDE DEF errors, gone, key, rest, a, I
  <2>4. Cardinality(I) - SumFunction(errors) = Cardinality({i \in I : key[i] \notin gone})
    BY <1>3, <2>1, <2>2, TakenOff
  <2>5. a.errors = Cardinality(I) - SumFunction(errors)
    BY <1>1, <1>2 DEF Tallies, I
  <2> QED BY <2>3, <2>4, <2>5
<1>8. ASSUME NEW p \in Paths PROVE a.paths[p] = Cardinality(VisitsIn(rest, L, p))
  <2> DEFINE I == VisitsIn(K, L, p)
             f == paths(p)
  <2>1. ASSUME NEW s \in gone PROVE f[s] = Cardinality({i \in I : key[i] = s})
    <3>1. VisitsIn(OfSecond(K, L, s), L, p) = {i \in I : key[i] = s}
      BY DEF OfSecond, VisitsIn
    <3>2. f[s] = w.buckets[s].paths[p]
      OBVIOUS
    <3>3. w.buckets[s].paths[p] = Cardinality(VisitsIn(OfSecond(K, L, s), L, p))
      <4> HIDE DEF gone
      <4> QED BY <1>5 DEF Tallies
    <3> HIDE DEF f, gone, key, I
    <3> QED BY <3>1, <3>2, <3>3
  <2>2. DOMAIN f = gone /\ IsFiniteSet(I) /\ I \subseteq K
    BY <1>1, FS_Subset DEF VisitsIn
  <2>3. {i \in I : key[i] \notin gone} = VisitsIn(rest, L, p)
    <3> HIDE DEF gone, key, rest
    <3> QED BY <1>4 DEF VisitsIn, rest
  <2>4. a.paths[p] = w.paths[p] - SumFunction(f)
    <3> HIDE DEF a, gone
    <3> QED BY <1>2
  <2> HIDE DEF f, gone, key, rest, a, I
  <2>5. Cardinality(I) - SumFunction(f) = Cardinality({i \in I : key[i] \notin gone})
    BY <1>3, <2>1, <2>2, TakenOff
  <2>6. w.paths[p] = Cardinality(I)
    BY <1>1 DEF Tallies, I
  <2> QED BY <2>3, <2>4, <2>5, <2>6
<1>9. a.paths = [p \in Paths |-> Cardinality(VisitsIn(rest, L, p))]
  <2>1. a.paths = [p \in Paths |-> a.paths[p]]
    BY <1>2
  <2> HIDE DEF a, rest
  <2> QED BY <1>8, <2>1
<1>10. ASSUME NEW s \in left
       PROVE  /\ s \in DOMAIN w.buckets /\ buckets[s] = w.buckets[s]
              /\ OfSecond(rest, L, s) = OfSecond(K, L, s)
  <2>1. s \in DOMAIN w.buckets /\ s > cutoff /\ buckets[s] = w.buckets[s]
    BY <1>1
  <2>2. OfSecond(rest, L, s) = OfSecond(K, L, s)
    BY <2>1 DEF OfSecond
  <2> QED BY <2>1, <2>2
<1>11. IsFiniteSet(rest) /\ DOMAIN buckets = left
  BY <1>1, FS_Subset
<1>12. \A i \in rest : L[i].second \in left
  BY <1>1
<1> HIDE DEF a, rest, left, buckets
<1>13. Tallies(a, rest, L)
  BY <1>6, <1>7, <1>9 DEF Tallies
<1>14. \A s \in left : buckets[s] \in Bucket /\ Tallies(buckets[s], OfSecond(rest, L, s), L)
  BY <1>1, <1>10
<1>15. Exact(a, rest, L)
  BY <1>2, <1>3, <1>11, <1>12, <1>13, <1>14 DEF Exact
<1> QED BY <1>15 DEF a, rest

\* Only the totals and the buckets of a window count.
LEMMA SameTotals ==
  ASSUME NEW w, NEW L, NEW K, Exact(w, K, L),
         NEW v, v.buckets = w.buckets, v.requests = w.requests, v.errors = w.errors,
         v.paths = w.paths
  PROVE  Exact(v, K, L)
<1>1. Tallies(v, K, L)
  BY DEF Exact, Tallies
<1> QED BY <1>1 DEF Exact

\* Only the records that are counted count.
LEMMA SameRecords ==
  ASSUME NEW w, NEW L, NEW K, Exact(w, K, L), NEW M, \A i \in K : M[i] = L[i]
  PROVE  Exact(w, K, M)
<1>1. ASSUME NEW J \in SUBSET K, NEW r, Tallies(r, J, L) PROVE Tallies(r, J, M)
  <2>1. ErrorsIn(J, L) = ErrorsIn(J, M)
    BY DEF ErrorsIn
  <2>2. \A p : VisitsIn(J, L, p) = VisitsIn(J, M, p)
    BY DEF VisitsIn
  <2>3. [p \in Paths |-> Cardinality(VisitsIn(J, L, p))] = [p \in Paths |-> Cardinality(VisitsIn(J, M, p))]
    BY <2>2
  <2> QED BY <1>1, <2>1, <2>3, Zenon DEF Tallies
<1>2. \A s : OfSecond(K, L, s) \in SUBSET K /\ OfSecond(K, L, s) = OfSecond(K, M, s)
  BY DEF OfSecond
<1>3. Tallies(w, K, M)
  BY <1>1 DEF Exact
<1>4. \A s \in DOMAIN w.buckets :
        w.buckets[s] \in Bucket /\ Tallies(w.buckets[s], OfSecond(K, M, s), M)
  BY <1>1, <1>2 DEF Exact
<1>5. \A i \in K : M[i].second \in DOMAIN w.buckets
  BY DEF Exact
<1> QED BY <1>3, <1>4, <1>5 DEF Exact

\* The records of V that the window still covers.
Covered(w, V, L) == {i \in V : L[i].second > w.latest - WindowSeconds}

\* Sliding the window over one request more leaves it exact, however old the request is.
LEMMA SlideIsExact ==
  ASSUME NEW w, IsWindow(w), w.latest \in Int, clock \in Nat,
         NEW L, NEW V, \A j \in V : L[j] \in Inputs, Exact(w, Covered(w, V, L), L),
         NEW i, i \notin V, NEW e \in Inputs, L[i] = e
  PROVE  /\ Slide(w, e).latest \in Int
         /\ Exact(Slide(w, e), Covered(Slide(w, e), V \cup {i}, L), L)
<1> DEFINE latest == IF e.second > w.latest THEN e.second ELSE w.latest
           cutoff == latest - WindowSeconds
           expired == Expire(w, cutoff)
           slid == [expired EXCEPT !.latest = latest, !.lastProcessed = clock]
           K == Covered(w, V, L)
           rest == {j \in K : L[j].second > cutoff}
<1>1. /\ e.second \in Nat /\ \A j \in V : L[j].second \in Nat
      /\ WindowSeconds \in Nat
  BY DetectionAssumption
<1>2. latest \in Int /\ cutoff \in Int /\ latest >= w.latest
  BY <1>1
<1>3. rest = {j \in V : L[j].second > cutoff}
  BY <1>1, <1>2 DEF Covered
<1>4. Exact(expired, rest, L)
  <2> HIDE DEF cutoff, K
  <2> QED BY <1>2, ExpireIsExact DEF K
<1>5. IsWindow(expired)
  BY DEF IsWindow, Fields, Expire
<1>6. /\ slid.buckets = expired.buckets /\ slid.requests = expired.requests
      /\ slid.errors = expired.errors /\ slid.paths = expired.paths
      /\ slid.latest = latest /\ IsWindow(slid)
  <2> HIDE DEF expired, latest
  <2> QED BY <1>5 DEF IsWindow, Fields
<1>7. Exact(slid, rest, L)
  <2> HIDE DEF slid, rest, expired
  <2> QED BY <1>4, <1>6, SameTotals
<1>8. Slide(w, e) = IF e.second > cutoff THEN Add(slid, e) ELSE slid
  BY Zenon DEF Slide
<1>9. CASE e.second > cutoff
  <2>1. Slide(w, e) = Add(slid, e)
    BY <1>8, <1>9, Zenon
  <2>2. Add(slid, e).latest = latest
    <3> HIDE DEF slid, latest
    <3> QED BY <1>6 DEF Add, Counted, IsWindow, Fields
  <2>3. i \notin rest
    BY <1>3
  <2>4. Exact(Add(slid, e), rest \cup {i}, L)
    <3> HIDE DEF slid, rest
    <3> QED BY <1>6, <1>7, <2>3, AddIsExact
  <2>5. {j \in V \cup {i} : L[j].second > cutoff} = rest \cup {i}
    BY <1>3, <1>9
  <2> HIDE DEF slid, rest, latest
  <2> QED BY <1>2, <2>1, <2>2, <2>4, <2>5 DEF Covered
<1>10. CASE ~ (e.second > cutoff)
  <2>1. Slide(w, e) = slid
    BY <1>8, <1>10, Zenon
  <2>2. {j \in V \cup {i} : L[j].second > cutoff} = rest
    BY <1>3, <1>10
  <2> HIDE DEF slid, rest, latest
  <2> QED BY <1>2, <1>6, <1>7, <2>1, <2>2 DEF Covered
<1> QED BY <1>9, <1>10

-----------------------------------------------------------------------------
(* Every step keeps the windows exact.                                     *)

\* WindowIsExact, with the buckets from which the totals are taken off.
WindowsExact ==
  \A c \in Tracked :
    /\ windows[c].latest \in Int
    /\ Exact(windows[c], Covered(windows[c], Seen(c), log), log)

\* A window without records.
LEMMA NewIsExact ==
  ASSUME NEW L
  PROVE  NewWindow.latest \in Int /\ Exact(NewWindow, Covered(NewWindow, {}, L), L)
<1>1. Covered(NewWindow, {}, L) = {} /\ ErrorsIn({}, L) = {} /\ \A p \in Paths : VisitsIn({}, L, p) = {}
  BY DEF Covered, ErrorsIn, VisitsIn
<1>2. /\ NewWindow.latest \in Int /\ DOMAIN NewWindow.buckets = {}
      /\ NewWindow.requests = 0 /\ NewWindow.errors = 0 /\ NewWindow.paths = [p \in Paths |-> 0]
  BY DEF NewWindow, EmptyFunction, Never
<1>3. IsFiniteSet({}) /\ Cardinality({}) = 0
  BY FS_EmptySet
<1>4. [p \in Paths |-> 0] = [p \in Paths |-> Cardinality(VisitsIn({}, L, p))]
  BY <1>1, <1>3
<1>5. Tallies(NewWindow, {}, L)
  BY <1>1, <1>2, <1>3, <1>4 DEF Tallies
<1>6. Exact(NewWindow, {}, L)
  BY <1>2, <1>3, <1>5 DEF Exact
<1> QED BY <1>1, <1>2, <1>6

\* The records of clients that a window has seen lie before the next one.
LEMMA SeenAreRecords ==
  ASSUME TypeOK, NEW c
  PROVE  Seen(c) \subseteq 1..pos /\ \A i \in Seen(c) : log[i] \in Inputs
<1>1. DOMAIN found \subseteq 1..pos /\ pos \in 0..Len(log) /\ log \in Seq(Inputs)
  BY DEF TypeOK
<1>2. \A i \in 1..pos : log[i] \in Inputs
  BY <1>1
<1> QED BY <1>1, <1>2 DEF Seen

\* The window that a step leaves alone, of a client whose records it leaves alone.
LEMMA SameWindow ==
  ASSUME TypeOK, WindowsExact, NEW d \in Tracked, windows'[d] = windows[d], Seen(d)' = Seen(d),
         \A i \in 1..pos : log'[i] = log[i]
  PROVE  /\ windows'[d].latest \in Int
         /\ Exact(windows'[d], Covered(windows'[d], Seen(d)', log'), log')
<1> DEFINE w == windows[d]
           V == Seen(d)
<1>1. \A i \in V : log'[i] = log[i]
  BY SeenAreRecords
<1>2. Covered(w, V, log') = Covered(w, V, log) /\ \A i \in Covered(w, V, log) : log'[i] = log[i]
  <2> HIDE DEF w, V
  <2> QED BY <1>1 DEF Covered
<1>3. w.latest \in Int /\ Exact(w, Covered(w, V, log), log)
  BY DEF WindowsExact
<1>4. Exact(w, Covered(w, V, log), log')
  <2> HIDE DEF w, V
  <2> QED BY <1>2, <1>3, SameRecords
<1>5. Exact(w, Covered(w, V, log'), log')
  <2> HIDE DEF w, V
  <2> QED BY <1>2, <1>4, Zenon
<1> QED BY <1>3, <1>5

\* An analysed record: the window of its client slides, the others stay.
LEMMA AnalysedIsExact ==
  ASSUME DetectionInv, WindowsExact, NEW e \in Inputs, Process(e), Analyse(pos + 1, e)
  PROVE  WindowsExact'
<1> DEFINE i == pos + 1
           c == e.client
           matches == Match(RuleSets[rules], e.fields)
           old == IF c \in Tracked THEN windows[c] ELSE NewWindow
           w == Slide(old, e)
           V == IF c \in Tracked THEN Seen(c) ELSE {}
<1> TypeOK /\ WindowsHaveFields
  BY DEF DetectionInv
<1>1. /\ pos \in Nat /\ log'[i] = e /\ \A j \in 1..pos : log'[j] = log[j]
  BY ReadsRecord
<1>2. /\ Tracked' = Kept(c) /\ c \in Clients /\ c \in Kept(c)
      /\ \A d \in Kept(c) \ {c} : windows'[d] = windows[d]
      /\ born' = IF c \in Tracked THEN born ELSE [born EXCEPT ![c] = i]
      /\ DOMAIN found' = DOMAIN found \cup {i}
  BY AnalyseEffect
<1>3. Kept(c) \subseteq Tracked \cup {c}
  BY <1>2, KeptFacts
<1>4. DOMAIN found \subseteq 1..pos /\ born \in [Clients -> 0..pos] /\ Tracked \subseteq Clients
  BY DEF TypeOK
<1>5. windows'[c] = AfterScore(w, e, Score(w, matches))
  <2>1. windows' = [d \in Kept(c) |->
                      IF d = c THEN AfterScore(w, e, Score(w, matches)) ELSE windows[d]]
    BY Zenon DEF Analyse
  <2> HIDE DEF w, matches, c
  <2> QED BY <1>2, <2>1
<1>6. i \notin V /\ V \subseteq 1..pos /\ \A j \in V : log[j] \in Inputs /\ log'[j] = log[j]
  <2>1. CASE c \in Tracked
    BY <1>1, <2>1, SeenAreRecords
  <2>2. CASE c \notin Tracked
    BY <2>2
  <2> QED BY <2>1, <2>2
<1>7. IsWindow(old) /\ old.latest \in Int /\ Exact(old, Covered(old, V, log'), log')
  <2>1. CASE c \in Tracked
    <3>1. old = windows[c] /\ V = Seen(c)
      BY <2>1
    <3>2. IsWindow(old) /\ old.latest \in Int /\ Exact(old, Covered(old, V, log), log)
      BY <2>1, <3>1, Zenon DEF WindowsExact, WindowsHaveFields
    <3> HIDE DEF old, V
    <3>3. /\ Covered(old, V, log') = Covered(old, V, log)
          /\ \A j \in Covered(old, V, log) : log'[j] = log[j]
      BY <1>6 DEF Covered
    <3>4. Exact(old, Covered(old, V, log), log')
      BY <3>2, <3>3, SameRecords
    <3> QED BY <3>2, <3>3, <3>4, Zenon
  <2>2. CASE c \notin Tracked
    <3>1. old = NewWindow /\ V = {}
      BY <2>2
    <3>2. IsWindow(NewWindow)
      BY DEF IsWindow, Fields, NewWindow
    <3> HIDE DEF old, V
    <3> QED BY <3>1, <3>2, NewIsExact
  <2> QED BY <2>1, <2>2
<1>8. w.latest \in Int /\ Exact(w, Covered(w, V \cup {i}, log'), log') /\ IsWindow(w)
  <2>1. clock \in Nat
    BY DetectionAssumption DEF TypeOK
  <2>2. \A j \in V : log'[j] \in Inputs
    BY <1>6
  <2> HIDE DEF old, V, i
  <2> QED BY <1>1, <1>6, <1>7, <2>1, <2>2, SlideIsExact, SlideKeepsAlert
<1>9. windows'[c].latest \in Int /\ Exact(windows'[c], Covered(windows'[c], V \cup {i}, log'), log')
  <2>1. windows'[c] = w \/ windows'[c] = [w EXCEPT !.lastAlert = e.second]
    <3> HIDE DEF w, matches
    <3> QED BY <1>5 DEF AfterScore
  <2> DEFINE v == windows'[c]
  <2>2. /\ v.buckets = w.buckets /\ v.requests = w.requests /\ v.errors = w.errors
        /\ v.paths = w.paths /\ v.latest = w.latest
    <3> HIDE DEF w
    <3> QED BY <1>8, <2>1 DEF IsWindow, Fields
  <2>3. Covered(v, V \cup {i}, log') = Covered(w, V \cup {i}, log')
    <3> HIDE DEF v, w, V
    <3> QED BY <2>2 DEF Covered
  <2> HIDE DEF v, w, V, i
  <2>4. Exact(v, Covered(w, V \cup {i}, log'), log')
    BY <1>8, <2>2, SameTotals
  <2>5. v.latest \in Int /\ Exact(v, Covered(v, V \cup {i}, log'), log')
    BY <1>8, <2>2, <2>3, <2>4, Zenon
  <2> QED BY <2>5 DEF v
<1>10. ASSUME NEW d, d = c PROVE Seen(d)' = V \cup {i}
  <2>1. CASE c \in Tracked
    <3>1. born'[d] = born[d] /\ born[d] <= i /\ V = Seen(d)
      BY <1>1, <1>2, <1>4, <1>10, <2>1
    <3> HIDE DEF V
    <3> QED BY <1>1, <1>2, <1>4, <1>10, <3>1 DEF Seen
  <2>2. CASE c \notin Tracked
    <3>1. born'[d] = i /\ V = {} /\ \A j \in DOMAIN found : j \in 1..pos /\ ~ (j >= i)
      BY <1>1, <1>2, <1>4, <1>10, <2>2
    <3> HIDE DEF V
    <3> QED BY <1>1, <1>2, <1>10, <3>1 DEF Seen
  <2> QED BY <2>1, <2>2
<1> SUFFICES ASSUME NEW d \in Kept(c)
             PROVE  /\ windows'[d].latest \in Int
                    /\ Exact(windows'[d], Covered(windows'[d], Seen(d)', log'), log')
  BY <1>2 DEF WindowsExact
<1>11. CASE d = c
  <2> HIDE DEF V, i
  <2> QED BY <1>9, <1>10, <1>11, Zenon
<1>12. CASE d # c
  <2>1. d \in Tracked /\ d \in Clients /\ born'[d] = born[d] /\ windows'[d] = windows[d]
    BY <1>2, <1>3, <1>4, <1>12
  <2>2. Seen(d)' = Seen(d)
    BY <1>1, <1>2, <1>4, <1>12, <2>1 DEF Seen
  <2> QED BY <1>1, <2>1, <2>2, SameWindow
<1> QED BY <1>11, <1>12

\* Any other step forgets all windows, or leaves them and the records before it alone.
LEMMA StepIsExact == DetectionInv /\ WindowsExact /\ [Next]_vars => WindowsExact'
<1> SUFFICES ASSUME DetectionInv, WindowsExact, [Next]_vars PROVE WindowsExact'
  OBVIOUS
<1> TypeOK
  BY DEF DetectionInv
<1>1. ASSUME UNCHANGED memory, \A i \in 1..pos : log'[i] = log[i] PROVE WindowsExact'
  <2>1. UNCHANGED <<windows, found, born>> /\ Tracked' = Tracked
    BY <1>1 DEF memory, Tracked
  <2> SUFFICES ASSUME NEW d \in Tracked
               PROVE  /\ windows'[d].latest \in Int
                      /\ Exact(windows'[d], Covered(windows'[d], Seen(d)', log'), log')
    BY <2>1 DEF WindowsExact
  <2>2. DOMAIN found \subseteq 1..pos
    BY DEF TypeOK
  <2>3. Seen(d)' = Seen(d)
    BY <1>1, <2>1, <2>2 DEF Seen
  <2> QED BY <1>1, <2>1, <2>3, SameWindow
<1>2. ASSUME NEW e \in Inputs, Process(e) PROVE WindowsExact'
  <2>1. \A i \in 1..pos : log'[i] = log[i]
    BY <1>2, ReadsRecord
  <2>2. DeadLetter(pos + 1, e) \/ Skip(pos + 1, e) \/ Analyse(pos + 1, e)
    BY <1>2 DEF Process
  <2>3. CASE Analyse(pos + 1, e)
    BY <1>2, <2>3, AnalysedIsExact
  <2>4. CASE DeadLetter(pos + 1, e) \/ Skip(pos + 1, e)
    BY <1>1, <2>1, <2>4 DEF DeadLetter, Skip
  <2> QED BY <2>2, <2>3, <2>4
<1>3. CASE Restart
  BY <1>3 DEF Restart, WindowsExact, Tracked, EmptyFunction
<1>4. CASE Commit \/ Tick \/ ReplaceRules \/ UNCHANGED vars
  <2>1. UNCHANGED memory /\ log' = log
    BY <1>4 DEF Commit, Tick, ReplaceRules, vars
  <2> QED BY <1>1, <2>1
<1> QED BY <1>2, <1>3, <1>4 DEF Next

-----------------------------------------------------------------------------
(* Theorem.                                                                *)

\* The requests, errors and paths counted for a client are those of the requests seen in the
\* last WindowSeconds before its newest one, for any order in which events of different age
\* arrive, any width of the window and any number of clients and paths.
THEOREM WindowsAreExact == Spec => []WindowIsExact
<1>1. Init => WindowsExact
  BY DEF Init, WindowsExact, Tracked, EmptyFunction
<1>2. WindowsExact => WindowIsExact
  <2> SUFFICES ASSUME WindowsExact, NEW c \in Tracked
               PROVE  /\ windows[c].requests = Cardinality(Covers(c))
                      /\ windows[c].errors = Cardinality({i \in Counts(c) : log[i].error})
                      /\ \A p \in Paths :
                           windows[c].paths[p] = Cardinality({i \in Counts(c) : log[i].path = p})
    BY DEF WindowIsExact
  <2>1. Covered(windows[c], Seen(c), log) = Covers(c)
    BY DEF Covered, Covers
  <2>2. Tallies(windows[c], Covers(c), log)
    BY <2>1 DEF WindowsExact, Exact
  <2>3. ErrorsIn(Covers(c), log) = {i \in Counts(c) : log[i].error}
    BY DEF ErrorsIn, Counts
  <2>4. \A p \in Paths : VisitsIn(Covers(c), log, p) = {i \in Counts(c) : log[i].path = p}
    BY DEF VisitsIn, Counts
  <2> QED BY <2>2, <2>3, <2>4 DEF Tallies
<1> QED BY <1>1, <1>2, StepIsExact, DetectionInvariant, PTL DEF Spec
=============================================================================
