------------------------------ MODULE Detection ------------------------------
(***************************************************************************)
(* The detector in role DETECTION: KafkaPipeline.run (one batch at a time, *)
(* committed when every output is confirmed, death and replay otherwise),  *)
(* RecordProcessor.detect, and RequestDetectionServiceImpl with a sliding  *)
(* window per client in a bounded LinkedHashMap in access order.           *)
(*                                                                         *)
(* Time is counted in seconds.  RuleMatching says which rules match; the   *)
(* subscriber thread replaces them at any time (RuleManagement).           *)
(* The identifier of an output is a function of the record and the kind of *)
(* output (EnvelopeFactory.envelope), so outputs form a set.               *)
(***************************************************************************)
EXTENDS Integers, Sequences, FiniteSets, FiniteSetsExt, Functions, RuleMatching

CONSTANTS Inputs,          \* requests: [client, second, path, error, fields]
          RuleSets,        \* the rules of each snapshot, as they come; the default ones first
          Asset,           \* the path that stands for static assets
          WindowSeconds,   \* REQUEST_WINDOW_SECONDS = 60
          Cooldown,        \* RULE_ALERT_COOLDOWN_SECONDS = 15
          FutureSkew,      \* MAX_FUTURE_SKEW_SECONDS = 300
          RequestThreshold, FloodThreshold, ErrorThreshold, PathThreshold,
          AlertThreshold,  \* ALERT_SCORE_THRESHOLD = 70
          MaxTracked,      \* MAX_TRACKED_CLIENTS = 100000
          MaxPoll,         \* BATCH_SIZE = 200: records of a batch
          CleanupEvery,    \* 1000: requests between two removals of idle clients
          MaxRecords,      \* bound on the records of a behaviour
          Instants,        \* the instants at which the clock is looked at
          MaxFaults        \* bound on crashes and unanswered scope checks

ASSUME DetectionAssumption ==
  /\ \A e \in Inputs : e.second \in Nat /\ e.error \in BOOLEAN
  /\ RuleSets # <<>> /\ DOMAIN RuleSets = 1..Len(RuleSets) /\ Len(RuleSets) \in Nat
  /\ \A n \in DOMAIN RuleSets : IsFiniteSet(RuleSets[n]) /\ \A r \in RuleSets[n] :
       r.score \in 1..100 /\ r.targets # {} /\ r.enabled \in BOOLEAN
  /\ WindowSeconds \in Nat \ {0} /\ Cooldown \in Nat \ {0} /\ FutureSkew \in Nat
  /\ AlertThreshold \in 1..100
  /\ MaxTracked \in Nat \ {0} /\ CleanupEvery \in Nat \ {0} /\ MaxPoll \in Nat \ {0}
  /\ Instants \subseteq Nat /\ Instants # {}
  /\ MaxRecords \in Nat /\ MaxFaults \in Nat

VARIABLES
  clock,        \* Clock.systemUTC()
  rules,        \* the rules matched with: RuleSets[rules]
  log,          \* records of log.enriched read so far
  pos,          \* records processed
  committed,    \* records committed
  windows,      \* the tracked clients and their windows
  used,         \* used[c]: the record at which the window of c was last used (access order)
  processed,    \* requests analysed since the last removal of idle clients
  inflight,     \* outputs of the batch, not confirmed
  stored,       \* outputs on the broker
  \* history and bound
  found,        \* found[i]: the rules that matched record i, if it was analysed
  alerted,      \* records that raised an alert in this incarnation
  born,         \* record with which the window of a client was created
  faults

memory == <<windows, used, processed, found, alerted, born>>
vars == <<clock, rules, log, pos, committed, memory, inflight, stored, faults>>

Clients == {e.client : e \in Inputs}
Paths == {e.path : e \in Inputs} \ {Asset}
Tracked == DOMAIN windows

Never == -1     \* Long.MIN_VALUE

EmptyFunction == [x \in {} |-> x]

NewWindow == [buckets |-> EmptyFunction, requests |-> 0, errors |-> 0,
              paths |-> [p \in Paths |-> 0], latest |-> Never, lastAlert |-> Never,
              lastProcessed |-> 0]

NewBucket == [requests |-> 0, errors |-> 0, paths |-> [p \in Paths |-> 0]]

-----------------------------------------------------------------------------
Init ==
  /\ clock \in Instants /\ \A t \in Instants : clock <= t
  /\ rules = 1 /\ log = <<>> /\ pos = 0 /\ committed = 0
  /\ windows = EmptyFunction /\ used = EmptyFunction /\ processed = 0
  /\ inflight = {} /\ stored = {}
  /\ found = EmptyFunction /\ alerted = {} /\ born = [c \in Clients |-> 0]
  /\ faults = 0

Fault == faults < MaxFaults /\ faults' = faults + 1

-----------------------------------------------------------------------------
(* RequestDetectionServiceImpl                                             *)

\* Faulty variant of Expire: the paths of an expired bucket are not taken off.
ExpireButPaths(w, cutoff) ==
  LET gone == {s \in DOMAIN w.buckets : s <= cutoff} IN
  [w EXCEPT !.buckets = [s \in DOMAIN w.buckets \ gone |-> w.buckets[s]],
            !.requests = @ - SumFunction([s \in gone |-> w.buckets[s].requests]),
            !.errors = @ - SumFunction([s \in gone |-> w.buckets[s].errors])]

\* The buckets up to cutoff leave the window, and its totals.
Expire(w, cutoff) ==
  LET gone == {s \in DOMAIN w.buckets : s <= cutoff} IN
  [w EXCEPT !.buckets = [s \in DOMAIN w.buckets \ gone |-> w.buckets[s]],
            !.requests = @ - SumFunction([s \in gone |-> w.buckets[s].requests]),
            !.errors = @ - SumFunction([s \in gone |-> w.buckets[s].errors]),
            !.paths =
              [p \in Paths |-> @[p] - SumFunction([s \in gone |-> w.buckets[s].paths[p]])]]

\* One request more; a static asset counts neither as an error nor as a path.
Counted(r, e) ==
  LET counts == e.path # Asset IN
  [r EXCEPT !.requests = @ + 1,
            !.errors = @ + (IF counts /\ e.error THEN 1 ELSE 0),
            !.paths = [p \in Paths |-> @[p] + (IF counts /\ p = e.path THEN 1 ELSE 0)]]

Add(w, e) ==
  LET bucket == IF e.second \in DOMAIN w.buckets THEN w.buckets[e.second] ELSE NewBucket IN
  [Counted(w, e) EXCEPT !.buckets =
     [s \in DOMAIN w.buckets \cup {e.second} |->
        IF s = e.second THEN Counted(bucket, e) ELSE w.buckets[s]]]

\* The window after event e: slid to the newest event seen, with e in it unless e is late.
Slide(w, e) ==
  LET latest == IF e.second > w.latest THEN e.second ELSE w.latest
      cutoff == latest - WindowSeconds
      slid == [Expire(w, cutoff) EXCEPT !.latest = latest, !.lastProcessed = clock] IN
  IF e.second > cutoff THEN Add(slid, e) ELSE slid

\* The largest weight of the rules that match, and 10 for each one beside it.
RuleScore(matches) ==
  IF matches = {} THEN 0 ELSE Max({r.score : r \in matches}) + 10 * (Cardinality(matches) - 1)

Score(w, matches) ==
  LET points(condition, n) == IF condition THEN n ELSE 0
      total == RuleScore(matches)
               + points(w.requests >= RequestThreshold, 30)
               + points(w.requests >= FloodThreshold, 40)
               + points(w.errors >= ErrorThreshold, 25)
               + points(Cardinality({p \in Paths : w.paths[p] > 0}) >= PathThreshold, 25) IN
  IF total > 100 THEN 100 ELSE total

\* Faulty variant of Suppressed: an event from before the last alert may alert again.
SuppressedAround(w, e) ==
  /\ w.lastAlert # Never
  /\ e.second - w.lastAlert < Cooldown /\ w.lastAlert - e.second < Cooldown

Suppressed(w, e) == w.lastAlert # Never /\ e.second - w.lastAlert < Cooldown

\* Faulty variant of AfterScore: a suppressed alert starts the cooldown again.
AfterScoreSliding(w, e, score) ==
  IF score >= AlertThreshold THEN [w EXCEPT !.lastAlert = e.second] ELSE w

AfterScore(w, e, score) ==
  IF score >= AlertThreshold /\ ~Suppressed(w, e) THEN [w EXCEPT !.lastAlert = e.second] ELSE w

Eldest == CHOOSE c \in Tracked : \A d \in Tracked : used[c] <= used[d]

\* Faulty variant of Others: the bound is checked before the client is added.
OthersOneMore(c) ==
  IF Cardinality(Tracked \cup {c}) > MaxTracked + 1 THEN Tracked \ {Eldest} ELSE Tracked

\* computeIfAbsent and removeEldestEntry: a new client takes the place of the eldest.
Others(c) ==
  IF Cardinality(Tracked \cup {c}) > MaxTracked THEN Tracked \ {Eldest} ELSE Tracked

\* Every CleanupEvery requests, clients without a request for two windows are removed.
Kept(c) ==
  {c} \cup IF processed + 1 < CleanupEvery THEN Others(c)
           ELSE {d \in Others(c) : windows[d].lastProcessed >= clock - 2 * WindowSeconds}

\* Faulty variant of Touched: the map is in the order in which clients came.
TouchedOnce(c, i) ==
  [d \in Kept(c) |-> IF d = c /\ c \notin Tracked THEN i ELSE used[d]]

\* The LinkedHashMap is in access order: client c, of record i, is now the last one.
Touched(c, i) == [d \in Kept(c) |-> IF d = c THEN i ELSE used[d]]

-----------------------------------------------------------------------------
(* RecordProcessor: what record i, with content e, turns into.             *)

\* Too far in the future: dead letter, nothing else changes.
DeadLetter(i, e) ==
  /\ e.second > clock + FutureSkew
  /\ inflight' = inflight \cup {<<"deadletter", i>>}
  /\ UNCHANGED <<memory, faults>>

\* The scope service denies the domain or does not answer.
Skip(i, e) ==
  /\ e.second <= clock + FutureSkew
  /\ Fault
  /\ UNCHANGED <<memory, inflight>>

Outputs(i, e, w, matches) ==
  {<<"attack", i, r.id>> : r \in matches}
  \cup (IF matches # {} \/ Score(w, matches) >= 40 THEN {<<"anomaly", i>>} ELSE {})
  \cup (IF Score(w, matches) >= AlertThreshold /\ ~Suppressed(w, e) THEN {<<"alert", i>>} ELSE {})

Analyse(i, e) ==
  /\ e.second <= clock + FutureSkew
  /\ LET c == e.client
         matches == Match(RuleSets[rules], e.fields)
         w == Slide(IF c \in Tracked THEN windows[c] ELSE NewWindow, e)
         outputs == Outputs(i, e, w, matches) IN
     /\ used' = Touched(c, i)
     /\ windows' = [d \in Kept(c) |->
                      IF d = c THEN AfterScore(w, e, Score(w, matches)) ELSE windows[d]]
     /\ inflight' = inflight \cup outputs
     /\ alerted' = IF <<"alert", i>> \in outputs THEN alerted \cup {i} ELSE alerted
     /\ born' = IF c \in Tracked THEN born ELSE [born EXCEPT ![c] = i]
     /\ found' = [k \in DOMAIN found \cup {i} |-> IF k = i THEN matches ELSE found[k]]
  /\ processed' = (processed + 1) % CleanupEvery
  /\ UNCHANGED faults

\* The next record: a new one, or one that a restart reads again.
Process(e) ==
  /\ pos - committed < MaxPoll
  /\ IF pos < Len(log) THEN e = log[pos + 1] /\ UNCHANGED log
     ELSE Len(log) < MaxRecords /\ log' = Append(log, e)
  /\ pos' = pos + 1
  /\ DeadLetter(pos + 1, e) \/ Skip(pos + 1, e) \/ Analyse(pos + 1, e)
  /\ UNCHANGED <<clock, rules, committed, stored>>

-----------------------------------------------------------------------------
(* KafkaPipeline                                                           *)

\* The end of a batch: every output is confirmed, then commitSync.
Commit ==
  /\ committed # pos
  /\ stored' = stored \cup inflight /\ inflight' = {}
  /\ committed' = pos
  /\ UNCHANGED <<clock, rules, log, pos, memory, faults>>

\* The process ends (crash, output not confirmed in 30 s, failed commit) and is restarted
\* with empty windows, and the default rules if it does not get the snapshot in time; any of
\* the outputs on their way may have been stored.
Restart ==
  /\ Fault
  /\ \E some \in SUBSET inflight : stored' = stored \cup some
  /\ inflight' = {}
  /\ pos' = committed
  /\ windows' = EmptyFunction /\ used' = EmptyFunction /\ processed' = 0
  /\ found' = [i \in {k \in DOMAIN found : k <= committed} |-> found[i]] /\ alerted' = {}
  /\ born' = [c \in Clients |-> 0]
  /\ rules' \in {1, rules}
  /\ UNCHANGED <<clock, log, committed>>

Tick ==
  /\ \E t \in Instants : t > clock /\ clock' = t
  /\ UNCHANGED <<rules, log, pos, committed, memory, inflight, stored, faults>>

\* The subscriber thread has read the next snapshot: one assignment of a volatile field,
\* which match() reads once.
ReplaceRules ==
  /\ rules < Len(RuleSets)
  /\ rules' = rules + 1
  /\ UNCHANGED <<clock, log, pos, committed, memory, inflight, stored, faults>>

Next ==
  \/ \E e \in Inputs : Process(e)
  \/ Commit \/ Restart \/ Tick \/ ReplaceRules

Spec == Init /\ [][Next]_vars

-----------------------------------------------------------------------------
(* Properties *)

\* Types; the map never outgrows its bound, and its order is that of the last uses.
TypeOK ==
  /\ clock \in Instants /\ rules \in DOMAIN RuleSets /\ pos \in 0..Len(log) /\ committed \in 0..pos
  /\ log \in Seq(Inputs) /\ Len(log) <= MaxRecords
  /\ Tracked \subseteq Clients /\ Cardinality(Tracked) <= MaxTracked
  /\ used \in [Tracked -> 1..pos]
  /\ processed \in 0..(CleanupEvery - 1)
  /\ DOMAIN found \subseteq 1..pos /\ alerted \subseteq DOMAIN found
  /\ born \in [Clients -> 0..pos]
  /\ faults \in 0..MaxFaults

\* The records of client c that went into its window, and those it still covers.
Seen(c) == {i \in DOMAIN found : log[i].client = c /\ i >= born[c]}
Covers(c) == {i \in Seen(c) : log[i].second > windows[c].latest - WindowSeconds}
Counts(c) == {i \in Covers(c) : log[i].path # Asset}

\* The totals kept up to date by adding and expiring buckets are those of the requests of
\* the last WindowSeconds, whatever the order in which events of different age arrive.
WindowIsExact ==
  \A c \in Tracked :
    /\ windows[c].requests = Cardinality(Covers(c))
    /\ windows[c].errors = Cardinality({i \in Counts(c) : log[i].error})
    /\ \A p \in Paths :
         windows[c].paths[p] = Cardinality({i \in Counts(c) : log[i].path = p})

\* detector/README.md:36: two alerts for one client are at least one cooldown apart, as long
\* as the client is not forgotten in between.
AlertsSpaced ==
  \A i, j \in alerted :
    LET c == log[i].client IN
    i < j /\ log[j].client = c /\ i >= born[c]
      => log[j].second - log[i].second >= Cooldown

\* A request whose rules alone reach the threshold never goes without an alert: once its
\* offset is committed, an alert for its client, for it or for a record before it that is
\* less than a cooldown older, is on the broker, across crashes and forgotten windows.
EveryAttackAlerted ==
  \A i \in DOMAIN found :
    i <= committed /\ RuleScore(found[i]) >= AlertThreshold =>
      \E j \in 1..i : /\ <<"alert", j>> \in stored
                      /\ log[j].client = log[i].client
                      /\ log[j].second > log[i].second - Cooldown

\* The evidence of a committed record, one attack.detected for each rule that matched and
\* the anomaly.scored, is on the broker, whatever rules came before or after.
EveryAttackReported ==
  \A i \in DOMAIN found :
    i <= committed /\ found[i] # {} =>
      {<<"anomaly", i>>} \cup {<<"attack", i, r.id>> : r \in found[i]} \subseteq stored

\* No attack passes in silence or without its evidence.
EveryAttackAnswered == EveryAttackAlerted /\ EveryAttackReported

\* A running detector forgets a client only when MaxTracked others made requests since, or
\* when it made none for two windows: a client that keeps coming is not forgotten.
ActiveIsRemembered ==
  [][\A c \in Tracked \ Tracked' :
       \/ faults' > faults
       \/ windows[c].lastProcessed < clock - 2 * WindowSeconds
       \/ LET last == CHOOSE i \in Seen(c) : \A j \in Seen(c) : j <= i IN
          Cardinality({log'[i].client : i \in {j \in DOMAIN found' : j > last}}) >= MaxTracked]_vars
=============================================================================
