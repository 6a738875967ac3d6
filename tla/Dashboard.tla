------------------------------ MODULE Dashboard ------------------------------
(***************************************************************************)
(* P5 (services/p5-dashboard).  One consumer thread aggregates the events  *)
(* in memory, writes attacks to Postgres and schedules items on the event  *)
(* loop; the loop copies them to a bounded queue per browser, and one      *)
(* coroutine per browser streams its queue; HTTP threads query the table,  *)
(* one autocommitted statement after the other, while the consumer writes. *)
(* The event bus is reduced to its log, batch and commit (EventBus).       *)
(***************************************************************************)
EXTENDS Integers, Sequences, FiniteSets, Subsequences

CONSTANTS Log,            \* the records of P5's topics, as the consumer is given them
          Browsers,
          Prompt,         \* browsers that read what they are sent
          Queries,        \* requests of the HTTP API on the history
          QueueMax,       \* _QUEUE_MAXSIZE = 1000
          CounterCap,     \* COUNTER_CAP = 5000
          TrafficMinutes, \* TRAFFIC_MINUTES = 60
          RecentCap,      \* RECENT_CAP = 100
          HourMinutes,    \* 60
          TimelineTarget, \* TIMELINE_TARGET_BUCKETS = 48
          TrendBuckets,   \* TREND_BUCKETS = 24
          Now,            \* the minute at which windows end
          MaxPoll,        \* bound on the records of a batch
          MaxFaults       \* bound on crashes and failing INSERTs

Kinds == {"attack.detected", "log.enriched", "anomaly.scored", "alert.triggered", "stage.completed"}

ASSUME DashboardAssumption ==
  /\ Len(Log) \in Nat /\ DOMAIN Log = 1..Len(Log) /\ Now \in Nat
  /\ \A i \in DOMAIN Log : Log[i].kind \in Kinds /\ Log[i].minute \in 0..(Now - 1)
  /\ \A i, j \in DOMAIN Log : Log[i].id = Log[j].id => Log[i] = Log[j]
  /\ Prompt \subseteq Browsers
  /\ \A q \in Queries : /\ q.plan \in {"attacks", "overview"} /\ q.hours \in Nat
                        /\ q.plan = "overview" => q.hours > 0
  /\ {QueueMax, CounterCap, TrafficMinutes, RecentCap, HourMinutes, TimelineTarget,
      TrendBuckets, MaxPoll} \subseteq Nat \ {0}
  /\ MaxFaults \in Nat

VARIABLES
  pc,         \* the process: "down", or where its consumer is: "poll", "persist", "publish"
  history,    \* whether this process could open the history (repo is not None)
  pos,        \* records read in this process, counted from the start of the log
  committed,  \* committed offset
  start,      \* where this process began
  counter,    \* Counter of attack types, in order of insertion (that of addresses is alike)
  traffic,    \* requests per minute of a domain
  recent,     \* feed of the latest realtime events, newest last
  table,      \* event_ids in detection.attacks
  ready,      \* callbacks scheduled on the event loop: log positions
  open,       \* open[b]: its coroutine runs, its queue is subscribed
  queue,      \* queue[b]: items waiting for b
  request,    \* the query being answered, NoRequest when there is none
  step,       \* how many of its statements have run
  covered,    \* the rows that the last of them showed or counted
  \* history and bounds
  unstored,   \* event_ids that were handled and whose write failed, or had no history
  fanned,     \* items given to the queues, in order
  joined,     \* joined[b]: items given out before b subscribed
  sent,       \* sent[b]: items that b's coroutine took since it subscribed
  lost,       \* lost[b]: which of fanned found the queue of b full
  faults

storeVars == <<counter, traffic, recent>>
tableVars == <<table, unstored>>
streamVars == <<ready, open, queue, fanned, joined, sent, lost>>
readVars == <<request, step, covered>>
busVars == <<pos, committed, start>>
vars == <<pc, history, busVars, storeVars, tableVars, streamVars, readVars, faults>>

NoRequest == [hours |-> 0, type |-> "none", limit |-> 0, plan |-> "none"]
EmptyFunction == [k \in {} |-> 0]
Fault == faults < MaxFaults /\ faults' = faults + 1
Up == pc # "down"

Init ==
  /\ pc = "down" /\ history = FALSE
  /\ pos = 0 /\ committed = 0 /\ start = 0
  /\ counter = <<>> /\ traffic = EmptyFunction /\ recent = <<>>
  /\ table = {} /\ unstored = {}
  /\ ready = <<>> /\ fanned = <<>>
  /\ open = [b \in Browsers |-> FALSE]
  /\ queue = [b \in Browsers |-> <<>>]
  /\ joined = [b \in Browsers |-> 0] /\ sent = [b \in Browsers |-> <<>>]
  /\ lost = [b \in Browsers |-> {}]
  /\ request = NoRequest /\ step = 0 /\ covered = {}
  /\ faults = 0

-----------------------------------------------------------------------------
(* AggregateStore                                                          *)

\* Counter: one more of key k, a new key last.
Incremented(c, k) ==
  IF \E i \in DOMAIN c : c[i].key = k
  THEN [i \in DOMAIN c |-> IF c[i].key = k THEN [c[i] EXCEPT !.n = @ + 1] ELSE c[i]]
  ELSE Append(c, [key |-> k, n |-> 1])

\* Place of the i-th key in most_common: larger counts first, older keys first among equals.
Place(c, i) ==
  Cardinality({j \in DOMAIN c : c[j].n > c[i].n \/ (c[j].n = c[i].n /\ j < i)})

\* Faulty variant of Trimmed: a counter that overflows loses one key too many.
TrimmedSharply(c) ==
  IF Len(c) <= CounterCap THEN c
  ELSE At(c, {i \in DOMAIN c : Place(c, i) < CounterCap - 1})

\* _trim_counter
Trimmed(c) ==
  IF Len(c) <= CounterCap THEN c
  ELSE At(c, {i \in DOMAIN c : Place(c, i) < CounterCap})

\* _add_traffic: one more in its minute, of which only the newest are kept.
Counted(t, minute) ==
  LET all  == {minute} \cup DOMAIN t
      kept == {x \in all : Cardinality({y \in all : y > x}) < TrafficMinutes} IN
  [x \in kept |-> (IF x \in DOMAIN t THEN t[x] ELSE 0) + (IF x = minute THEN 1 ELSE 0)]

Realtime(e) == e.kind # "stage.completed"

\* AggregateStore.record, under its lock.
Aggregate(i, e) ==
  /\ counter' = IF e.kind = "attack.detected" THEN Trimmed(Incremented(counter, e.type)) ELSE counter
  /\ traffic' = IF e.kind = "log.enriched" THEN Counted(traffic, e.minute) ELSE traffic
  /\ recent' = IF Realtime(e) THEN LET s == Append(recent, i) IN
                 SubSeq(s, IF Len(s) > RecentCap THEN 2 ELSE 1, Len(s))
               ELSE recent

-----------------------------------------------------------------------------
(* The consumer thread: handle(env).                                       *)

\* The process starts: the history may not open, then the loop is bound and the consumer runs.
Start ==
  /\ pc = "down"
  /\ pc' = "poll"
  /\ \/ history' = TRUE /\ UNCHANGED faults
     \/ history' = FALSE /\ Fault
  /\ UNCHANGED <<busVars, storeVars, tableVars, streamVars, readVars>>

\* The next record of the batch reaches the handler.
Record ==
  /\ pc = "poll" /\ pos < Len(Log) /\ pos - committed < MaxPoll
  /\ pos' = pos + 1
  /\ Aggregate(pos + 1, Log[pos + 1])
  /\ pc' = IF Log[pos + 1].kind = "attack.detected" THEN "persist" ELSE "publish"
  /\ UNCHANGED <<history, committed, start, tableVars, streamVars, readVars, faults>>

\* Faulty variant of Persist: the write is left to a background task, which may come late.
PersistInBackground ==
  /\ pc = "persist" /\ pc' = "publish"
  /\ table' \in {table, table \cup {Log[i].id : i \in IF history THEN {pos} ELSE {}}}
  /\ UNCHANGED <<history, busVars, storeVars, unstored, streamVars, readVars, faults>>

\* insert_from_event, when there is a history: best effort, and a call that fails may have
\* written the row.
Persist ==
  /\ pc = "persist" /\ pc' = "publish"
  /\ \/ history /\ table' = table \cup {Log[pos].id} /\ UNCHANGED <<unstored, faults>>
     \/ /\ history /\ Fault
        /\ table' \in {table, table \cup {Log[pos].id}}
        /\ unstored' = unstored \cup {Log[pos].id}
     \/ ~history /\ unstored' = unstored \cup {Log[pos].id} /\ UNCHANGED <<table, faults>>
  /\ UNCHANGED <<history, busVars, storeVars, streamVars, readVars>>

\* publish_threadsafe: the loop is given a callback, in order.
Publish ==
  /\ pc = "publish" /\ pc' = "poll"
  /\ ready' = IF Realtime(Log[pos]) THEN Append(ready, pos) ELSE ready
  /\ UNCHANGED <<history, busVars, storeVars, tableVars, open, queue, fanned, joined,
                 sent, lost, readVars, faults>>

\* The end of a batch: P5 publishes nothing, so the flush has nothing to fail on.
Commit ==
  /\ pc = "poll" /\ committed # pos
  /\ committed' = pos
  /\ UNCHANGED <<pc, history, pos, start, storeVars, tableVars, streamVars, readVars, faults>>

\* The process dies anywhere (a consumer that ends takes it along): only the table remains.
Crash ==
  /\ Up /\ Fault
  /\ pc' = "down" /\ history' = FALSE
  /\ pos' = committed /\ start' = committed
  /\ counter' = <<>> /\ traffic' = EmptyFunction /\ recent' = <<>>
  /\ ready' = <<>> /\ fanned' = <<>>
  /\ open' = [b \in Browsers |-> FALSE]
  /\ queue' = [b \in Browsers |-> <<>>]
  /\ joined' = [b \in Browsers |-> 0] /\ sent' = [b \in Browsers |-> <<>>]
  /\ lost' = [b \in Browsers |-> {}]
  /\ request' = NoRequest /\ step' = 0 /\ covered' = {}
  /\ UNCHANGED <<committed, tableVars>>

-----------------------------------------------------------------------------
(* The event loop: StreamHub and _event_stream.                            *)

Subscribed == {b \in Browsers : open[b]}

\* Faulty variant of Full: one item too many fits.
FullOffByOne(b) == Len(queue[b]) > QueueMax

Full(b) == Len(queue[b]) >= QueueMax

\* Faulty variant of Fanout: put instead of put_nowait, so a full queue is waited for.
FanoutWaits ==
  /\ ready # <<>> /\ \A b \in Subscribed : ~Full(b)
  /\ queue' = [b \in Browsers |-> IF b \in Subscribed THEN Append(queue[b], Head(ready)) ELSE queue[b]]
  /\ ready' = Tail(ready) /\ fanned' = Append(fanned, Head(ready))
  /\ UNCHANGED <<pc, history, busVars, storeVars, tableVars, open, joined, sent,
                 lost, readVars, faults>>

\* Faulty variant of Fanout: a full queue loses its oldest item to the new one.
FanoutDropsOldest ==
  /\ ready # <<>>
  /\ queue' = [b \in Browsers |-> IF b \notin Subscribed THEN queue[b]
                                  ELSE Append(IF Full(b) THEN Tail(queue[b]) ELSE queue[b], Head(ready))]
  /\ lost' = [b \in Browsers |-> IF b \in Subscribed /\ Full(b) THEN lost[b] \cup {Len(fanned) + 1}
                                 ELSE lost[b]]
  /\ ready' = Tail(ready) /\ fanned' = Append(fanned, Head(ready))
  /\ UNCHANGED <<pc, history, busVars, storeVars, tableVars, open, joined, sent,
                 readVars, faults>>

\* _fanout of the oldest callback: every subscriber gets the item, unless its queue is full.
Fanout ==
  /\ ready # <<>>
  /\ queue' = [b \in Browsers |-> IF b \in Subscribed /\ ~Full(b) THEN Append(queue[b], Head(ready))
                                  ELSE queue[b]]
  /\ lost' = [b \in Browsers |-> IF b \in Subscribed /\ Full(b) THEN lost[b] \cup {Len(fanned) + 1}
                                 ELSE lost[b]]
  /\ ready' = Tail(ready) /\ fanned' = Append(fanned, Head(ready))
  /\ UNCHANGED <<pc, history, busVars, storeVars, tableVars, open, joined, sent,
                 readVars, faults>>

\* The rest of a browser's step: all but its own queue and ghosts stays.
BrowserFrame ==
  UNCHANGED <<pc, history, busVars, storeVars, tableVars, ready, fanned, readVars, faults>>

\* A browser opens the stream: subscribe.
Open(b) ==
  /\ Up /\ ~open[b]
  /\ open' = [open EXCEPT ![b] = TRUE]
  /\ joined' = [joined EXCEPT ![b] = Len(fanned)]
  /\ UNCHANGED <<queue, sent, lost>> /\ BrowserFrame

\* queue.get, and the item goes to the connection.  A slow browser is one whose last item is
\* still being sent, which only delays this step; comments carry no item and are left out.
Send(b) ==
  /\ queue[b] # <<>>
  /\ sent' = [sent EXCEPT ![b] = Append(@, Head(queue[b]))]
  /\ queue' = [queue EXCEPT ![b] = Tail(@)]
  /\ UNCHANGED <<open, joined, lost>> /\ BrowserFrame

\* The browser has gone and its coroutine notices (is_disconnected, or it is cancelled) and
\* unsubscribes; a browser that is gone unnoticed is one that does not read.
Leave(b) ==
  /\ open[b]
  /\ open' = [open EXCEPT ![b] = FALSE]
  /\ queue' = [queue EXCEPT ![b] = <<>>]
  /\ joined' = [joined EXCEPT ![b] = 0] /\ sent' = [sent EXCEPT ![b] = <<>>]
  /\ lost' = [lost EXCEPT ![b] = {}]
  /\ BrowserFrame

-----------------------------------------------------------------------------
(* HTTP threads: AttackRepo.search, AttackRepo.count, StatsRepo.           *)

\* stats.window: the first minute, and the buckets of the timeline.
CeilDiv(a, b) == (a + b - 1) \div b
FirstMinute(q) == Now - q.hours * HourMinutes

BucketMinutes(q) == CeilDiv(q.hours * HourMinutes, TimelineTarget)
BucketCount(q, width) == CeilDiv(q.hours * HourMinutes, width)

\* The event with a given event_id, and the rows that the WHERE clause of q selects.
EventOf(id) == CHOOSE e \in {Log[i] : i \in DOMAIN Log} : e.id = id
Matching(q) ==
  {r \in table : /\ q.type \in {"any", EventOf(r).type}
                 /\ q.hours = 0 \/ EventOf(r).minute >= FirstMinute(q)}

\* ORDER BY detected_at DESC LIMIT, equal times in some fixed order.
Newest(rows, n) ==
  {r \in rows : Cardinality({x \in rows :
     \/ EventOf(x).minute > EventOf(r).minute
     \/ EventOf(x).minute = EventOf(r).minute /\ x < r}) < n}

\* The rows that a statement of q shows or counts.  stats.fill and stats.timeline drop the
\* indexes out of range; the detector gives no severity that the timeline does not have.
Rows(q, statement) ==
  LET age(r) == EventOf(r).minute - FirstMinute(q) IN
  CASE statement = "page"  -> Newest(Matching(q), q.limit)
    [] statement = "total" -> Matching(q)
    [] statement = "timeline" ->
         {r \in Matching(q) : age(r) \div BucketMinutes(q) < BucketCount(q, BucketMinutes(q))}
    [] statement = "trend" ->
         {r \in Matching(q) : (age(r) * TrendBuckets) \div (q.hours * HourMinutes) < TrendBuckets}
    [] statement = "count" -> table

\* Faulty variant of Statements: the size of the table is read first.
StatementsCountFirst(q) ==
  CASE q.plan = "attacks" /\ q.hours > 0 -> <<"count", "page", "total", "timeline">>
    [] q.plan = "attacks" /\ q.hours = 0 -> <<"count", "page", "total">>
    [] q.plan = "overview"               -> <<"total", "trend", "timeline">>

\* The statements of a request in their order.  The history page asks for a histogram, which
\* needs a window; domains and rules also count, then bucket, the rows of the window.
Statements(q) ==
  CASE q.plan = "attacks" /\ q.hours > 0 -> <<"page", "total", "timeline", "count">>
    [] q.plan = "attacks" /\ q.hours = 0 -> <<"page", "total", "count">>
    [] q.plan = "overview"               -> <<"total", "trend", "timeline">>

ReadFrame ==
  UNCHANGED <<pc, history, busVars, storeVars, tableVars, streamVars, faults>>

\* A request for the history arrives; without a history it is answered "persisted": false.
Ask(q) ==
  /\ Up /\ history /\ request = NoRequest
  /\ request' = q /\ step' = 0 /\ covered' = {}
  /\ ReadFrame

\* Its next statement runs, on the table as it is then.
Execute ==
  /\ request # NoRequest /\ step < Len(Statements(request))
  /\ step' = step + 1
  /\ covered' = Rows(request, Statements(request)[step + 1])
  /\ UNCHANGED request /\ ReadFrame

\* It is answered, or a statement failed and it is answered "persisted": false.
Answer ==
  /\ request # NoRequest
  /\ request' = NoRequest /\ step' = 0 /\ covered' = {}
  /\ ReadFrame

-----------------------------------------------------------------------------
Next ==
  \/ Start \/ Record \/ Persist \/ Publish \/ Commit \/ Crash \/ Fanout
  \/ \E b \in Browsers : Open(b) \/ Send(b) \/ Leave(b)
  \/ \E q \in Queries : Ask(q)
  \/ Execute \/ Answer

Spec == Init /\ [][Next]_vars

\* The event loop runs what is ready, and prompt browsers read what they are sent.
Fairness ==
  /\ WF_vars(Fanout)
  /\ \A b \in Prompt : WF_vars(Send(b))

FairSpec == Spec /\ Fairness

-----------------------------------------------------------------------------
(* Properties *)

\* Types; queues and feeds stay within their bounds.
TypeOK ==
  /\ pc \in {"down", "poll", "persist", "publish"} /\ history \in BOOLEAN
  /\ start \in 0..committed /\ committed \in 0..pos /\ pos \in 0..Len(Log)
  /\ \A i \in DOMAIN counter : counter[i].n \in 1..Len(Log)
  /\ Len(counter) <= CounterCap
  /\ \A x \in DOMAIN traffic : x \in 0..(Now - 1) /\ traffic[x] \in 1..Len(Log)
  /\ Len(recent) <= RecentCap
  /\ table \cup unstored \subseteq {Log[i].id : i \in DOMAIN Log}
  /\ ready \in Seq(DOMAIN Log) /\ fanned \in Seq(DOMAIN Log)
  /\ open \in [Browsers -> BOOLEAN]
  /\ \A b \in Browsers : /\ Len(queue[b]) <= QueueMax
                         /\ joined[b] \in 0..Len(fanned) /\ lost[b] \subseteq DOMAIN fanned
                         /\ ~open[b] => queue[b] \o sent[b] = <<>>
  /\ request \in Queries \cup {NoRequest}
  /\ faults \in 0..MaxFaults

\* The summary is exact for what this process handled: a counter holds each key it has with
\* its real number, and lacks a key only when it is full of others; the traffic is that of
\* the newest minutes, late events included; the feed is the last realtime events.
SummaryIsExact ==
  LET handled == (start + 1)..pos
      attacks(k) == {i \in handled : Log[i].kind = "attack.detected" /\ Log[i].type = k}
      lines(x) == {i \in handled : Log[i].kind = "log.enriched" /\ Log[i].minute = x}
      shown == {i \in handled : Realtime(Log[i])} IN
  /\ \A i \in handled : Log[i].kind = "attack.detected" =>
       \/ \E j \in DOMAIN counter : counter[j].key = Log[i].type
       \/ Len(counter) = CounterCap
  /\ \A j \in DOMAIN counter : counter[j].n = Cardinality(attacks(counter[j].key))
  /\ \A x \in 0..(Now - 1) :
       IF Cardinality({y \in (x + 1)..(Now - 1) : lines(y) # {}}) < TrafficMinutes
       THEN lines(x) # {} => x \in DOMAIN traffic /\ traffic[x] = Cardinality(lines(x))
       ELSE x \notin DOMAIN traffic
  /\ Len(recent) = IF Cardinality(shown) < RecentCap THEN Cardinality(shown) ELSE RecentCap
  /\ \A i \in shown :
       LET later == Cardinality({j \in shown : j > i}) IN
       later < RecentCap => recent[Len(recent) - later] = i

\* p5-dashboard/README.md, SSE: a slow browser loses items of its own and harms no other.
\* What b was sent and has queued is, in order and once, all that was given
\* out since it subscribed, but for what found its own queue full.
StreamIsExact ==
  \A b \in Browsers : open[b] =>
    LET due == {n \in (joined[b] + 1)..Len(fanned) : n \notin lost[b]}
        received == sent[b] \o queue[b] IN
    /\ Len(received) = Cardinality(due)
    /\ \A n \in due : received[Cardinality({m \in due : m <= n})] = fanned[n]

\* An attack that a browser could see live, or whose offset is committed, is in the history,
\* across crashes and replays, unless the write itself failed.
SeenIsStored ==
  \A i \in DOMAIN Log :
    Log[i].kind = "attack.detected" /\ (i <= committed \/ \E s \in {ready, fanned} : \E n \in DOMAIN s : s[n] = i)
      => Log[i].id \in table \cup unstored

\* The statements of one answer see different tables, yet add up: the rows of a page are
\* among those counted, each of these has a bucket, and all are rows of the table.
AnswersAddUp ==
  [][step' > step /\ step > 0 => covered \subseteq covered']_vars

\* A browser that reads gets what is on its way to it, whatever the other browsers do.
SlowBrowserBlocksNoOne ==
  \A b \in Prompt :
    (open[b] /\ ready \o queue[b] # <<>>)
      ~> (ready \o queue[b] = <<>> \/ ~open[b])
=============================================================================
