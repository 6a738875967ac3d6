# A TLA+ model of the WAF log analyzer

The repository is a pipeline that reads web server logs, recognises attacks in them and
raises alerts; it detects and never blocks. Python services and one Java program, the
detector, run as containers around a Kafka broker and a Postgres database. This directory
holds TLA+ modules for its core, the configurations that TLC checks them with, and proofs
that TLAPS checks. `PROJECT.json` lists every component, run, hazard and theorem, and for
each definition the lines of the source it stands for. Paths below are relative to
`services/`; "detector" stands for `detector/src/main/java/com/example/waf/detector`.

## 1. Inventory

    access.log -> C1 -> log.raw.ingested -> C2 -> log.normalized -> C3 -> log.enriched
    log.enriched -> detector DETECTION -> attack.detected, anomaly.scored, alert.triggered
    log.enriched -> detector REPARTITION -> log.enriched.by-domain -> detector DDOS -> alert.triggered
    anomaly.scored, alert.triggered -> P4 -> email, webhook, table
    (all of them) -> P3 (stage.completed), P5 (dashboard), metrics exporter
    operator -> rule API -> rules.changed (compacted) -> every detector
    operator -> P1 allowlist <- scope client in C1, C2, C3 and the detector

| Part | State | Operations | What is hard | What makes it correct |
|---|---|---|---|---|
| Event bus, `common/bus.py` | batch, producer queue and delivery reports, committed offsets, assignment | consume a batch, handle, dead-letter, flush, commit, die | crash between flush and commit, one rejected delivery of many, revocation in mid-batch, commit of an ex-owner, a thread that ends alone | no committed record without its outputs; a bounded replay after a restart; every record is settled in the end |
| Scope, `p1-scope/main.py`, `common/scope.py` | allowlist table; a cache with expiry in every client | seed, add, disable, remove, check; cached call | an answer that ages on its way back, a timed-out call, a wall clock set back, a restart of either side, an interrupted seeding | a verdict acted on is never older than its TTL and what the clock was set back |
| Rules, detector `api`, `service/impl/RuleStore*`, `kafka/Rule*`, `kafka/KafkaRule*` | `rules.json`, rules in memory, producer buffer, compacted topic, rules of each detector | POST, PUT, DELETE; publish a snapshot; read snapshots; wait for them at start | concurrent mutations, a send that times out and arrives later, a crash between file and topic, a dead reader thread | detectors never go back to older rules; what was acknowledged is kept and enforced |
| Detection, detector `RequestDetectionServiceImpl`, `RecordProcessor`, `KafkaPipeline` | a window per client in a bounded LRU map; batch futures | analyse, dead-letter, skip, confirm and commit, die | late and out-of-order events, future-dated events, full map, an alert in a batch that dies | the incremental window is the real one; no attack is unreported or unalerted |
| Rule matching, detector `RuleEngineServiceImpl`, `util/RequestNormalizer` | the compiled rules, one volatile field | normalise a field, match, replace the rules | rules replaced between two requests, or between a batch and its replay | each committed record has the evidence of the rules it was matched with |
| Alerting, `p4-alerting` | cooldown, history, counters, table | threshold, cooldown, record, email, webhook | a crash between any two steps, two topics without order, failing database or SMTP | every alert is answered by an email or a suppression; counters add up |
| Orchestrator, `p3-orchestrator` | counts, published counts, recent ids | count an event; drain and publish a window | two threads, bounded memory of ids, failing publish | every event is in exactly one window |
| Ingestion C1, `c1-ingestion` | (inode, offset, half line) of each file | poll: glob, stat, open, read; publish; restart | writes, rotation and truncation between system calls | whole lines, once, in order, none lost that stays in the file |
| DDoS, detector `DdosDetectionServiceImpl` with role REPARTITION | a window per domain in a bounded LRU map | copy by domain, analyse, confirm and commit, die | clients of a domain merged in any order, late events, a replayed batch of any stage before it, windows lost at a restart | the incremental window is the real one; an alert is backed by the log; a burst is missed only if the loss of a window splits it |
| Dashboard P5, `p5-dashboard` | bounded aggregates, queue per browser, table | record, fan out, stream, query | consumer thread and event loop, slow browsers, replays | summaries are exact; a slow browser loses its own items and delays no other; what was seen is in the history once |
| Parsing C2, `c2-parser` | none but its offsets | a block of lines becomes one event for each valid line | a crash in the middle of a block, whose replay gets new event ids | nothing lost, the order of a client kept |
| Enrichment C3, `c3-enrichment` | a counter of requests per client, bounded three times | count, enrich, publish | eviction and return of a client, the edge of the minute, replay | the rate is the real one; repeats stay bounded |
| Auth P2, metrics exporter, gateway, helpers | none that two steps share | sign and verify a token; count | - | - |

The behaviours hard to test are the `hazards` of `PROJECT.json`, each at its line, with the
properties below that would catch it.

## 2. Modules

`M.tla` is a component, `MCM.tla` and its `.cfg` files are its TLC instances. A definition
called "Faulty variant of D" is D with a plausible bug. No `Next` uses one; put in the place
of D it makes TLC report the property that `PROJECT.json` pairs with it.

| Module | Composes or refines | Models |
|---|---|---|
| `DeliveryLedger` | abstract | what the bus promises: settled records, committed offsets |
| `EventBus` | refines `DeliveryLedger` | the consume loop of `common/bus.py`, group coordinator, broker |
| `ScopeCache` | P1 with its clients | allowlist, calls, caches |
| `RuleManagement` | rule API with topic and detectors | mutations, snapshots, subscribers |
| `RuleMatching` | - | operators: normalisation, targets, match |
| `Detection` | pipeline, processor and service of one detector; extends `RuleMatching` | windows, alerts, batches, replaced rules |
| `Alerting` | P4 on a reduced bus | handler of P4 |
| `PipelineState` | P3 on a reduced bus | consumer and publisher threads |
| `LogTailer` | C1 with Nginx and the file system | polls, rotation |
| `Dashboard` | P5 on a reduced bus, with browsers and table | aggregates, fan-out, streams, queries |
| `LogParsing` | C2 on a reduced bus | blocks of lines, partial publishing, replay |
| `Enrichment` | C3 on a reduced bus | request counter, replay |
| `Ddos` | roles REPARTITION and DDOS on a reduced bus | copy by domain, windows, alerts |
| `LogStream` | composes `LogParsing`, `Enrichment`, `Ddos` | a log line on its way to a DDoS alert |
| `Subsequences` | - | operators: the elements of a sequence at a set of places |
| `EventBus_proofs`, `RuleManagement_proofs`, `Alerting_proofs`, `PipelineState_proofs`, `Detection_proofs`, `LogStream_proofs`, `Dashboard_proofs` | each extends its component | theorems |
| `Ingestion_proofs` | extends `LogTailer` and `ScopeCache`: C1 asks the scope client about every line it reads | theorems |

### EventBus

Each `member` is a process running `EventBus.consume`. `pc` is `batch` while
`_consume_batch` polls and handles, `flush` inside the exit of `deferred_delivery`, `commit`
before `consumer.commit`. A record is handled by the step that polls it (`PollRecord`), since
`_handle` runs at once, and nothing is shared that another process could change in between.
What the handler publishes goes to `queue[m]`; delivery reports (`Deliver`, `Reject`) come in
any order and at any time, also for a report that is an error though the broker stored the
message. `done` is `_next_offsets`. `FlushFails`, `CommitFails` and a fatal `PollError` end
the process, as `start_consumer_thread` does with `os._exit`. The coordinator assigns,
revokes inside `poll()` (cooperative, no callback registered), expires sessions and accepts
the commit of any current member. How the handler ends is one of `Results`: it published, it
published nothing, it raised, or it raised after having published.

### ScopeCache

Time is an integer. `Ask`, `Check` and `Receive` are three steps, so that the row may change
while the answer is on its way; `askedAt` is the one reading of the clock that
`ScopeClient.allowed` makes. Seeding goes row by row (`SeedRow`), as each INSERT is its own
transaction. `lastIn`, `lastOut`, `lastFail` and `decision` are history. `HttpScopeService`
in the detector follows the same steps. `now` is real time; the wall clock of a client
(`WallClock`) may be set back (`SetBack`), by `behind` in all, since `allowed` reads
`time.time()`. `NoStaleVerdict` bounds the age of a verdict by its TTL plus that, and TLC shows
that the TTL alone is not a bound. Clocks set forward only shorten what is cached.

### RuleManagement

A document is a version and a set of ids. `Save` is the part of `mutate()` up to the atomic
rename and the assignment of `current`; `lock` is `mutationLock`, held until the thread
answers. `outbox` is the FIFO buffer of the one idempotent producer: a record whose
`get(30 s)` timed out may be stored later (`Store`) or given up (`GiveUp`). `Compact` removes
any record but the last. `reader` is the subscriber thread, which may die alone; the detector
serves when the reader has caught up or 30 s are over (`Serve`). Two assumptions: what a dead
rule-api had in flight reaches the broker before its successor's first mutation, and a
consumer moves over a compacted gap by reading the next record that is there.

### Detection

Time is in seconds (the code keeps buckets by millisecond and the cooldown by second). What
the rules find is computed by `RuleMatching`: the value of a field is a text inside layers of
encoding (percent, HTML entity, SQL comment), the outermost first, and a pattern is the set of
values it is found in, so that two rounds of decoding, and their limit, are what the code does.
`ReplaceRules` is the one assignment the subscriber thread makes, and a restart may go on with
the default rules, as `awaitCaughtUp` allows. `Slide`,
`Expire`, `Add`, `Score` and `AfterScore` are `analyze`, in its order. `used`, the record that
last used each window, gives the access order of the `LinkedHashMap`: the eldest entry is the
one with the smallest. Every malformed record takes the path of `DeadLetter`, of
which the future-dated one is the interesting case. An output is identified by its record and
kind, as its `event_id` is, so a replay sends the same outputs again.

### Alerting, PipelineState

The bus is reduced to what a handler sees of it: records of each topic in order, commits
between two handlers, a replay from the committed offset after a crash. In `Alerting` the
handler is cut at each effect (cooldown, history and row, email, webhook), and the clock may
move between them. In `PipelineState` the consumer thread and the publisher thread
interleave; `drain_changes` is atomic under the lock. After a restart the counts and ids are
gone; `reportedBefore` and `replayed` are the history that says what may be reported again.

### LogTailer

A line is two bytes, text and newline, so that a poll can find half of it. `Sync`, `Track`,
`Stat`, `Read` are the system calls of one poll, with Nginx and logrotate free to act between
any two. Reopening and truncating happen between two lines of the writer; the number of an
inode is not used again. `raced` is history: C1 read from a file that had been replaced since
it looked (rotation between `os.stat` and `open`), or did not notice a truncation because the
file had grown past the offset again. The safety properties hold outside of these two, and
TLC finds a counterexample for each of them when the exception is dropped. `LinesAreTheLog` has
three parts: what is collected is whole lines, without repeats and in order, and no line before
the offset of the file is missing (`NonePassedOver`), unless C1 is about to find that the file
was replaced or truncated (`Settled`, `Misled`).

### LogParsing, Enrichment, Ddos, LogStream

A partition is a client (key `domain|src_ip`) up to `log.enriched` and a domain after it, and
a block of lines belongs to one client. A line is malformed, without a time, or its second;
it is known by its place in the log, so that history can tell a repeat, which the code cannot,
as every publish draws a new `event_id`. Handlers run at once, as in `EventBus`; a batch is
bounded by `MaxPoll` over the partitions of a stage and committed whole. Outputs are stored as
they are published: the producers are idempotent and leave no gap within a partition, so a
crash that keeps outputs from the broker equals one that came earlier, and `ParseRestart` may
strike in the middle of a block. One process plays each role, and the containers show the same
clock, which does not step back. `Fault` names each fault, so that a property can say which
ones it is relative to. `hits` and `windows` are maps in order of use, as sequences, and
what is filtered out of a sequence or a map leaves the rest in its order (`At`, of
`Subsequences`); `since`, `seen`, `lost` and `dropped` are history, which no guard reads. A denied scope and an unanswered one are the same
step, in all stages.

`lost[d]` is how far the partition of domain `d` is beyond what any window can hold: what was
committed when DDOS last started, or what came before the window was made anew after a removal
(computeIfAbsent, `DdosDetectionServiceImpl.java:57`). `BurstIsAlerted` counts bursts anew from
the partition and has two parts: all that DDOS has passed since `lost[d]` is in the window's
history or was dropped, and a burst of such requests is alerted. A burst that the loss splits
is excepted, since the code does not alert it (below, "Also noticed").

One path is left out: that the producer of C2 refuses a line twice (`BufferError`,
`bus.py:165-170`) behind others of its block, whereupon the block goes to the dead letter behind
the lines already queued. It takes 100 000 messages in the queue of the client library, and a
batch has at most 500 records, to which C1, their only producer, gives one line each.

### Dashboard

Three kinds of threads meet. The consumer thread does `handle(env)` in three steps: `Record`
(the aggregates, atomic under their lock), `Persist` (best effort; a failing INSERT may still
have written the row), `Publish` (a callback for the event loop). The loop runs one callback
at a time (`Fanout`, atomic, as nothing in it awaits) and the coroutine of each browser
(`Open`, `Send`, `Leave`). A slow browser is one whose `Send` is delayed, and one that is
gone without notice never reads; comments (`: ping`) carry nothing and are left out. HTTP
threads run their statements one by one (`Execute`): the pool's connections are in autocommit
mode, so each statement sees the table as it is then. `covered` is the rows that a statement
shows or counts. One counter (attack types) stands for both, one domain for all, and the
feed for the three bounded lists. `table` is keyed by `event_id`, as `ON CONFLICT DO NOTHING`
makes it; `unstored`, `fanned`, `joined`, `sent` and `lost` are history. The heat map, the
tables of addresses and of P4's alerts, search text and paging offsets are left out.

## 3. Runs

| Run | Bounds | Shows |
|---|---|---|
| `bus_group` | 2 members, 1 partition of 2 records (1 malformed), batches of 2, 2 faults | types; `CommittedIsSettled`; refinement of `DeliveryLedger` |
| `bus_single` | 1 member, 2 partitions, 5 records (4 malformed), batches of 2, 2 faults | `ReplayBounded`; `EventuallySettled` |
| `scope_cache` | 1 client, 1 seeded domain, TTL 4, failure TTL 2, time-out 1, time to 9, clock set back by 1 | no verdict outlives its TTL and the set-back |
| `rules` | 2 clients, 2 rules, 1 detector, 2 requests, 1 fault | detectors never go back; acknowledged is published, stored and enforced; newest at start |
| `rules_retry` | 1 client, 2 requests, 1 fault | violation: the retry the 502 answer asks for is refused |
| `alerting` | 4 requests, 3 keys, 5 records, cooldown 2, clock to 3, 1 fault | every alert answered, counted and recorded; emails spaced |
| `alerting_email` | the same without fault | violation: two emails for one request |
| `stages` | 2 pairs, 6 records with ids repeated within and beyond the cap, 2 faults | each event in one window, again only if replayed, and reported in the end |
| `detection` | 5 requests of 3 clients, 4 records, batches of 2, 2 rule sets, room for 2 clients, 2 instants, 1 fault | exact windows; spacing; no attack unreported or unalerted; who keeps coming is remembered |
| `log_stream` | 2 clients of 1 domain, 3 blocks with 3 valid and 2 malformed lines, batches of 1, room for 1 counter, 2 instants, 1 fault | nothing lost; order kept; repeats bounded; counts exact; alerts justified; a burst missed only if a restart of DDOS splits it |
| `tailer` | 3 lines, 3 files, 1 truncation, 1 fault | whole lines, once, in order, none passed over; each one that stays is published |
| `dashboard` | 5 events, 2 browsers, queues of 1, 2 requests, 1 fault | exact summaries and streams; seen is stored; answers add up; slow browsers block no one |

Why the bounds are enough. The hazards need few actors: a commit overtaking a record needs
one batch of two records and one rejected delivery; a commit by an ex-owner needs two
members; going back to older rules needs two mutations and one delayed send; an expired
approval needs an answer one time-out old and a clock past one TTL. Two faults allow a second
failure during the recovery from the first, where the model stayed small enough. Cooldowns,
caps, windows and thresholds are scaled down together, so that each is reached, exceeded and
left again. `Instants` of `detection` are chosen so that a request is future-dated at one and
not at the other, and that a client is idle for two windows at the second; its payloads lie
under one to four layers of encoding, so that some are found and some are not, and its second
snapshot enables a rule. In `log_stream` a block holds a malformed line between two valid ones,
so that a restart may fall inside it; the line at second 3 comes before the one at second 1, is
from the future at instant 2 and not at 4, so that a replay accepts it late and out of order
(the exception of `ClientOrderKept`, without which TLC reports it); one line has no time, the second client always pushes the first out of the counter,
and the idle domains are removed every second request. There is one domain: its eviction is
the policy that `detection` exercises, and an instance with two takes too long. Nor is its window
ever idle for two windows between the two instants: the removal of idle domains is evaluated
but removes nothing, so that the loss of a window at a restart is what TLC checks of `lost`, and
its loss by removal is left to the proof. In `dashboard`
queues, counter and traffic hold one entry, so that the second attack type, minute and item
overflow them; batches have one record, since a crash loses all that a longer one would add;
a window of five minutes in three and in two buckets rounds both ways.

Fairness. `bus_single`: a stopped container is restarted (`restart: unless-stopped`), a dead
member's session expires, `poll`, `flush` and `commit` return, the broker answers deliveries
that it does not reject; faults themselves are never fair. `rules`: the API restarts, the
producer's buffer is sent, request threads and the subscriber thread run while they live.
`stages`: both threads run, a connect and a publish end; a publisher thread that ended at its first
connect is never started again, and `EveryEventReported` excepts it. `tailer`: `run_loop` catches every
exception and polls for ever; Nginx is not obliged to write, and a line whose publish failed, which C1
logs and forgets, counts as answered in `EveryLinePublished`. `dashboard`: the event
loop runs what is ready and a prompt browser reads; nothing is asked of the slow one, of the
consumer or of HTTP threads. The other runs check safety only
and state no fairness. `CHECK_DEADLOCK FALSE` is set where a finite log, a bounded clock or a
bounded number of requests lets the system come to rest.

### Findings

- `rules_retry`: `RuleApiServer.java:119` answers 502 "restart rule-api or retry", but the
  rule is saved already, so a repeated POST is refused with 400 and a repeated DELETE with
  404, and neither publishes.
- `alerting_email`: `p4-alerting/consumer.py:88` says the cooldown stops the second email of
  one request; it compares the times of handling, and the two events come from two topics.

Also noticed, without a run: `detector/README.md:11` says `anomaly.scored` is sent when the
score is above 0, the code sends it from 40 or when a rule matched. `_trim_counter`
(`p5-dashboard/store.py:29`) drops the new key of a full counter at once, as it has count 1
and comes last among equals: an address first seen after 5000 others never enters the list
of top addresses, however often it comes (`SummaryIsExact` states what does hold).
`KafkaPipeline.java:105` logs that the default rules are used until the snapshot is received;
when the subscriber thread has ended with an exception of its consumer, none is ever read
(`AcknowledgedIsEnforced` makes the exception). `bus.py:11` and `contracts/events/README.md:59`
ask handlers to be idempotent by `event_id`, but C2 and C3 draw new ids for what they replay,
so windows and rates count a repeat as a request (`RepeatsBounded` says how many there can be).
The first copy of a line dated too far ahead goes to the dead letter while the copy of a
replay, handled later, is accepted behind lines that follow it. After a restart of DDOS one
burst may alert again from another record, hence under another id. A burst that the restart
splits may never alert: with a threshold of three requests, two of them committed before it and one
after it, the new window counts one (`DdosDetectionServiceImpl.java:33`). The same goes for a
domain whose window was pushed out, or removed as idle, in the middle of a burst (`:44`, `:65`);
no document promises otherwise, and `BurstIsAlerted` excepts these bursts and no others. A seeding of P1 that was
interrupted is never completed, since the next start finds the table not empty. What P3 has
counted but not drained when it dies is reported only if it is replayed.

## 4. Proofs

TLAPS checks the theorems below for every value of the constants that satisfies the named
assumption of the module, which TLC evaluates in the runs. They are about `Spec`, so they hold
of the fair specifications of the runs as well, which imply it. Each proof has the same shape.
The invariant to prove is not inductive; a strengthening, a conjunction of named parts, is. One
lemma shows it of the initial states; one lemma for each action, or for each actor, shows that
a step keeps it, with a step for each part that the action can disturb; the theorems follow.
TLC checked each strengthening on the instance of its run before it was proved.

### EventBus

From `BusAssumption` (lengths are naturals, batches are not empty, the mark of a free partition
is no member), for any number of members, partitions, records and faults: `TypeCorrect`,
`BusInvariant`, `AtLeastOnce` (`CommittedIsSettled`), `Refinement` (the bus implements
`DeliveryLedger`) and, for groups of one member, `ReplayIsBounded` (`ReplayBounded`).

`CommittedIsSettled` says nothing of the batch in hand. `BusInv` adds `BatchCovered`, that
unless a delivery of the batch failed, whatever the member would commit (`done`) and whatever
it has read past (`position`) was handled, with every output stored or still in its own queue;
and `FlushedBeforeCommit`, that a member about to commit has an empty queue and no failure. The
second half of `BatchCovered` is what a commit needs: `done` covers all offsets below it
because reading started at a committed offset, covered by `CommittedIsSettled` itself, and went
on without a gap. `Monotone` says that handlings and stored outputs are never taken back, which
settles every step of another member (`OtherMember`); the member's own steps are in
`OwnStepCovered`. For the refinement, a step that leaves `committed` alone settles records (or
nothing), and a commit settles nothing and moves offsets over settled ones only.

That a restart of a group of one replays one batch at most was the first form of
`ReplayBounded`, and its proof failed for a good reason. A member that loses a partition and
gets it back within a batch (a session that expired, and `poll()` rejoins) resumes at the
committed offset, and the batch still commits what it did before: the commit is now ahead of the
position. If the same happens in a later batch, that one commits an offset below the last
commit, and the position is ahead of it before the batch after it begins. TLC shows it with
batches of two, a partition of four records and two such losses, the bounds `bus_single` has
now. `ReplayInv` bounds both distances by the number of returns, `Ahead(n)` and `Ahead(n + 1)`:
each return makes of one the other, and of the other one batch more.

### ScopeCache

From `ScopeAssumption` (a failure TTL of at least 1, a time-out below the TTL, clocks set back
by no more than they show): `ScopeTypeCorrect` (`ScopeTypeOK`), `ScopeInvariant`,
`FreshVerdicts` (`NoStaleVerdict`), in `Ingestion_proofs`. The definitions `ScopeInit`,
`ScopeNext` and `ScopeSpec` have their names from sharing that module with `LogTailer`.

A verdict comes from an entry, an entry from an answer, an answer from the table at some time
during the call. `ScopeInv` follows that chain backwards: `EntriesExpire` bounds the expiry of
an entry by the last time it was true plus a TTL; it is kept when an answer arrives because of
`CallsAreYoung`, that a call is no older than its time-out and its answer was true since it was
sent; which needs `HistoryIsRight`, that the history of the table is up to now.
`ClocksShowNaturals` makes the reading of a clock that was set back a natural number.

### LogTailer

From `TailerAssumption` (there is a first file; bounds are naturals), for any number of bytes,
files, truncations and faults, and for both values of `C1_READ_EXISTING`: `TypeCorrect`,
`TailerInvariant`, `LinesAreCollected` (`LinesAreTheLog`), in `Ingestion_proofs`.

What C1 has collected is right only if what it will read next goes on there. `TailerInv` says
where that is:

- `FilesAreRuns`: a file holds consecutive bytes of the log from the beginning of a line on, for
  Nginx reopens between two lines; only the open file grows, and a file that has the name
  without being the open one is empty.
- `BufferIsHalfLine`: while the file is the one C1 follows, the buffer holds the byte before the
  offset if that is no newline, and nothing otherwise, unless C1 began in the middle of a line.
- `CollectedIsBehind`: every line collected ends before all that is still to be read: before the
  bytes behind the offset, or, if C1 is to begin anew, before the whole file (`Resume`).
- `PollsInOrder`: only the first poll may begin at the end of a file, and a file that is shorter
  than its offset was truncated. So a file that Nginx fills up to the offset again is one that
  C1 is misled about, and no longer one it follows.

The buffer and the chunk behind it are therefore consecutive bytes (`DataIsRun`), which are
divided into lines of two bytes each, except for a newline in front and half a line at the end
(`RunLines`, `RunIsSplit`, `LineFacts`); `LinesOfPoll` concludes what a poll adds to the lines
collected. All of it is claimed while C1 has not raced; after that, types remain
(`PiecesAreBytes`). `Ends`, `LinesOf` and `Rest` are stated by the places of the newlines, the
n-th of which `NthFacts` and `EveryOther` find, and not by recursion.

### RuleManagement

From `RuleAssumption` (there are default rules; the free lock is no client), for any number of
clients, rules, detectors, requests and faults: `TypeCorrect`, `RuleInvariant`,
`NothingIsTakenBack` (`NothingTakenBack`), `StartsWithTheNewest` (`ServesNewestAtStart`), and the
action property `RulesOnlyAdvance` (`RulesNeverGoBack`).

`InOrder` is the argument: along the topic, then the producer's buffer, then the disk, versions
never decrease, so whatever is stored next is at least as new as all that was read. It is kept
by a mutation because of `Serialized`, that one thread at a time is between its save and its
answer, with what it saved on disk, and that a dead rule-api has an empty buffer. `ReadersFollow`
says that what a detector matches with is the last record it read, so that reading on, also
over a compacted gap, never goes back.

### Alerting

From `AlertingAssumption` (scores are naturals, the topics carry requests, a cooldown of at
least 1): `TypeCorrect`, `AlertingInvariant`, `NoAlertDisappears` (`EveryAlertAnswered`),
`EmailsAreSpaced` (`EmailsSpaced`), `TheBooksAgree` (`BooksAgree`).

`EveryAlertAnswered` is about committed records; `HandledIsAnswered` says the same of all that
were handled, except the one in hand before its email. A suppression is backed by
`CooldownIsBacked`: the time in the cooldown map is that of an email that was tried, or of the
one in hand. `EmailsAge` is what spaces emails: those of this incarnation are no younger than
the entry of their key, and older by a cooldown while another one is pending. `Counted` states
the sums of the counters at every step of the handler, not only between records.

### PipelineState

From `PipelineAssumption` (a cap of at least 1): `TypeCorrect`, `PipelineInvariant`,
`StagesAddUp` (`WindowsAddUp`).

`SeenIsRecent` says that the bounded memory of ids is the end of the sequence of those counted,
and the whole of it below the cap; so an id that is counted twice came again after `SeenCap`
others. `BooksBalance` ties the three books of the two threads; `CountsAreBacked` compares what
was counted, in this life and those before, with the records handled and those handled again,
and needs the cardinality of the events of a pair up to an offset to grow with the offset.

### Detection

From `DetectionAssumption` (the rules of each set are finitely many and have scores from 1 to
100; widths and bounds are not 0), for any requests, clients, rule sets, thresholds and number
of faults: `TypeCorrect`, `DetectionInvariant`, `AlertsAreSpaced` (`AlertsSpaced`),
`NoAttackInSilence` (`EveryAttackAnswered`), and the action property `ActiveAreRemembered`
(`ActiveIsRemembered`). Its last part adds `WindowsAreExact` (`WindowIsExact`).

An alert is owed or suppressed by the last alert of the window, and that window may be gone or
belong to a batch that dies. `LastAlertIsBacked` says that the last alert is one that was sent
in this incarnation; `LastAlertIsNewest`, that no other alert of the window is newer, in event
time, which spaces alerts though events come late. `AttacksAlerted` and `AttacksReported` say of
every analysed record what the property says of committed ones: its outputs are on the broker,
or in flight until its batch commits, which `CommitStep` turns into stored ones. `UsedLast` says
that the order of the map is that of the last requests: the client that a full map forgets came
before all that stay (`OthersCameSince`), so `MaxTracked` others came after it.

That the totals are exact is a separate induction, `WindowsExact`: every bucket, and the window,
tallies the records it covers. Its steps are the operators of the code, each with a lemma:
`AddIsExact`, `ExpireIsExact` (what is taken off for the old buckets is the number of old
records), `SlideIsExact`. The sum over the old buckets is a fold, which the community modules
define by recursion; `SumUnfolds` unfolds it to a recursive function, and `PartsAddUp`, that the
sizes of the parts of a finite set add up, is proved by a smallest counterexample instead of by
induction, whose theorem the provers cannot apply.

### LogStream

From `StreamAssumption` (the log is a sequence of blocks of lines; sizes are not 0) and
`ClientsAreFinite` (without which no block need be the longest), for any log, clients, domains,
batch size and number of faults: `TypeCorrect`, `StreamInvariant`, `NothingIsLost`
(`NothingLost`), `ClientOrderIsKept` (`ClientOrderKept`), `CountsStayExact` (`CountsAreExact`),
`BurstsAreNotMissed` (`BurstIsAlerted`), `RepeatsAreBounded` (`RepeatsBounded`),
`AlertsAreJustified` (`AlertIsJustified`).

Three parts of `StreamInv` say that what a stage has handled, committed or not, is in the next
topic or was dropped; a restart moves the offset back and takes nothing out of a topic, so they
survive it. The order of lines is `LinesInOrder`: before a record there is every line that comes
before its line in the log (`NoGapBefore`). Without skips a stage passes every record on, so when
it appends the record behind those it has handled, or a part of the block behind those, all the
lines before are there already; a replay appends lines whose predecessors are there even more
so. C2 and C3 keep it alike. REPARTITION may send a record to the dead letter, and merges the clients of a
domain; `CopiesInOrder` therefore speaks of positions in `log.enriched`: a copy has copies of
all records before its own in front of it, but for dropped ones. `ClientOrderIsKept` puts the
two together, on the subsequence of the copies of one client; `RankFacts`, `NthFacts` and
`AtFacts` say what a subsequence is.

The attempt to prove an earlier form of `ClientOrderKept` failed for a good reason. It excused
dropped records up to the position of REPARTITION only. A restart moves that position back in
front of a record that the first pass had dropped, and whose copy the replay accepts, so the
excuse lapsed between the two; TLC then showed it with batches of three records and two faults.
The property now excuses any dropped record of the client.

The counts rest on `CountsInv`, which adds three parts to `StreamInv`:

- `DomainWindows`: the window of a domain, and each of its buckets, tallies the records of
  `seen` that it covers, by address too, and its newest second is that of one of them. `Requests`
  names the second and the client of a place in the partition; a place keeps them
  (`RequestStays`), which is why topics may grow under an exact window. Every step of DDOS is
  silent or a `Verdict` on one record (`StepCases`), and `SlideIsExact` is the verdict's
  arithmetic; `SumUnfolds` and `PartsAddUp` stand for the induction over the expired seconds, as
  in `Detection_proofs`.
- `Bursts`: what DDOS has passed in a partition since `lost` is in `seen` or was dropped, and a
  record with which the requests in `seen` reach both thresholds (`Reached`, over the `Recent`
  ones) is answered by an alert, its own or one less than a cooldown older. A restart makes both
  true of the empty `seen`, as it sets `lost` to the position from which DDOS reads on; a removed
  window does when it is made anew. In between `Recent` shrinks to what the window covers
  (`CoveredAreRecent`), by `DomainWindows` the counts the detector compares are those of the
  records, and the last alert of the window is one of `alerts` (`Right`), so a suppressed burst
  has the alert that suppresses it.
- `CountersRight`: the times of a client's counter are the end of the times of its records
  (`EndOf`), no longer than the cap, and what is missing is too old or past the cap. Appending,
  trimming and capping each leave an end of an ascending sequence (`TrimLeavesEnd`,
  `CapLeavesEnd`), so `Recorded` is right again (`NextTimes`); the clock never goes back, so the
  times ascend.

The proof showed an earlier `BurstIsAlerted` too strong: with a cooldown of 0 a record's own
alert is not within the cooldown before it. The property now counts it. Another kept, as history,
the records for which a burst was due; that was computed from the window's own past, which says
nothing of how much of the partition the window had forgotten, and so did not tell a burst lost
at a restart from one that never was. The first part of the property now bounds the loss.

`RepeatsBounded` cannot be proved by counting repeats: a restart repeats nothing at the moment it
happens, only once the replay is published, and a line that its first pass left out is not
repeated by the replay. `RepeatsInv` therefore balances what a stage has published against what
it has handled, with a reserve for each fault of that stage:

- `ParsedOnce` (`Spread`): of the records in `log.normalized`, all but the reserve of C2 have a
  line that C2 has handled for themselves. A restart of C2 takes at most a batch of blocks out of
  what is handled and adds as much to the reserve, together with the part of a block that was
  already published.
- `EnrichedOnce` and `CopiedOnce` (`Relayed`): what C3 or REPARTITION has published, and the lines
  it left out for good (`Spare`), are no more than its position and its reserve. `Spare` ties the
  position to different lines: a line of the input is published, left out for good, or still to
  come. A replay may publish a line whose first copy was dropped; it then leaves `Spare`, and
  spends the room that the drop had left.
- `SmallBatches`: a stage is never more than a batch past its committed offset, so a restart moves
  it back by a batch at most.

`RepeatsFew` adds the three balances up along the stages (`RelayedRepeats`, `RepeatsOfSequence`);
they add up and do not multiply, because a stage counts what repeats beyond its input.

`AlertsBacked` says that every alert has a window of enough requests of enough addresses behind
it. That the counts the detector compared are the real ones is `CountsInv`
(`CountsBackAlert`). Requests become lines in `BackedIsJustified`: a line carries its client, and
without restarts before DDOS `RepeatsBounded` leaves no repeats, so different requests are
different lines (`CopiesAreDifferent`, `LinesAreDifferent`).

### Dashboard

From `DashboardAssumption` (the log is a sequence of events of minutes before `Now`, an
`event_id` stands for one event, sizes are not 0, and an overview has a window), for any events,
browsers, requests, caps, queue sizes and number of faults: `TypeCorrect`, `DashboardInvariant`,
`SummariesAreRight` (`SummaryIsExact`), `StreamsAreExact` (`StreamIsExact`),
`WhatIsSeenIsStored` (`SeenIsStored`), and the action property `StatementsAddUp`
(`AnswersAddUp`).

- What is seen is stored: `HandledIsStored` says it of everything handled but the attack in hand
  between `Record` and `Publish`, and that the browsers have nothing that was not handled;
  `InHand`, that the record in hand is not committed.
- Summaries: `ExactCounter`, `ExactTraffic` and `ExactRecent` say what each structure is for a
  set of handled records, and each has a lemma for one record more. A full counter that gets a
  new key drops that key again, since the count of 1 is the smallest and the newest of its
  equals (`NewestKeyGoes`); so a count in the counter is never that of a key that went and came
  back. For the minutes, `TopOfTop`: the newest of the minutes kept and one more are the newest
  of all and that one, so a late request in a minute already dropped changes nothing.
- Streams: `StreamOfIsExact` ranks what a browser is due; `FanoutStream` adds the last rank
  (`LastRank`) or a loss, for every browser at once, and the other steps move an item between
  queue and connection (`HeadMoves`).
- Answers: `RowsCover` (each statement but the page covers the rows that the request selects,
  the histogram because its buckets cover the window, `BucketsCover`) and `MatchingGrows` (the
  table never shrinks).

### Only model-checked

- Liveness (`EventuallySettled`, and the properties under fairness of `rules`, `stages`, `tailer`
  and `dashboard`): the prover handles neither fairness nor `ENABLED`.
- `AcknowledgedIsEnforced` is a liveness property of `RuleManagement`.

All other properties of the runs that pass are proved.

What a recursive definition computes for every input cannot be proved by induction here; that is
why subsequences, and the lines of a chunk, are stated by their places and not by `SelectSeq`.

## 5. Not modelled

P2 keeps no state. The metrics exporter counts envelopes. The characters of requests, regular
expressions, GeoIP and session ids, SQL statistics, the JavaScript of the dashboard, the
gateway, infrastructure, experiments and `Evaluate` are data, presentation or configuration.
The internal protocols of Kafka, Postgres and SMTP are taken as their clients see them.

Two hazards have no property. An event dated up to 300 s ahead moves the newest time of a
client's window, so that punctual requests after it do not count; the code accepts the skew and
nothing it promises says otherwise. C1 opens a path after it looked at it and knows a file by
inode and size, so two races lose or repeat lines; `raced` marks them.

## 6. Plan

Done: the modules of section 2; the proofs of `EventBus`, `ScopeCache`, `LogTailer`,
`PipelineState`, `RuleManagement`, `Alerting`, `Detection`, `Dashboard` and `LogStream`, which
state every safety property that the runs check.

1. A composition of detection and alerting over their topic: an attack whose record is
   committed ends in an email or a suppression.
