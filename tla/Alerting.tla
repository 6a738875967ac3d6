------------------------------- MODULE Alerting -------------------------------
(***************************************************************************)
(* P4 (services/p4-alerting): the handler of anomaly.scored and            *)
(* alert.triggered, from the domain threshold over the cooldown to the     *)
(* history, the database, the email and the webhook.  The event bus is     *)
(* reduced to what P4 sees of it: records of each topic in order, offsets  *)
(* committed between two handlers, a replay after a crash (EventBus).      *)
(* Cooldown, history and counters are in memory, the table is not.         *)
(***************************************************************************)
EXTENDS Integers, Sequences

CONSTANTS Requests,     \* analysed requests that scored
          Key,          \* Key[r]: dedup_key: (domain, src_ip, main attack type)
          Score,        \* Score[r]
          Topic,        \* Topic["anomaly"], Topic["alert"]: requests, in log order
          Configured,   \* Configured[k]: ALERT_THRESHOLDS of k's domain, or NoThreshold
          NoThreshold,
          Cooldown,     \* ALERT_COOLDOWN_SECONDS = 60
          HistoryCap,   \* HISTORY_CAP = 500
          MaxTime,      \* bound on the clock
          MaxFaults     \* bound on crashes, failed INSERTs and failed emails

ASSUME AlertingAssumption ==
  /\ Score \in [Requests -> Nat]
  /\ Topic \in [{"anomaly", "alert"} -> Seq(Requests)]
  /\ Cooldown \in Nat \ {0} /\ HistoryCap \in Nat \ {0}
  /\ MaxTime \in Nat /\ MaxFaults \in Nat

Topics == {"anomaly", "alert"}
Keys == {Key[r] : r \in Requests}
Records == UNION {{<<t, o>> : o \in DOMAIN Topic[t]} : t \in Topics}

RequestOf(rec) == Topic[rec[1]][rec[2]]
KeyOf(rec) == Key[RequestOf(rec)]

VARIABLES
  now,          \* time.monotonic
  pos,          \* pos[t]: records of t handled in this incarnation
  committed,    \* committed[t]: records of t committed
  start,        \* start[t]: where this incarnation began
  pc,           \* the handler: "idle", "record", "email" or "webhook"
  cur,          \* record in hand
  last,         \* CooldownStore._last; Never when there is no entry
  history,      \* AlertStore._alerts, newest last
  counter,      \* AlertStore._counters, those the properties need
  table,        \* records whose row is in alerting.alerts
  \* history and bounds
  attempts,     \* emails tried: the record, when it passed the cooldown, in which incarnation
  inbox,        \* emails delivered, by record and incarnation
  suppressed,   \* records stopped by the cooldown, and when
  lostRows,     \* records whose INSERT failed
  run,          \* incarnation of the process
  faults

memory == <<last, history, counter>>
vars == <<now, pos, committed, start, pc, cur, memory, table, attempts, inbox, suppressed, lostRows, run, faults>>

Never == -Cooldown

Counters == {"alerts", "alerts_suppressed", "alerts_below_threshold", "anomalies_flagged",
             "emails_sent", "emails_failed"}

NoRecord == <<"anomaly", 0>>

-----------------------------------------------------------------------------
Init ==
  /\ now = 0
  /\ pos = [t \in Topics |-> 0] /\ committed = [t \in Topics |-> 0]
  /\ start = [t \in Topics |-> 0]
  /\ pc = "idle" /\ cur = NoRecord
  /\ last = [k \in Keys |-> Never]
  /\ history = <<>>
  /\ counter = [n \in Counters |-> 0]
  /\ table = {} /\ attempts = {} /\ inbox = {} /\ suppressed = {} /\ lostRows = {}
  /\ run = 0 /\ faults = 0

Fault == faults < MaxFaults /\ faults' = faults + 1

\* Neither an anomaly of a domain without threshold nor a score below it is notified.
BelowThreshold(rec) ==
  LET k == KeyOf(rec) IN
  IF Configured[k] = NoThreshold THEN rec[1] = "anomaly"
  ELSE Score[RequestOf(rec)] < Configured[k]

\* Faulty variant of Allowed: the time is not noted.
AllowedForgetful(k) ==
  /\ now - last[k] >= Cooldown
  /\ UNCHANGED last

\* CooldownStore.allow, when it answers True.
Allowed(k) ==
  /\ now - last[k] >= Cooldown
  /\ last' = [last EXCEPT ![k] = now]

\* Faulty variant of Refused: a refused alert starts the window again.
RefusedSliding(k) ==
  /\ now - last[k] < Cooldown
  /\ last' = [last EXCEPT ![k] = now]

\* CooldownStore.allow, when it answers False.
Refused(k) ==
  /\ now - last[k] < Cooldown
  /\ UNCHANGED last

Incr(names) == counter' = [n \in Counters |-> counter[n] + (IF n \in names THEN 1 ELSE 0)]

\* The next record of topic t reaches the handler: threshold, then cooldown.
Handle(t) ==
  /\ pc = "idle" /\ pos[t] < Len(Topic[t])
  /\ pos' = [pos EXCEPT ![t] = @ + 1]
  /\ LET rec == <<t, pos[t] + 1>>
         flagged == IF t = "anomaly" THEN {"anomalies_flagged"} ELSE {} IN
     \/ /\ BelowThreshold(rec)
        /\ Incr(IF t = "alert" THEN {"alerts_below_threshold"} ELSE {})
        /\ UNCHANGED <<pc, cur, last, suppressed>>
     \/ /\ ~BelowThreshold(rec) /\ Refused(KeyOf(rec))
        /\ Incr(flagged \cup {"alerts_suppressed"})
        /\ suppressed' = suppressed \cup {[rec |-> rec, at |-> now]}
        /\ UNCHANGED <<pc, cur>>
     \/ /\ ~BelowThreshold(rec) /\ Allowed(KeyOf(rec))
        /\ Incr(flagged)
        /\ pc' = "record" /\ cur' = rec
        /\ UNCHANGED suppressed
  /\ UNCHANGED <<now, committed, start, history, table, attempts, inbox, lostRows, run, faults>>

\* Faulty variant of Newest: the bound is checked before the append.
NewestOffByOne(s) ==
  SubSeq(s, IF Len(s) > HistoryCap + 1 THEN Len(s) - HistoryCap ELSE 1, Len(s))

\* The newest HistoryCap elements of s (deque(maxlen)).
Newest(s) == SubSeq(s, IF Len(s) > HistoryCap THEN Len(s) - HistoryCap + 1 ELSE 1, Len(s))

\* Faulty variant of Record: the conflict is on the dedup key, not on event_id.
RecordOncePerKey ==
  /\ pc = "record"
  /\ history' = Newest(Append(history, cur))
  /\ Incr({"alerts"})
  /\ \/ IF \E rec \in table : KeyOf(rec) = KeyOf(cur)
        THEN UNCHANGED <<table, lostRows, faults>>
        ELSE table' = table \cup {cur} /\ UNCHANGED <<lostRows, faults>>
     \/ Fault /\ lostRows' = lostRows \cup {cur} /\ UNCHANGED table
  /\ pc' = "email"
  /\ UNCHANGED <<now, pos, committed, start, cur, last, attempts, inbox, suppressed, run>>

\* add_alert, then INSERT ... ON CONFLICT (event_id) DO NOTHING, best effort.
Record ==
  /\ pc = "record"
  /\ history' = Newest(Append(history, cur))
  /\ Incr({"alerts"})
  /\ \/ table' = table \cup {cur} /\ UNCHANGED <<lostRows, faults>>
     \/ Fault /\ lostRows' = lostRows \cup {cur} /\ UNCHANGED table
  /\ pc' = "email"
  /\ UNCHANGED <<now, pos, committed, start, cur, last, attempts, inbox, suppressed, run>>

\* An email is told from another of the same record by the incarnation that sent it.
Mail(rec) == [rec |-> rec, run |-> run]

\* send_email: delivered, refused by the server, or out of time.
Email ==
  /\ pc = "email"
  /\ attempts' = attempts \cup {[rec |-> cur, at |-> last[KeyOf(cur)], run |-> run]}
  /\ \/ Incr({"emails_sent"}) /\ inbox' = inbox \cup {Mail(cur)} /\ UNCHANGED faults
     \/ Fault /\ Incr({"emails_failed"}) /\ inbox' \in {inbox, inbox \cup {Mail(cur)}}
  /\ pc' = "webhook"
  /\ UNCHANGED <<now, pos, committed, start, cur, last, history, table, suppressed, lostRows, run>>

\* send_webhook never stops the handler, whatever becomes of it.
Webhook ==
  /\ pc = "webhook"
  /\ pc' = "idle" /\ cur' = NoRecord
  /\ UNCHANGED <<now, pos, committed, start, memory, table, attempts, inbox, suppressed, lostRows, run, faults>>

\* The end of a batch (EventBus): P4 publishes nothing, so the flush has nothing to fail on.
Commit ==
  /\ pc = "idle" /\ pos # committed
  /\ committed' = pos
  /\ UNCHANGED <<now, pos, start, pc, cur, memory, table, attempts, inbox, suppressed, lostRows, run, faults>>

\* The process dies anywhere and is started again: memory is gone, the batch comes back.
\* An email under way may have left.
Crash ==
  /\ Fault
  /\ run' = run + 1
  /\ inbox' \in {inbox} \cup (IF pc = "email" THEN {inbox \cup {Mail(cur)}} ELSE {})
  /\ pc' = "idle" /\ cur' = NoRecord
  /\ pos' = committed /\ start' = committed
  /\ last' = [k \in Keys |-> Never]
  /\ history' = <<>>
  /\ counter' = [n \in Counters |-> 0]
  /\ UNCHANGED <<now, committed, table, attempts, suppressed, lostRows>>

\* Time passes, inside a handler too (SMTP alone may take 10 s).
Tick ==
  /\ now < MaxTime
  /\ now' = now + 1
  /\ UNCHANGED <<pos, committed, start, pc, cur, memory, table, attempts, inbox, suppressed, lostRows, run, faults>>

Next ==
  \/ \E t \in Topics : Handle(t)
  \/ Record \/ Email \/ Webhook \/ Commit \/ Crash \/ Tick

Spec == Init /\ [][Next]_vars

-----------------------------------------------------------------------------
(* Properties *)

\* Types; the history never outgrows its cap, a commit never overtakes the handler.
TypeOK ==
  /\ now \in 0..MaxTime
  /\ \A t \in Topics : /\ start[t] \in 0..committed[t] /\ committed[t] \in 0..pos[t]
                       /\ pos[t] \in 0..Len(Topic[t])
  /\ pc \in {"idle", "record", "email", "webhook"}
  /\ cur \in Records \cup {NoRecord} /\ (pc = "idle" <=> cur = NoRecord)
  /\ last \in [Keys -> Never..MaxTime]
  /\ history \in Seq(Records) /\ Len(history) <= HistoryCap
  /\ counter \in [Counters -> Nat]
  /\ table \subseteq Records /\ lostRows \subseteq Records
  /\ attempts \subseteq [rec : Records, at : 0..MaxTime, run : 0..MaxFaults]
  /\ inbox \subseteq [rec : Records, run : 0..MaxFaults]
  /\ suppressed \subseteq [rec : Records, at : 0..MaxTime]
  /\ run \in 0..MaxFaults /\ faults \in 0..MaxFaults

\* No alert disappears: a committed record above its threshold had its own email tried, or
\* was suppressed less than one cooldown after an email for its key passed, also across a
\* crash in any step of the handler, which forgets the cooldown and replays the batch.
EveryAlertAnswered ==
  \A t \in Topics : \A o \in 1..committed[t] :
    LET rec == <<t, o>> IN
    BelowThreshold(rec) \/ \E a \in attempts :
      \/ a.rec = rec
      \/ /\ KeyOf(a.rec) = KeyOf(rec)
         /\ \E s \in suppressed : s.rec = rec /\ a.at <= s.at /\ s.at < a.at + Cooldown

\* P4 README, step 2: two emails for one key pass at least one cooldown apart, unless the
\* process was restarted in between.
EmailsSpaced ==
  \A a, b \in attempts :
    (a # b /\ KeyOf(a.rec) = KeyOf(b.rec) /\ a.run = b.run) =>
      a.at - b.at >= Cooldown \/ b.at - a.at >= Cooldown

\* Whatever email was delivered can be looked up: its row is in the table, unless the INSERT
\* itself failed; a crash between the two never leaves an email without a row.
EmailedIsRecorded ==
  \A m \in inbox : m.rec \in table \cup lostRows

\* GET /alerts accounts for every record of the incarnation: between two handlers, each
\* alert and each flagged anomaly is in exactly one counter, and each alert had its email.
EveryAlertCounted ==
  pc = "idle" =>
    /\ counter["alerts"] + counter["alerts_suppressed"] + counter["alerts_below_threshold"]
         = pos["alert"] - start["alert"] + counter["anomalies_flagged"]
    /\ counter["alerts"] = counter["emails_sent"] + counter["emails_failed"]

\* The table, the counters and the emails of P4 agree, whichever step failed in between.
BooksAgree == EmailedIsRecorded /\ EveryAlertCounted

\* consumer.py:88, "cooldown o _notify chan email thu hai", and
\* test_anomaly_and_alert_of_same_request_send_one_email: one request, one email.
OneEmailPerRequest ==
  \A m, n \in inbox : RequestOf(m.rec) = RequestOf(n.rec) => m = n
=============================================================================
