---------------------------- MODULE Alerting_proofs ----------------------------
(***************************************************************************)
(* Proofs about Alerting, for any requests, scores, thresholds, cooldown   *)
(* and history, any times and any number of crashes: no alert goes         *)
(* unanswered, the emails of a key are spaced, and the books agree.        *)
(***************************************************************************)
EXTENDS Alerting, SequenceTheorems, TLAPS

USE AlertingAssumption

-----------------------------------------------------------------------------
(* The inductive invariant.                                                *)

\* Record rec is below its threshold, had its email, or one for its key was less than a
\* cooldown old.
Answered(rec) ==
  BelowThreshold(rec) \/ \E a \in attempts :
    \/ a.rec = rec
    \/ /\ KeyOf(a.rec) = KeyOf(rec)
       /\ \E s \in suppressed : s.rec = rec /\ a.at <= s.at /\ s.at < a.at + Cooldown

\* The handler has passed the cooldown with cur and not tried the email yet.
EmailPending == pc \in {"record", "email"}

\* Positions, and the record in hand: the one handled last, not committed.
InHand ==
  /\ pos \in [Topics -> Nat] /\ committed \in [Topics -> Nat]
  /\ pc # "idle" => \E t \in Topics : cur = <<t, pos[t]>> /\ committed[t] < pos[t]
  /\ run <= faults

\* Every record handled is answered, but the one in hand.
HandledIsAnswered ==
  \A t \in Topics : \A o \in 1..pos[t] : (EmailPending /\ cur = <<t, o>>) \/ Answered(<<t, o>>)

\* The cooldown of a key starts when an email for it was tried, or is about to be.
CooldownIsBacked ==
  \A k \in Keys :
    /\ last[k] = Never \/ last[k] \in 0..now
    /\ EmailPending /\ KeyOf(cur) = k => last[k] # Never
    /\ last[k] # Never =>
         \/ EmailPending /\ KeyOf(cur) = k
         \/ \E a \in attempts : KeyOf(a.rec) = k /\ a.at = last[k]

\* The emails of this incarnation are not younger than the cooldown of their key, and a whole
\* cooldown older when another one is pending.
EmailsAge ==
  \A a \in attempts :
    /\ a.run <= run
    /\ a.run = run =>
         /\ a.at <= last[KeyOf(a.rec)]
         /\ EmailPending /\ KeyOf(a.rec) = KeyOf(cur) => a.at + Cooldown <= last[KeyOf(cur)]

\* A record gets its row, or loses it, before its email.
RowBeforeEmail == pc \in {"email", "webhook"} => cur \in table \cup lostRows

\* The counters at any step of the handler.
Counted ==
  /\ counter["alerts"] + counter["alerts_suppressed"] + counter["alerts_below_threshold"]
       + (IF pc = "record" THEN 1 ELSE 0)
       = pos["alert"] - start["alert"] + counter["anomalies_flagged"]
  /\ counter["alerts"] =
       counter["emails_sent"] + counter["emails_failed"] + (IF pc = "email" THEN 1 ELSE 0)

AlertingInv ==
  /\ TypeOK /\ InHand /\ HandledIsAnswered /\ CooldownIsBacked /\ EmailsAge /\ EmailsSpaced
  /\ RowBeforeEmail /\ EmailedIsRecorded /\ Counted

-----------------------------------------------------------------------------
(* Records and their keys.                                                 *)

\* A position of a topic is a record.
LEMMA PositionIsRecord ==
  ASSUME NEW t \in Topics, NEW o \in 1..Len(Topic[t])
  PROVE  <<t, o>> \in Records /\ <<t, o>> # NoRecord
<1>1. Topic[t] \in Seq(Requests)
  BY DEF Topics
<1>2. o \in DOMAIN Topic[t]
  BY <1>1
<1> QED BY <1>2 DEF Records, NoRecord

\* A record has a key of its request.
LEMMA RecordKey ==
  ASSUME NEW rec \in Records
  PROVE  KeyOf(rec) \in Keys
<1>1. PICK t \in Topics : \E o \in DOMAIN Topic[t] : rec = <<t, o>>
  BY DEF Records
<1>2. PICK o \in DOMAIN Topic[t] : rec = <<t, o>>
  BY <1>1
<1>3. Topic[t] \in Seq(Requests)
  BY DEF Topics
<1>4. Topic[t][o] \in Requests
  BY <1>3
<1> QED BY <1>2, <1>4 DEF KeyOf, RequestOf, Keys

\* The facts of the type invariant that the steps need.
LEMMA TypeFacts ==
  ASSUME TypeOK
  PROVE  /\ now \in Nat /\ now \in 0..MaxTime
         /\ \A t \in Topics : /\ start[t] \in Nat /\ committed[t] \in Nat /\ pos[t] \in Nat
                              /\ start[t] <= committed[t] /\ committed[t] <= pos[t]
                              /\ pos[t] <= Len(Topic[t])
         /\ cur \in Records \cup {NoRecord}
         /\ pc # "idle" => cur \in Records
         /\ \A k \in Keys : last[k] \in Int
         /\ last \in [Keys -> Int]
         /\ counter \in [Counters -> Nat]
         /\ \A a \in attempts : a.rec \in Records /\ a.at \in Nat /\ a.run \in Nat
         /\ faults \in Nat /\ run \in Nat
<1>1. Never \in Int
  BY DEF Never
<1>2. last \in [Keys -> Int]
  BY <1>1 DEF TypeOK
<1>3. /\ now \in Nat /\ now \in 0..MaxTime /\ cur \in Records \cup {NoRecord}
      /\ pc # "idle" => cur \in Records
      /\ counter \in [Counters -> Nat] /\ faults \in Nat /\ run \in Nat
  BY DEF TypeOK
<1>4. \A a \in attempts : a.rec \in Records /\ a.at \in Nat /\ a.run \in Nat
  BY DEF TypeOK
<1>5. ASSUME NEW t \in Topics
      PROVE  /\ start[t] \in Nat /\ committed[t] \in Nat /\ pos[t] \in Nat
             /\ start[t] <= committed[t] /\ committed[t] <= pos[t]
             /\ pos[t] <= Len(Topic[t])
  <2>1. Topic[t] \in Seq(Requests)
    BY DEF Topics
  <2>2. Len(Topic[t]) \in Nat
    BY <2>1
  <2>3. start[t] \in 0..committed[t] /\ committed[t] \in 0..pos[t] /\ pos[t] \in 0..Len(Topic[t])
    BY DEF TypeOK
  <2> QED BY <2>2, <2>3
<1> QED BY <1>2, <1>3, <1>4, <1>5

-----------------------------------------------------------------------------
(* Every step keeps the invariant.                                         *)

\* At first nothing was read, tried or counted.
LEMMA AlertingInit == Init => AlertingInv
<1> SUFFICES ASSUME Init PROVE AlertingInv
  OBVIOUS
<1>1. \A t \in Topics : Topic[t] \in Seq(Requests) /\ Len(Topic[t]) \in Nat
  BY DEF Topics
<1>2. TypeOK
  BY <1>1 DEF Init, TypeOK, Never, NoRecord
<1>3. InHand /\ HandledIsAnswered
  BY DEF Init, InHand, HandledIsAnswered
<1>4. CooldownIsBacked /\ EmailsAge /\ EmailsSpaced /\ RowBeforeEmail /\ EmailedIsRecorded
  BY DEF Init, CooldownIsBacked, EmailsAge, EmailsSpaced, RowBeforeEmail, EmailedIsRecorded,
         EmailPending
<1>5. Counted
  BY DEF Init, Counted, Topics, Counters
<1> QED BY <1>2, <1>3, <1>4, <1>5 DEF AlertingInv

\* The three ways of the handler with the next record of a topic.
LEMMA HandleCases ==
  ASSUME AlertingInv, NEW t \in Topics, Handle(t), NEW rec, rec = <<t, pos[t] + 1>>
  PROVE  /\ rec \in Records /\ rec # NoRecord /\ KeyOf(rec) \in Keys
         /\ pc = "idle" /\ pos' = [pos EXCEPT ![t] = @ + 1]
         /\ pos[t] + 1 \in 1..Len(Topic[t])
         /\ UNCHANGED <<now, committed, start, history, table, attempts, inbox, lostRows, run,
                        faults>>
         /\ \/ BelowThreshold(rec) /\ UNCHANGED <<pc, cur, last, suppressed>>
            \/ /\ ~BelowThreshold(rec) /\ now - last[KeyOf(rec)] < Cooldown
               /\ suppressed' = suppressed \cup {[rec |-> rec, at |-> now]}
               /\ UNCHANGED <<pc, cur, last>>
            \/ /\ ~BelowThreshold(rec) /\ now - last[KeyOf(rec)] >= Cooldown
               /\ last' = [last EXCEPT ![KeyOf(rec)] = now]
               /\ pc' = "record" /\ cur' = rec /\ suppressed' = suppressed
<1>1. pos[t] < Len(Topic[t]) /\ pos[t] \in Nat
  BY TypeFacts DEF Handle, AlertingInv
<1>2. Topic[t] \in Seq(Requests) /\ Len(Topic[t]) \in Nat
  BY DEF Topics
<1>3. pos[t] + 1 \in 1..Len(Topic[t])
  BY <1>1, <1>2
<1>4. rec \in Records /\ rec # NoRecord /\ KeyOf(rec) \in Keys
  BY <1>3, PositionIsRecord, RecordKey
<1> QED BY <1>3, <1>4 DEF Handle, Refused, Allowed

\* What the handler counts when it handles a record.
LEMMA HandleCounts ==
  ASSUME AlertingInv, NEW t \in Topics, Handle(t)
  PROVE  counter' \in [Counters -> Nat] /\ Counted'
<1>1. counter \in [Counters -> Nat] /\ pc = "idle" /\ Counted
      /\ pos["alert"] \in Nat /\ start["alert"] \in Nat /\ pos["anomaly"] \in Nat
  BY TypeFacts DEF AlertingInv, Handle, Topics
<1>2. /\ pos["alert"] + (IF t = "alert" THEN 1 ELSE 0) = pos'["alert"]
      /\ start'["alert"] = start["alert"]
  BY DEF Handle, AlertingInv, InHand, Topics
<1>3. PICK names \in SUBSET Counters :
        /\ Incr(names)
        /\ "alerts" \notin names /\ "emails_sent" \notin names /\ "emails_failed" \notin names
        /\ \/ /\ names = IF t = "alert" THEN {"alerts_below_threshold"} ELSE {}
              /\ pc' = pc
           \/ /\ names = (IF t = "anomaly" THEN {"anomalies_flagged"} ELSE {})
                           \cup {"alerts_suppressed"}
              /\ pc' = pc
           \/ /\ names = IF t = "anomaly" THEN {"anomalies_flagged"} ELSE {}
              /\ pc' = "record"
  BY DEF Handle, Counters
<1>4. /\ counter' \in [Counters -> Nat]
      /\ \A n \in Counters : counter'[n] = counter[n] + (IF n \in names THEN 1 ELSE 0)
  BY <1>1, <1>3 DEF Incr
<1>5. /\ counter'["alerts"] = counter["alerts"]
      /\ counter'["emails_sent"] = counter["emails_sent"]
      /\ counter'["emails_failed"] = counter["emails_failed"]
      /\ counter'["alerts_suppressed"] = counter["alerts_suppressed"]
                                         + (IF "alerts_suppressed" \in names THEN 1 ELSE 0)
      /\ counter'["alerts_below_threshold"] = counter["alerts_below_threshold"]
                                         + (IF "alerts_below_threshold" \in names THEN 1 ELSE 0)
      /\ counter'["anomalies_flagged"] = counter["anomalies_flagged"]
                                         + (IF "anomalies_flagged" \in names THEN 1 ELSE 0)
      /\ \A n \in Counters : counter[n] \in Nat
  BY <1>1, <1>3, <1>4 DEF Counters
<1>6. \A n \in {"alerts", "alerts_suppressed", "alerts_below_threshold", "anomalies_flagged",
                "emails_sent", "emails_failed"} : counter[n] \in Nat
  BY <1>5 DEF Counters
<1>7. t = "alert" \/ t = "anomaly"
  BY DEF Topics
<1>8. \/ pc' = "idle" /\ ("alerts_below_threshold" \in names <=> t = "alert")
         /\ "anomalies_flagged" \notin names /\ "alerts_suppressed" \notin names
      \/ pc' = "idle" /\ "alerts_below_threshold" \notin names
         /\ ("anomalies_flagged" \in names <=> t = "anomaly") /\ "alerts_suppressed" \in names
      \/ pc' = "record" /\ "alerts_below_threshold" \notin names
         /\ ("anomalies_flagged" \in names <=> t = "anomaly") /\ "alerts_suppressed" \notin names
  BY <1>1, <1>3, <1>7
<1>9. Counted'
  <2>0. PICK d \in Nat : d = IF t = "alert" THEN 1 ELSE 0
    OBVIOUS
  <2>1. /\ counter["alerts"] + counter["alerts_suppressed"] + counter["alerts_below_threshold"]
             = pos["alert"] - start["alert"] + counter["anomalies_flagged"]
    BY <1>1, <1>6 DEF Counted
  <2>a. counter["alerts"] = counter["emails_sent"] + counter["emails_failed"]
    BY <1>1, <1>6 DEF Counted
  <2>2. /\ pos'["alert"] = pos["alert"] + d
        /\ start'["alert"] = start["alert"]
    BY <1>2, <2>0
  <2>6. /\ counter'["alerts"] = counter["alerts"]
        /\ counter'["emails_sent"] = counter["emails_sent"]
        /\ counter'["emails_failed"] = counter["emails_failed"]
    BY <1>5
  <2>7. /\ counter["alerts"] \in Nat /\ counter["alerts_suppressed"] \in Nat
        /\ counter["alerts_below_threshold"] \in Nat /\ counter["anomalies_flagged"] \in Nat
        /\ pos["alert"] \in Nat /\ start["alert"] \in Nat
    BY <1>1, <1>6
  <2>8. counter["emails_sent"] \in Nat /\ counter["emails_failed"] \in Nat
    BY <1>6
  <2>3. CASE /\ pc' = "idle" /\ ("alerts_below_threshold" \in names <=> t = "alert")
             /\ "anomalies_flagged" \notin names /\ "alerts_suppressed" \notin names
    <3>1. /\ counter'["alerts_below_threshold"] =
               counter["alerts_below_threshold"] + d
          /\ counter'["anomalies_flagged"] = counter["anomalies_flagged"]
          /\ counter'["alerts_suppressed"] = counter["alerts_suppressed"]
      BY <1>5, <1>6, <2>0, <2>3
    <3>2. counter'["alerts"] + counter'["alerts_suppressed"]
            + counter'["alerts_below_threshold"] + 0
            = pos'["alert"] - start'["alert"] + counter'["anomalies_flagged"]
      <4>1. counter["alerts"] + counter["alerts_suppressed"]
              + (counter["alerts_below_threshold"] + d) + 0
              = (pos["alert"] + d) - start["alert"] + counter["anomalies_flagged"]
        <5> HIDE AlertingAssumption
        <5> QED BY <2>1, <2>7
      <4> QED BY <2>2, <2>6, <3>1, <4>1, Zenon
    <3>3. counter'["alerts"] = counter'["emails_sent"] + counter'["emails_failed"] + 0
      BY <2>6, <2>8, <2>a
    <3> QED BY <2>3, <3>2, <3>3 DEF Counted
  <2>4. CASE /\ pc' = "idle" /\ "alerts_below_threshold" \notin names
             /\ ("anomalies_flagged" \in names <=> t = "anomaly")
             /\ "alerts_suppressed" \in names
    <3>1. /\ counter'["alerts_below_threshold"] = counter["alerts_below_threshold"]
          /\ counter'["anomalies_flagged"] =
               counter["anomalies_flagged"] + (1 - d)
          /\ counter'["alerts_suppressed"] = counter["alerts_suppressed"] + 1
      BY <1>5, <1>6, <1>7, <2>0, <2>4
    <3>2. counter'["alerts"] + counter'["alerts_suppressed"]
            + counter'["alerts_below_threshold"] + 0
            = pos'["alert"] - start'["alert"] + counter'["anomalies_flagged"]
      <4>1. counter["alerts"] + (counter["alerts_suppressed"] + 1)
              + counter["alerts_below_threshold"] + 0
              = (pos["alert"] + d) - start["alert"] + (counter["anomalies_flagged"] + (1 - d))
        <5> HIDE AlertingAssumption
        <5>1. counter["alerts"] + (counter["alerts_suppressed"] + 1)
                + counter["alerts_below_threshold"] + 0
                = (counter["alerts"] + counter["alerts_suppressed"]
                     + counter["alerts_below_threshold"]) + 1
          BY <2>7
        <5>2. (pos["alert"] + d) - start["alert"] + (counter["anomalies_flagged"] + (1 - d))
                = (pos["alert"] - start["alert"] + counter["anomalies_flagged"]) + 1
          BY <2>7
        <5> QED BY <2>1, <5>1, <5>2, Zenon
      <4> QED BY <2>2, <2>6, <3>1, <4>1, Zenon
    <3>3. counter'["alerts"] = counter'["emails_sent"] + counter'["emails_failed"] + 0
      BY <2>6, <2>8, <2>a
    <3> QED BY <2>4, <3>2, <3>3 DEF Counted
  <2>5. CASE /\ pc' = "record" /\ "alerts_below_threshold" \notin names
             /\ ("anomalies_flagged" \in names <=> t = "anomaly")
             /\ "alerts_suppressed" \notin names
    <3>1. /\ counter'["alerts_below_threshold"] = counter["alerts_below_threshold"]
          /\ counter'["anomalies_flagged"] =
               counter["anomalies_flagged"] + (1 - d)
          /\ counter'["alerts_suppressed"] = counter["alerts_suppressed"]
      BY <1>5, <1>6, <1>7, <2>0, <2>5
    <3>2. counter'["alerts"] + counter'["alerts_suppressed"]
            + counter'["alerts_below_threshold"] + 1
            = pos'["alert"] - start'["alert"] + counter'["anomalies_flagged"]
      <4>1. counter["alerts"] + counter["alerts_suppressed"]
              + counter["alerts_below_threshold"] + 1
              = (pos["alert"] + d) - start["alert"] + (counter["anomalies_flagged"] + (1 - d))
        <5> HIDE AlertingAssumption
        <5> QED BY <2>1, <2>7
      <4> QED BY <2>2, <2>6, <3>1, <4>1, Zenon
    <3>3. counter'["alerts"] = counter'["emails_sent"] + counter'["emails_failed"] + 0
      BY <2>6, <2>8, <2>a
    <3> QED BY <2>5, <3>2, <3>3 DEF Counted
  <2> QED BY <1>8, <2>3, <2>4, <2>5
<1> QED BY <1>4, <1>9

\* The state after a record was handled has its types.
LEMMA HandleTypes ==
  ASSUME AlertingInv, NEW t \in Topics, Handle(t)
  PROVE  TypeOK' /\ InHand'
<1> DEFINE rec == <<t, pos[t] + 1>>
<1> TypeOK /\ InHand
  BY DEF AlertingInv
<1>1. /\ rec \in Records /\ rec # NoRecord /\ KeyOf(rec) \in Keys
      /\ pc = "idle" /\ pos' = [pos EXCEPT ![t] = @ + 1] /\ pos[t] + 1 \in 1..Len(Topic[t])
      /\ UNCHANGED <<now, committed, start, history, table, attempts, inbox, lostRows, run,
                     faults>>
      /\ \/ UNCHANGED <<pc, cur, last, suppressed>>
         \/ /\ suppressed' = suppressed \cup {[rec |-> rec, at |-> now]}
            /\ UNCHANGED <<pc, cur, last>>
         \/ /\ last' = [last EXCEPT ![KeyOf(rec)] = now]
            /\ pc' = "record" /\ cur' = rec /\ suppressed' = suppressed
  BY HandleCases
<1> HIDE DEF rec
<1>2. pos \in [Topics -> Nat] /\ committed \in [Topics -> Nat]
  BY DEF InHand
<1>3. /\ pos'[t] = pos[t] + 1 /\ pos' \in [Topics -> Nat]
      /\ \A u \in Topics \ {t} : pos'[u] = pos[u]
  BY <1>1, <1>2
<1>4. ASSUME NEW u \in Topics
      PROVE  /\ start'[u] \in 0..committed'[u] /\ committed'[u] \in 0..pos'[u]
             /\ pos'[u] \in 0..Len(Topic[u])
  <2>1. /\ start[u] \in 0..committed[u] /\ committed[u] \in 0..pos[u]
        /\ pos[u] \in 0..Len(Topic[u])
    BY DEF TypeOK
  <2>2. CASE u = t
    BY <1>1, <1>2, <1>3, <2>1, <2>2
  <2>3. CASE u # t
    BY <1>1, <1>3, <2>1, <2>3
  <2> QED BY <2>2, <2>3
<1>5. /\ pc' \in {"idle", "record", "email", "webhook"}
      /\ cur' \in Records \cup {NoRecord} /\ (pc' = "idle" <=> cur' = NoRecord)
  BY <1>1 DEF TypeOK
<1>6. now \in 0..MaxTime /\ now \in Never..MaxTime
  BY DEF TypeOK, Never
<1>7. last' \in [Keys -> Never..MaxTime]
  BY <1>1, <1>6 DEF TypeOK
<1>8. suppressed' \subseteq [rec : Records, at : 0..MaxTime]
  <2>1. [rec |-> rec, at |-> now] \in [rec : Records, at : 0..MaxTime]
    BY <1>1, <1>6
  <2> QED BY <1>1, <2>1 DEF TypeOK
<1>9. TypeOK'
  BY <1>1, <1>4, <1>5, <1>7, <1>8, HandleCounts DEF TypeOK
<1>10. InHand'
  <2>1. committed[t] < pos'[t]
    BY <1>3, TypeFacts
  <2> QED BY <1>1, <1>2, <1>3, <2>1 DEF InHand, rec
<1> QED BY <1>9, <1>10

\* After a record was handled: it is answered, or in hand with its email pending, and then
\* the cooldown of its key starts now, a whole cooldown after its last email.
LEMMA HandleStep ==
  ASSUME AlertingInv, NEW t \in Topics, Handle(t)
  PROVE  AlertingInv'
<1>0. PICK rec : rec = <<t, pos[t] + 1>>
  OBVIOUS
<1> /\ TypeOK /\ InHand /\ HandledIsAnswered /\ CooldownIsBacked /\ EmailsAge /\ EmailsSpaced
    /\ RowBeforeEmail /\ EmailedIsRecorded
  BY DEF AlertingInv
<1>1. /\ rec \in Records /\ rec # NoRecord /\ KeyOf(rec) \in Keys
      /\ pc = "idle" /\ pos' = [pos EXCEPT ![t] = @ + 1] /\ pos[t] + 1 \in 1..Len(Topic[t])
      /\ UNCHANGED <<now, committed, start, history, table, attempts, inbox, lostRows, run,
                     faults>>
      /\ \/ BelowThreshold(rec) /\ UNCHANGED <<pc, cur, last, suppressed>>
         \/ /\ ~BelowThreshold(rec) /\ now - last[KeyOf(rec)] < Cooldown
            /\ suppressed' = suppressed \cup {[rec |-> rec, at |-> now]}
            /\ UNCHANGED <<pc, cur, last>>
         \/ /\ ~BelowThreshold(rec) /\ now - last[KeyOf(rec)] >= Cooldown
            /\ last' = [last EXCEPT ![KeyOf(rec)] = now]
            /\ pc' = "record" /\ cur' = rec /\ suppressed' = suppressed
  BY <1>0, HandleCases
<1>2. /\ now \in Nat /\ last \in [Keys -> Int]
      /\ \A a \in attempts : a.rec \in Records /\ a.at \in Nat /\ a.run \in Nat
      /\ \A a \in attempts : KeyOf(a.rec) \in Keys
  BY TypeFacts, RecordKey
<1>3. ~EmailPending
  BY <1>1 DEF EmailPending
<1>4. suppressed \subseteq suppressed'
  BY <1>1
<1>5. HandledIsAnswered'
  <2>1. /\ pos \in [Topics -> Nat] /\ pos'[t] = pos[t] + 1
        /\ \A u \in Topics \ {t} : pos'[u] = pos[u]
    BY <1>1 DEF InHand
  <2>2. ASSUME NEW r, Answered(r) PROVE Answered(r)'
    BY <1>1, <1>4, <2>2 DEF Answered
  <2>3. ASSUME NEW u \in Topics, NEW o \in 1..pos[u] PROVE Answered(<<u, o>>)'
    BY <1>3, <2>2 DEF HandledIsAnswered
  <2>4. (EmailPending' /\ cur' = rec) \/ Answered(rec)'
    <3>1. CASE BelowThreshold(rec)
      BY <3>1 DEF Answered
    <3>2. CASE /\ now - last[KeyOf(rec)] < Cooldown
               /\ suppressed' = suppressed \cup {[rec |-> rec, at |-> now]}
      <4> DEFINE s == [rec |-> rec, at |-> now]
      <4>1. last[KeyOf(rec)] # Never /\ last[KeyOf(rec)] \in 0..now
        <5>1. last[KeyOf(rec)] = Never \/ last[KeyOf(rec)] \in 0..now
          BY <1>1 DEF CooldownIsBacked
        <5>2. last[KeyOf(rec)] # Never
          BY <1>2, <3>2 DEF Never
        <5> QED BY <5>1, <5>2
      <4>2. PICK a \in attempts : KeyOf(a.rec) = KeyOf(rec) /\ a.at = last[KeyOf(rec)]
        BY <1>1, <1>3, <4>1 DEF CooldownIsBacked
      <4>3. a \in attempts' /\ s \in suppressed' /\ s.rec = rec /\ s.at = now
        BY <1>1, <3>2
      <4>4. a.at <= s.at /\ s.at < a.at + Cooldown
        BY <1>2, <3>2, <4>1, <4>2
      <4>5. \E s1 \in suppressed' : s1.rec = rec /\ a.at <= s1.at /\ s1.at < a.at + Cooldown
        BY <4>3, <4>4
      <4> QED BY <4>2, <4>3, <4>5 DEF Answered
    <3>3. CASE pc' = "record" /\ cur' = rec
      BY <3>3 DEF EmailPending
    <3> QED BY <1>1, <3>1, <3>2, <3>3
  <2>5. \A u \in Topics : \A o \in 1..pos'[u] : o \in 1..pos[u] \/ (u = t /\ o = pos[t] + 1)
    BY <2>1
  <2>6. ASSUME NEW u \in Topics, NEW o \in 1..pos'[u]
        PROVE  (EmailPending' /\ cur' = <<u, o>>) \/ Answered(<<u, o>>)'
    <3>1. CASE o \in 1..pos[u]
      BY <2>3, <3>1
    <3>2. CASE u = t /\ o = pos[t] + 1
      <4>1. <<u, o>> = rec
        BY <1>0, <3>2
      <4> QED BY <2>4, <4>1
    <3> QED BY <2>5, <3>1, <3>2
  <2> QED BY <2>6 DEF HandledIsAnswered
<1>6. CASE UNCHANGED <<pc, cur, last>>
  <2>1. CooldownIsBacked' /\ EmailsAge' /\ EmailsSpaced' /\ RowBeforeEmail' /\ EmailedIsRecorded'
    BY <1>1, <1>6 DEF CooldownIsBacked, EmailsAge, EmailsSpaced, RowBeforeEmail,
                      EmailedIsRecorded, EmailPending
  <2> QED BY <1>5, <2>1, HandleTypes, HandleCounts DEF AlertingInv
<1>7. CASE /\ now - last[KeyOf(rec)] >= Cooldown
           /\ last' = [last EXCEPT ![KeyOf(rec)] = now]
           /\ pc' = "record" /\ cur' = rec /\ suppressed' = suppressed
  <2>1. /\ last'[KeyOf(rec)] = now /\ \A k \in Keys : k # KeyOf(rec) => last'[k] = last[k]
        /\ EmailPending' /\ KeyOf(cur') = KeyOf(rec) /\ Never # now
    BY <1>1, <1>2, <1>7 DEF EmailPending, Never
  <2>2. CooldownIsBacked'
    <3> SUFFICES ASSUME NEW k \in Keys
                 PROVE  /\ last'[k] = Never \/ last'[k] \in 0..now
                        /\ KeyOf(cur') = k => last'[k] # Never
                        /\ last'[k] # Never =>
                             \/ KeyOf(cur') = k
                             \/ \E a \in attempts : KeyOf(a.rec) = k /\ a.at = last'[k]
      BY <1>1, <2>1 DEF CooldownIsBacked
    <3>1. CASE k = KeyOf(rec)
      BY <1>2, <2>1, <3>1
    <3>2. CASE k # KeyOf(rec)
      <4>1. last'[k] = last[k]
        BY <2>1, <3>2
      <4> QED BY <1>3, <2>1, <3>2, <4>1 DEF CooldownIsBacked
    <3> QED BY <3>1, <3>2
  <2>3. EmailsAge'
    <3> SUFFICES ASSUME NEW a \in attempts
                 PROVE  /\ a.run <= run
                        /\ a.run = run =>
                             /\ a.at <= last'[KeyOf(a.rec)]
                             /\ KeyOf(a.rec) = KeyOf(rec) => a.at + Cooldown <= now
      BY <1>1, <2>1 DEF EmailsAge
    <3>1. a.run <= run /\ (a.run = run => a.at <= last[KeyOf(a.rec)])
      BY DEF EmailsAge
    <3>2. CASE KeyOf(a.rec) = KeyOf(rec)
      <4>1. /\ last[KeyOf(rec)] \in Int /\ a.at \in Nat /\ last[KeyOf(rec)] + Cooldown <= now
            /\ now \in Nat
        BY <1>1, <1>2, <1>7
      <4>2. a.run = run => a.at <= last[KeyOf(rec)]
        BY <3>1, <3>2
      <4> QED BY <2>1, <3>1, <3>2, <4>1, <4>2
    <3>3. CASE KeyOf(a.rec) # KeyOf(rec)
      BY <1>2, <2>1, <3>1, <3>3
    <3> QED BY <3>2, <3>3
  <2>4. EmailsSpaced' /\ RowBeforeEmail' /\ EmailedIsRecorded'
    BY <1>1, <1>7 DEF EmailsSpaced, RowBeforeEmail, EmailedIsRecorded
  <2> QED BY <1>5, <2>2, <2>3, <2>4, HandleTypes, HandleCounts DEF AlertingInv
<1> QED BY <1>1, <1>6, <1>7

\* An answer stays an answer.
LEMMA AnsweredStays ==
  ASSUME NEW rec, Answered(rec), attempts \subseteq attempts', suppressed \subseteq suppressed'
  PROVE  Answered(rec)'
<1>1. CASE BelowThreshold(rec)
  BY <1>1 DEF Answered
<1>2. ASSUME NEW a \in attempts,
             \/ a.rec = rec
             \/ /\ KeyOf(a.rec) = KeyOf(rec)
                /\ \E s \in suppressed : s.rec = rec /\ a.at <= s.at /\ s.at < a.at + Cooldown
      PROVE  Answered(rec)'
  BY <1>2 DEF Answered
<1> QED BY <1>1, <1>2 DEF Answered

\* The counters named go up by one, the others stay.
LEMMA IncrFacts ==
  ASSUME NEW names, Incr(names), counter \in [Counters -> Nat]
  PROVE  /\ counter' \in [Counters -> Nat]
         /\ \A n \in Counters : counter[n] \in Nat
         /\ \A n \in Counters : n \in names => counter'[n] = counter[n] + 1
         /\ \A n \in Counters : n \notin names => counter'[n] = counter[n]
  BY DEF Incr

\* The deque keeps at most HistoryCap records.
LEMMA NewestFacts ==
  ASSUME NEW s \in Seq(Records)
  PROVE  Newest(s) \in Seq(Records) /\ Len(Newest(s)) <= HistoryCap
<1>1. Len(s) \in Nat /\ HistoryCap \in Nat \ {0}
  OBVIOUS
<1>2. CASE Len(s) > HistoryCap
  <2>1. Newest(s) = SubSeq(s, Len(s) - HistoryCap + 1, Len(s))
    BY <1>2 DEF Newest
  <2> QED BY <1>1, <1>2, <2>1
<1>3. CASE ~(Len(s) > HistoryCap)
  <2>1. Newest(s) = SubSeq(s, 1, Len(s))
    BY <1>3 DEF Newest
  <2> QED BY <1>1, <1>3, <2>1
<1> QED BY <1>2, <1>3

\* The record in hand goes into the history, and its row into the table, or is lost.
LEMMA RecordStep ==
  ASSUME AlertingInv, Record
  PROVE  AlertingInv'
<1> /\ TypeOK /\ InHand /\ HandledIsAnswered /\ CooldownIsBacked /\ EmailsAge /\ EmailsSpaced
    /\ RowBeforeEmail /\ EmailedIsRecorded /\ Counted
  BY DEF AlertingInv
<1>1. /\ pc = "record" /\ pc' = "email" /\ Incr({"alerts"})
      /\ history' = Newest(Append(history, cur))
      /\ UNCHANGED <<now, pos, committed, start, cur, last, attempts, inbox, suppressed, run>>
      /\ \/ table' = table \cup {cur} /\ UNCHANGED <<lostRows, faults>>
         \/ /\ faults < MaxFaults /\ faults' = faults + 1
            /\ lostRows' = lostRows \cup {cur} /\ UNCHANGED table
  BY DEF Record, Fault
<1>2. /\ cur \in Records /\ cur # NoRecord /\ counter \in [Counters -> Nat]
      /\ faults \in Nat /\ faults \in 0..MaxFaults
  BY <1>1, TypeFacts DEF TypeOK
<1>3. TypeOK'
  <2>1. history' \in Seq(Records) /\ Len(history') <= HistoryCap
    <3>1. Append(history, cur) \in Seq(Records)
      BY <1>2 DEF TypeOK
    <3> QED BY <1>1, <3>1, NewestFacts
  <2>2. faults' \in 0..MaxFaults
    BY <1>1, <1>2
  <2>3. table' \subseteq Records /\ lostRows' \subseteq Records
    BY <1>1, <1>2 DEF TypeOK
  <2>4. counter' \in [Counters -> Nat]
    BY <1>1, <1>2, IncrFacts
  <2>5. \A t \in Topics : /\ start'[t] \in 0..committed'[t] /\ committed'[t] \in 0..pos'[t]
                          /\ pos'[t] \in 0..Len(Topic[t])
    BY <1>1 DEF TypeOK
  <2> QED BY <1>1, <1>2, <2>1, <2>2, <2>3, <2>4, <2>5 DEF TypeOK
<1>4. InHand'
  <2>1. run' <= faults'
    BY <1>1, <1>2, TypeFacts DEF InHand
  <2> QED BY <1>1, <2>1 DEF InHand
<1>5. EmailPending /\ EmailPending'
  BY <1>1 DEF EmailPending
<1>6. HandledIsAnswered'
  BY <1>1, <1>5, AnsweredStays DEF HandledIsAnswered
<1>7. CooldownIsBacked' /\ EmailsAge' /\ EmailsSpaced'
  BY <1>1, <1>5 DEF CooldownIsBacked, EmailsAge, EmailsSpaced
<1>8. RowBeforeEmail' /\ EmailedIsRecorded'
  BY <1>1 DEF RowBeforeEmail, EmailedIsRecorded
<1>9. Counted'
  <2>1. /\ counter'["alerts"] = counter["alerts"] + 1
        /\ \A n \in Counters \ {"alerts"} : counter'[n] = counter[n]
        /\ \A n \in Counters : counter[n] \in Nat
    BY <1>1, <1>2, IncrFacts DEF Counters
  <2>2. /\ counter'["alerts_suppressed"] = counter["alerts_suppressed"]
        /\ counter'["alerts_below_threshold"] = counter["alerts_below_threshold"]
        /\ counter'["anomalies_flagged"] = counter["anomalies_flagged"]
        /\ counter'["emails_sent"] = counter["emails_sent"]
        /\ counter'["emails_failed"] = counter["emails_failed"]
    BY <2>1 DEF Counters
  <2>3. /\ counter["alerts"] \in Nat /\ counter["alerts_suppressed"] \in Nat
        /\ counter["alerts_below_threshold"] \in Nat /\ counter["anomalies_flagged"] \in Nat
        /\ counter["emails_sent"] \in Nat /\ counter["emails_failed"] \in Nat
        /\ pos["alert"] \in Nat /\ start["alert"] \in Nat
    BY <2>1, TypeFacts DEF Counters, Topics
  <2>4. /\ counter["alerts"] + counter["alerts_suppressed"]
             + counter["alerts_below_threshold"] + 1
             = pos["alert"] - start["alert"] + counter["anomalies_flagged"]
        /\ counter["alerts"] = counter["emails_sent"] + counter["emails_failed"] + 0
    BY <1>1 DEF Counted
  <2>5. (counter["alerts"] + 1) + counter["alerts_suppressed"]
          + counter["alerts_below_threshold"] + 0
          = counter["alerts"] + counter["alerts_suppressed"]
              + counter["alerts_below_threshold"] + 1
    <3> HIDE AlertingAssumption
    <3> QED BY <2>3
  <2>6. counter["alerts"] + 1 = counter["emails_sent"] + counter["emails_failed"] + 1
    <3> HIDE AlertingAssumption
    <3> QED BY <2>3, <2>4
  <2> QED BY <1>1, <2>1, <2>2, <2>4, <2>5, <2>6 DEF Counted
<1> QED BY <1>3, <1>4, <1>6, <1>7, <1>8, <1>9 DEF AlertingInv

\* The email of the record in hand is tried: it is the one the cooldown of its key counts.
LEMMA EmailStep ==
  ASSUME AlertingInv, Email
  PROVE  AlertingInv'
<1> /\ TypeOK /\ InHand /\ HandledIsAnswered /\ CooldownIsBacked /\ EmailsAge /\ EmailsSpaced
    /\ RowBeforeEmail /\ EmailedIsRecorded /\ Counted
  BY DEF AlertingInv
<1>0. PICK mail : mail = [rec |-> cur, at |-> last[KeyOf(cur)], run |-> run]
  OBVIOUS
<1>1. /\ pc = "email" /\ pc' = "webhook"
      /\ attempts' = attempts \cup {mail}
      /\ inbox' = inbox \/ inbox' = inbox \cup {[rec |-> cur, run |-> run]}
      /\ UNCHANGED <<now, pos, committed, start, cur, last, history, table, suppressed,
                     lostRows, run>>
      /\ \/ Incr({"emails_sent"}) /\ UNCHANGED faults
         \/ Incr({"emails_failed"}) /\ faults < MaxFaults /\ faults' = faults + 1
  BY <1>0 DEF Email, Fault, Mail
<1>2. /\ cur \in Records /\ cur # NoRecord /\ counter \in [Counters -> Nat]
      /\ faults \in Nat /\ faults \in 0..MaxFaults /\ now \in Nat /\ now \in 0..MaxTime
      /\ KeyOf(cur) \in Keys /\ run \in Nat /\ run \in 0..MaxFaults
      /\ \A a \in attempts : KeyOf(a.rec) \in Keys /\ a.at \in Nat
      /\ last \in [Keys -> Int]
  BY <1>1, TypeFacts, RecordKey DEF TypeOK
<1>3. EmailPending /\ ~EmailPending'
  BY <1>1 DEF EmailPending
<1>4. last[KeyOf(cur)] \in 0..now
  BY <1>2, <1>3 DEF CooldownIsBacked
<1>5. mail.rec = cur /\ mail.at = last[KeyOf(cur)] /\ mail.run = run
  BY <1>0
<1>6. TypeOK'
  <2>1. last[KeyOf(cur)] \in 0..MaxTime
    BY <1>2, <1>4
  <2>2. mail \in [rec : Records, at : 0..MaxTime, run : 0..MaxFaults]
    BY <1>0, <1>2, <2>1
  <2>3. [rec |-> cur, run |-> run] \in [rec : Records, run : 0..MaxFaults]
    BY <1>2
  <2>4. attempts' \subseteq [rec : Records, at : 0..MaxTime, run : 0..MaxFaults]
    BY <1>1, <2>2 DEF TypeOK
  <2>5. inbox' \subseteq [rec : Records, run : 0..MaxFaults]
    BY <1>1, <2>3 DEF TypeOK
  <2>6. faults' \in 0..MaxFaults
    BY <1>1, <1>2
  <2>7. counter' \in [Counters -> Nat]
    BY <1>1, <1>2, IncrFacts
  <2>8. \A t \in Topics : /\ start'[t] \in 0..committed'[t] /\ committed'[t] \in 0..pos'[t]
                          /\ pos'[t] \in 0..Len(Topic[t])
    BY <1>1 DEF TypeOK
  <2> QED BY <1>1, <1>2, <2>4, <2>5, <2>6, <2>7, <2>8 DEF TypeOK
<1>7. InHand'
  <2>1. run' <= faults'
    BY <1>1, <1>2, TypeFacts DEF InHand
  <2> QED BY <1>1, <2>1 DEF InHand
<1>8. HandledIsAnswered'
  <2> SUFFICES ASSUME NEW t \in Topics, NEW o \in 1..pos[t] PROVE Answered(<<t, o>>)'
    BY <1>1 DEF HandledIsAnswered
  <2>1. CASE cur = <<t, o>>
    <3>1. mail \in attempts' /\ mail.rec = <<t, o>>
      BY <1>1, <1>5, <2>1
    <3> QED BY <3>1 DEF Answered
  <2>2. CASE cur # <<t, o>>
    BY <1>1, <2>2, AnsweredStays DEF HandledIsAnswered
  <2> QED BY <2>1, <2>2
<1>9. CooldownIsBacked'
  <2> SUFFICES ASSUME NEW k \in Keys
               PROVE  /\ last[k] = Never \/ last[k] \in 0..now
                      /\ last[k] # Never =>
                           \E a \in attempts' : KeyOf(a.rec) = k /\ a.at = last[k]
    BY <1>1, <1>3 DEF CooldownIsBacked
  <2>1. CASE KeyOf(cur) = k
    BY <1>1, <1>4, <1>5, <2>1
  <2>2. CASE KeyOf(cur) # k
    BY <1>1, <2>2 DEF CooldownIsBacked
  <2> QED BY <2>1, <2>2
<1>10. EmailsAge'
  <2> SUFFICES ASSUME NEW a \in attempts'
               PROVE  a.run <= run /\ (a.run = run => a.at <= last[KeyOf(a.rec)])
    BY <1>1, <1>3 DEF EmailsAge
  <2>1. CASE a = mail
    BY <1>2, <1>4, <1>5, <2>1
  <2>2. CASE a # mail
    BY <1>1, <2>2 DEF EmailsAge
  <2> QED BY <2>1, <2>2
<1>11. EmailsSpaced'
  <2>1. ASSUME NEW a \in attempts, KeyOf(a.rec) = KeyOf(cur), a.run = run
        PROVE  mail.at - a.at >= Cooldown
    <3>1. a.at + Cooldown <= last[KeyOf(cur)]
      BY <1>3, <2>1 DEF EmailsAge
    <3> QED BY <1>2, <1>5, <3>1
  <2> SUFFICES ASSUME NEW a \in attempts', NEW b \in attempts', a # b,
                      KeyOf(a.rec) = KeyOf(b.rec), a.run = b.run
               PROVE  a.at - b.at >= Cooldown \/ b.at - a.at >= Cooldown
    BY DEF EmailsSpaced
  <2>2. CASE a = mail
    BY <1>1, <1>5, <2>1, <2>2
  <2>3. CASE b = mail
    BY <1>1, <1>5, <2>1, <2>3
  <2>4. CASE a # mail /\ b # mail
    BY <1>1, <2>4 DEF EmailsSpaced
  <2> QED BY <2>2, <2>3, <2>4
<1>12. RowBeforeEmail' /\ EmailedIsRecorded'
  <2>1. cur \in table \cup lostRows
    BY <1>1 DEF RowBeforeEmail
  <2> QED BY <1>1, <2>1 DEF RowBeforeEmail, EmailedIsRecorded
<1>13. Counted'
  <2>1. PICK n \in {"emails_sent", "emails_failed"} : Incr({n})
    BY <1>1
  <2>2. /\ counter'[n] = counter[n] + 1
        /\ \A m \in Counters \ {n} : counter'[m] = counter[m]
        /\ \A m \in Counters : counter[m] \in Nat
    BY <1>2, <2>1, IncrFacts DEF Counters
  <2>3. /\ counter'["alerts"] = counter["alerts"]
        /\ counter'["alerts_suppressed"] = counter["alerts_suppressed"]
        /\ counter'["alerts_below_threshold"] = counter["alerts_below_threshold"]
        /\ counter'["anomalies_flagged"] = counter["anomalies_flagged"]
    BY <2>2 DEF Counters
  <2>4. /\ counter["alerts"] \in Nat
        /\ counter["emails_sent"] \in Nat /\ counter["emails_failed"] \in Nat
    BY <2>2 DEF Counters
  <2>5. /\ counter["alerts"] + counter["alerts_suppressed"]
             + counter["alerts_below_threshold"] + 0
             = pos["alert"] - start["alert"] + counter["anomalies_flagged"]
        /\ counter["alerts"] = counter["emails_sent"] + counter["emails_failed"] + 1
    BY <1>1 DEF Counted
  <2>6. counter["alerts"] = counter'["emails_sent"] + counter'["emails_failed"] + 0
    <3> HIDE AlertingAssumption
    <3>1. CASE n = "emails_sent"
      <4>1. /\ counter'["emails_sent"] = counter["emails_sent"] + 1
            /\ counter'["emails_failed"] = counter["emails_failed"]
        BY <2>2, <3>1 DEF Counters
      <4>2. counter["alerts"] = (counter["emails_sent"] + 1) + counter["emails_failed"] + 0
        BY <2>4, <2>5
      <4> QED BY <4>1, <4>2, Zenon
    <3>2. CASE n = "emails_failed"
      <4>1. /\ counter'["emails_failed"] = counter["emails_failed"] + 1
            /\ counter'["emails_sent"] = counter["emails_sent"]
        BY <2>2, <3>2 DEF Counters
      <4>2. counter["alerts"] = counter["emails_sent"] + (counter["emails_failed"] + 1) + 0
        BY <2>4, <2>5
      <4> QED BY <4>1, <4>2, Zenon
    <3> QED BY <3>1, <3>2
  <2> QED BY <1>1, <2>3, <2>5, <2>6 DEF Counted
<1> QED BY <1>6, <1>7, <1>8, <1>9, <1>10, <1>11, <1>12, <1>13 DEF AlertingInv

\* A crash forgets the cooldowns and begins a new incarnation where the last commit was.
LEMMA CrashStep ==
  ASSUME AlertingInv, Crash
  PROVE  AlertingInv'
<1> /\ TypeOK /\ InHand /\ HandledIsAnswered /\ CooldownIsBacked /\ EmailsAge /\ EmailsSpaced
    /\ RowBeforeEmail /\ EmailedIsRecorded
  BY DEF AlertingInv
<1>1. /\ faults < MaxFaults /\ faults' = faults + 1 /\ run' = run + 1
      /\ pc' = "idle" /\ cur' = NoRecord /\ pos' = committed /\ start' = committed
      /\ last' = [k \in Keys |-> Never] /\ history' = <<>>
      /\ counter' = [n \in Counters |-> 0]
      /\ UNCHANGED <<now, committed, table, attempts, suppressed, lostRows>>
      /\ \/ inbox' = inbox
         \/ pc = "email" /\ inbox' = inbox \cup {[rec |-> cur, run |-> run]}
  BY DEF Crash, Fault, Mail
<1>2. /\ faults \in 0..MaxFaults /\ run \in 0..MaxFaults /\ run <= faults
      /\ pc = "email" => cur \in Records /\ cur \in table \cup lostRows
      /\ now \in Nat
  BY TypeFacts DEF TypeOK, InHand, RowBeforeEmail
<1>3. ~EmailPending'
  BY <1>1 DEF EmailPending
<1>4. TypeOK'
  <2>1. faults' \in 0..MaxFaults /\ run' \in 0..MaxFaults
    BY <1>1, <1>2
  <2>2. \A t \in Topics : /\ start'[t] \in 0..committed'[t] /\ committed'[t] \in 0..pos'[t]
                          /\ pos'[t] \in 0..Len(Topic[t])
    <3> SUFFICES ASSUME NEW t \in Topics
                 PROVE  committed[t] \in 0..committed[t] /\ committed[t] \in 0..Len(Topic[t])
      BY <1>1
    <3>1. Topic[t] \in Seq(Requests)
      BY DEF Topics
    <3>2. Len(Topic[t]) \in Nat
      BY <3>1
    <3>3. /\ committed[t] \in Nat /\ pos[t] \in Nat /\ committed[t] <= pos[t]
          /\ pos[t] <= Len(Topic[t])
      BY TypeFacts
    <3> QED BY <3>2, <3>3
  <2>3. inbox' \subseteq [rec : Records, run : 0..MaxFaults]
    <3>1. pc = "email" => [rec |-> cur, run |-> run] \in [rec : Records, run : 0..MaxFaults]
      BY <1>2
    <3> QED BY <1>1, <3>1 DEF TypeOK
  <2>4. last' \in [Keys -> Never..MaxTime] /\ counter' \in [Counters -> Nat]
    BY <1>1 DEF Never
  <2>5. history' \in Seq(Records) /\ Len(history') <= HistoryCap
    BY <1>1
  <2> QED BY <1>1, <2>1, <2>2, <2>3, <2>4, <2>5 DEF TypeOK
<1>5. InHand'
  BY <1>1, <1>2 DEF InHand
<1>6. HandledIsAnswered'
  <2> SUFFICES ASSUME NEW t \in Topics, NEW o \in 1..committed[t] PROVE Answered(<<t, o>>)'
    BY <1>1 DEF HandledIsAnswered
  <2>1. o \in 1..pos[t] /\ o <= committed[t]
    BY TypeFacts
  <2>2. ASSUME EmailPending, cur = <<t, o>> PROVE FALSE
    <3>1. PICK u \in Topics : cur = <<u, pos[u]>> /\ committed[u] < pos[u]
      BY <2>2 DEF InHand, EmailPending
    <3>2. u = t /\ o = pos[t]
      BY <2>2, <3>1
    <3> QED BY <2>1, <3>1, <3>2, TypeFacts
  <2>3. Answered(<<t, o>>)
    BY <2>1, <2>2 DEF HandledIsAnswered
  <2> QED BY <1>1, <2>3, AnsweredStays
<1>7. CooldownIsBacked'
  BY <1>1, <1>3 DEF CooldownIsBacked
<1>8. EmailsAge' /\ EmailsSpaced'
  <2>1. \A a \in attempts : a.run <= run /\ a.run \in Nat /\ run \in Nat
    BY TypeFacts DEF EmailsAge
  <2>2. \A a \in attempts : a.run <= run' /\ a.run # run'
    BY <1>1, <2>1
  <2> QED BY <1>1, <2>2 DEF EmailsAge, EmailsSpaced
<1>9. RowBeforeEmail' /\ EmailedIsRecorded'
  BY <1>1, <1>2 DEF RowBeforeEmail, EmailedIsRecorded
<1>10. Counted'
  <2>1. committed["alert"] \in Nat
    BY TypeFacts DEF Topics
  <2> QED BY <1>1, <2>1 DEF Counted, Counters
<1> QED BY <1>4, <1>5, <1>6, <1>7, <1>8, <1>9, <1>10 DEF AlertingInv

\* The webhook, a commit and the clock disturb nothing: a handler over leaves its record
\* answered, and time only moves away from the emails.
LEMMA OtherStep ==
  ASSUME AlertingInv, Webhook \/ Commit \/ Tick \/ UNCHANGED vars
  PROVE  AlertingInv'
<1> /\ TypeOK /\ InHand /\ HandledIsAnswered /\ CooldownIsBacked /\ EmailsAge /\ EmailsSpaced
    /\ RowBeforeEmail /\ EmailedIsRecorded /\ Counted
  BY DEF AlertingInv
<1>1. /\ UNCHANGED <<pos, start, memory, table, attempts, inbox, suppressed, lostRows, run,
                     faults>>
      /\ \/ UNCHANGED <<pc, cur>>
         \/ pc = "webhook" /\ pc' = "idle" /\ cur' = NoRecord
      /\ \/ committed' = committed
         \/ committed' = pos /\ pc' = "idle"
      /\ \/ now' = now
         \/ now < MaxTime /\ now' = now + 1
  BY DEF Webhook, Commit, Tick, vars, memory
<1>2. now \in 0..MaxTime /\ now' \in 0..MaxTime /\ now <= now'
  BY <1>1 DEF TypeOK
<1>3. EmailPending' <=> EmailPending
  BY <1>1 DEF EmailPending
<1>4. EmailPending => cur' = cur
  BY <1>1 DEF EmailPending
<1>5. TypeOK'
  <2>1. ASSUME NEW t \in Topics
        PROVE  /\ start'[t] \in 0..committed'[t] /\ committed'[t] \in 0..pos'[t]
               /\ pos'[t] \in 0..Len(Topic[t])
    <3>1. /\ start[t] \in Nat /\ committed[t] \in Nat /\ pos[t] \in Nat
          /\ start[t] <= committed[t] /\ committed[t] <= pos[t]
      BY TypeFacts
    <3>2. pos[t] \in 0..Len(Topic[t])
      BY DEF TypeOK
    <3>3. pos' = pos /\ start' = start /\ (committed' = committed \/ committed' = pos)
      BY <1>1
    <3> QED BY <3>1, <3>2, <3>3
  <2>2. /\ pc' \in {"idle", "record", "email", "webhook"}
        /\ cur' \in Records \cup {NoRecord} /\ (pc' = "idle" <=> cur' = NoRecord)
    BY <1>1 DEF TypeOK
  <2> QED BY <1>1, <1>2, <2>1, <2>2 DEF TypeOK, memory
<1>6. InHand'
  BY <1>1 DEF InHand
<1>7. HandledIsAnswered'
  <2> SUFFICES ASSUME NEW t \in Topics, NEW o \in 1..pos[t],
                      ~(EmailPending /\ cur = <<t, o>>)
               PROVE  Answered(<<t, o>>)'
    BY <1>1, <1>3, <1>4 DEF HandledIsAnswered
  <2> QED BY <1>1, AnsweredStays DEF HandledIsAnswered
<1>8. CooldownIsBacked'
  <2> SUFFICES ASSUME NEW k \in Keys
               PROVE  /\ last[k] = Never \/ last[k] \in 0..now'
                      /\ EmailPending /\ KeyOf(cur) = k => last[k] # Never
                      /\ last[k] # Never =>
                           \/ EmailPending /\ KeyOf(cur) = k
                           \/ \E a \in attempts : KeyOf(a.rec) = k /\ a.at = last[k]
    BY <1>1, <1>3, <1>4 DEF CooldownIsBacked, memory
  <2>1. last[k] = Never \/ last[k] \in 0..now'
    BY <1>2 DEF CooldownIsBacked
  <2> QED BY <2>1 DEF CooldownIsBacked
<1>9. EmailsAge' /\ EmailsSpaced'
  BY <1>1, <1>3, <1>4 DEF EmailsAge, EmailsSpaced, memory
<1>10. RowBeforeEmail' /\ EmailedIsRecorded' /\ Counted'
  BY <1>1 DEF RowBeforeEmail, EmailedIsRecorded, Counted, memory
<1> QED BY <1>5, <1>6, <1>7, <1>8, <1>9, <1>10 DEF AlertingInv

\* Every step of the handler, a commit, a crash and the clock keep the invariant.
LEMMA AlertingStep == AlertingInv /\ [Next]_vars => AlertingInv'
  BY HandleStep, RecordStep, EmailStep, CrashStep, OtherStep DEF Next

-----------------------------------------------------------------------------
(* Theorems.                                                               *)

\* The inductive invariant of P4 holds.
THEOREM AlertingInvariant == Spec => []AlertingInv
  BY AlertingInit, AlertingStep, PTL DEF Spec

\* TypeOK is an invariant of P4.
THEOREM TypeCorrect == Spec => []TypeOK
<1>1. AlertingInv => TypeOK
  BY DEF AlertingInv
<1> QED BY <1>1, AlertingInvariant, PTL

\* No alert disappears: whatever step of the handler a crash, a failed INSERT or a failed
\* email hits, a committed record above its threshold had its email tried, or one for its
\* key was less than a cooldown old.
THEOREM NoAlertDisappears == Spec => []EveryAlertAnswered
<1>1. AlertingInv => EveryAlertAnswered
  <2> SUFFICES ASSUME AlertingInv, NEW t \in Topics, NEW o \in 1..committed[t]
               PROVE  Answered(<<t, o>>)
    BY DEF EveryAlertAnswered, Answered
  <2>1. TypeOK /\ InHand /\ HandledIsAnswered
    BY DEF AlertingInv
  <2>2. o \in 1..pos[t] /\ o <= committed[t]
    BY <2>1, TypeFacts
  <2>3. ASSUME EmailPending, cur = <<t, o>> PROVE FALSE
    <3>1. PICK u \in Topics : cur = <<u, pos[u]>> /\ committed[u] < pos[u]
      BY <2>1, <2>3 DEF InHand, EmailPending
    <3>2. u = t /\ o = pos[t]
      BY <2>3, <3>1
    <3> QED BY <2>1, <2>2, <3>1, <3>2, TypeFacts
  <2> QED BY <2>1, <2>2, <2>3 DEF HandledIsAnswered
<1> QED BY <1>1, AlertingInvariant, PTL

\* Two emails for one key, of one incarnation of P4, pass at least one cooldown apart,
\* whichever topic their records came from.
THEOREM EmailsAreSpaced == Spec => []EmailsSpaced
<1>1. AlertingInv => EmailsSpaced
  BY DEF AlertingInv
<1> QED BY <1>1, AlertingInvariant, PTL

\* The table, the counters and the emails agree: an email delivered has its row unless the
\* INSERT failed, and every record of the incarnation is in exactly one counter.
THEOREM TheBooksAgree == Spec => []BooksAgree
<1>1. AlertingInv => BooksAgree
  <2> SUFFICES ASSUME AlertingInv PROVE BooksAgree
    OBVIOUS
  <2>1. EveryAlertCounted
    <3> SUFFICES ASSUME pc = "idle"
                 PROVE  /\ counter["alerts"] + counter["alerts_suppressed"]
                             + counter["alerts_below_threshold"]
                             = pos["alert"] - start["alert"] + counter["anomalies_flagged"]
                        /\ counter["alerts"] = counter["emails_sent"] + counter["emails_failed"]
      BY DEF EveryAlertCounted
    <3>1. /\ counter["alerts"] + counter["alerts_suppressed"]
               + counter["alerts_below_threshold"] + 0
               = pos["alert"] - start["alert"] + counter["anomalies_flagged"]
          /\ counter["alerts"] = counter["emails_sent"] + counter["emails_failed"] + 0
      BY DEF AlertingInv, Counted
    <3>2. \A n \in Counters : counter[n] \in Nat
      BY TypeFacts DEF AlertingInv
    <3>3. /\ counter["alerts"] \in Nat /\ counter["alerts_suppressed"] \in Nat
          /\ counter["alerts_below_threshold"] \in Nat
          /\ counter["emails_sent"] \in Nat /\ counter["emails_failed"] \in Nat
      BY <3>2 DEF Counters
    <3>4. /\ counter["alerts"] + counter["alerts_suppressed"]
               + counter["alerts_below_threshold"] + 0
               = counter["alerts"] + counter["alerts_suppressed"]
                   + counter["alerts_below_threshold"]
          /\ counter["emails_sent"] + counter["emails_failed"] + 0
               = counter["emails_sent"] + counter["emails_failed"]
      <4> HIDE AlertingAssumption
      <4> QED BY <3>3
    <3> QED BY <3>1, <3>4
  <2> QED BY <2>1 DEF AlertingInv, BooksAgree
<1> QED BY <1>1, AlertingInvariant, PTL
=============================================================================
