-------------------------------- MODULE Ddos --------------------------------
(***************************************************************************)
(* The DDoS branch of the detector: a process in role REPARTITION copies   *)
(* log.enriched to log.enriched.by-domain, keyed by domain instead of      *)
(* client, and a process in role DDOS keeps a window for each domain and   *)
(* alerts when it holds enough requests of enough addresses.  Each role    *)
(* reads partitions of its own: the clients those of log.enriched, the     *)
(* domains those of the copy.  The bus is that of LogParsing.              *)
(***************************************************************************)
EXTENDS Integers, Sequences, FiniteSets, Functions, Subsequences

CONSTANTS Clients, Domains,
          DomainOf,     \* DomainOf[c]: the domain of client c
          NoTime,       \* a record without request_ts
          WindowSeconds, RequestThreshold, UniqueIpThreshold, Cooldown, MaxTrackedDomains,
          FutureSkew,   \* DetectorConfig.maxFutureSkewSeconds
          CleanupEvery, \* idle domains are removed once in so many requests: 1000
          MaxPoll, MaxFaults

VARIABLES
  clock,
  enriched,     \* log.enriched, read only
  byDomain,     \* byDomain[d]: partition d of log.enriched.by-domain: places in log.enriched
  pos,          \* pos[p]: records of partition p processed by its role
  posOk,        \* posOk[p]: records of partition p committed
  windows,      \* domains: a LinkedHashMap in access order, as the sequence of its windows
  processed,    \* events analysed since the last removal of idle domains
  alerts,       \* alert.triggered: <<d, i>>, raised by record i of d
  \* history
  seen,         \* seen[d]: records of d analysed since its window was created
  lost,         \* lost[d]: the records of d up to here are in no window any more: committed
                \* when DDOS last started, or analysed before the window was made anew
  dropped, faults

ddosVars == <<byDomain, pos, posOk, windows, processed, alerts, seen, lost, dropped, faults>>

Partitions == Clients \cup Domains
Never == -1     \* Long.MIN_VALUE

Init ==
  /\ byDomain = [d \in Domains |-> <<>>]
  /\ pos = [p \in Partitions |-> 0] /\ posOk = [p \in Partitions |-> 0]
  /\ windows = <<>> /\ processed = 0 /\ alerts = {}
  /\ seen = [d \in Domains |-> {}] /\ lost = [d \in Domains |-> 0]

Fault(kind) == Len(faults) < MaxFaults /\ faults' = Append(faults, kind)

-----------------------------------------------------------------------------
(* EventMapper *)

\* request_ts, or the time of the envelope when C2 could not parse one.
Second(e) ==
  LET r == enriched[e[1]][e[2]] IN IF r.time = NoTime THEN r.timestamp ELSE r.time

TooFarAhead(e) == Second(e) > clock + FutureSkew

-----------------------------------------------------------------------------
(* DdosDetectionServiceImpl *)

EmptyFunction == [x \in {} |-> x]

NewWindow(d) == [domain |-> d, buckets |-> EmptyFunction, requests |-> 0,
                 ips |-> [c \in Clients |-> 0], latest |-> Never, lastAlert |-> Never,
                 lastProcessed |-> 0]

Place(d) == {n \in DOMAIN windows : windows[n].domain = d}
Window(d) == IF Place(d) = {} THEN NewWindow(d) ELSE windows[CHOOSE n \in Place(d) : TRUE]

\* Faulty variant of Expire: the bucket at the edge stays.
ExpireLate(w, oldest) ==
  LET gone == {s \in DOMAIN w.buckets : s < oldest} IN
  [w EXCEPT !.buckets = [s \in DOMAIN w.buckets \ gone |-> w.buckets[s]],
            !.requests = @ - SumFunction([s \in gone |-> w.buckets[s].requests]),
            !.ips =
              [c \in Clients |-> @[c] - SumFunction([s \in gone |-> w.buckets[s].ips[c]])]]

\* The buckets up to oldest leave the window, and its totals.
Expire(w, oldest) ==
  LET gone == {s \in DOMAIN w.buckets : s <= oldest} IN
  [w EXCEPT !.buckets = [s \in DOMAIN w.buckets \ gone |-> w.buckets[s]],
            !.requests = @ - SumFunction([s \in gone |-> w.buckets[s].requests]),
            !.ips =
              [c \in Clients |-> @[c] - SumFunction([s \in gone |-> w.buckets[s].ips[c]])]]

Counted(r, c) == [r EXCEPT !.requests = @ + 1, !.ips[c] = @ + 1]

Add(w, s, c) ==
  LET bucket == IF s \in DOMAIN w.buckets THEN w.buckets[s]
                ELSE [requests |-> 0, ips |-> [b \in Clients |-> 0]] IN
  [Counted(w, c) EXCEPT !.buckets =
     [t \in DOMAIN w.buckets \cup {s} |-> IF t = s THEN Counted(bucket, c) ELSE w.buckets[t]]]

Latest(w, s) == IF s > w.latest THEN s ELSE w.latest

\* The window, slid to the newest second seen, with a request of c at s unless that is late.
Slide(w, s, c) ==
  LET oldest == Latest(w, s) - WindowSeconds
      slid == [Expire(w, oldest) EXCEPT !.latest = Latest(w, s), !.lastProcessed = clock] IN
  IF s <= oldest THEN slid ELSE Add(slid, s, c)

\* Faulty variant of Alerts: the addresses are not asked for.
AlertsOnRequests(before, w, s) ==
  /\ s > w.latest - WindowSeconds
  /\ w.requests >= RequestThreshold
  /\ ~(before.lastAlert # Never /\ s - before.lastAlert < Cooldown)

\* Faulty variant of Alerts: any alert since the start holds the next one back.
AlertsOnce(before, w, s) ==
  /\ s > w.latest - WindowSeconds
  /\ w.requests >= RequestThreshold
  /\ Cardinality({c \in Clients : w.ips[c] > 0}) >= UniqueIpThreshold
  /\ before.lastAlert = Never

\* The request at s is in time, both thresholds are reached, and the cooldown is over.
Alerts(before, w, s) ==
  /\ s > w.latest - WindowSeconds
  /\ w.requests >= RequestThreshold
  /\ Cardinality({c \in Clients : w.ips[c] > 0}) >= UniqueIpThreshold
  /\ ~(before.lastAlert # Never /\ s - before.lastAlert < Cooldown)

\* The map with window w of the domain used last; beyond the bound the first one goes, and
\* every CleanupEvery requests those not used for two windows.
Kept(w) ==
  LET all == Append(At(windows, DOMAIN windows \ Place(w.domain)), w)
      bound == IF Len(all) > MaxTrackedDomains THEN Tail(all) ELSE all IN
  IF processed + 1 < CleanupEvery THEN bound
  ELSE At(bound, {n \in DOMAIN bound : bound[n].lastProcessed >= clock - 2 * WindowSeconds})

-----------------------------------------------------------------------------
(* RecordProcessor: record i of partition p, with envelope e.              *)

\* Role REPARTITION, p is a client: the envelope goes to the partition of its domain.
Copy(p, e) ==
  /\ p \in Clients
  /\ byDomain' = [byDomain EXCEPT ![DomainOf[p]] = Append(@, e)]
  /\ UNCHANGED <<windows, processed, alerts, seen, lost>>

\* Role DDOS, p is a domain.
Analyse(p, i, e) ==
  /\ p \in Domains
  /\ LET s == Second(e)
         before == Window(p)
         w == Slide(before, s, e[1])
         alert == Alerts(before, w, s) IN
     /\ windows' = Kept(IF alert THEN [w EXCEPT !.lastAlert = s] ELSE w)
     /\ alerts' = IF alert THEN alerts \cup {<<p, i>>} ELSE alerts
     /\ seen' = [seen EXCEPT ![p] = (IF Place(p) = {} THEN {} ELSE @) \cup {i}]
     /\ lost' = IF Place(p) = {} THEN [lost EXCEPT ![p] = i - 1] ELSE lost
  /\ processed' = (processed + 1) % CleanupEvery
  /\ UNCHANGED byDomain

Input(p) == IF p \in Clients THEN [n \in DOMAIN enriched[p] |-> <<p, n>>] ELSE byDomain[p]

\* The records of the batch that a role has in hand.
Batch(role) == UNION {{p} \X ((posOk[p] + 1)..pos[p]) : p \in role}

\* process: a time too far ahead is a dead letter, a domain that the scope denies is skipped.
Process(p) ==
  /\ pos[p] < Len(Input(p)) /\ Cardinality(Batch(IF p \in Clients THEN Clients ELSE Domains)) < MaxPoll
  /\ LET i == pos[p] + 1
         e == Input(p)[i] IN
     /\ pos' = [pos EXCEPT ![p] = i]
     /\ \/ /\ TooFarAhead(e) /\ dropped' = dropped \cup {<<"detector", p, i>>}
           /\ UNCHANGED <<byDomain, windows, processed, alerts, seen, lost, faults>>
        \/ /\ ~TooFarAhead(e) /\ Fault("skip") /\ dropped' = dropped \cup {<<"detector", p, i>>}
           /\ UNCHANGED <<byDomain, windows, processed, alerts, seen, lost>>
        \/ /\ ~TooFarAhead(e) /\ (Copy(p, e) \/ Analyse(p, i, e))
           /\ UNCHANGED <<dropped, faults>>
  /\ UNCHANGED <<clock, enriched, posOk>>

-----------------------------------------------------------------------------
(* KafkaPipeline *)

\* The end of a batch of one role: its outputs are confirmed, then commitSync.
Commit(role) ==
  /\ \E p \in role : posOk[p] # pos[p]
  /\ posOk' = [p \in Partitions |-> IF p \in role THEN pos[p] ELSE posOk[p]]
  /\ UNCHANGED <<clock, enriched, byDomain, pos, windows, processed, alerts, seen, lost,
                 dropped, faults>>

\* Faulty variant of Restart: the role goes on behind the batch that it had in hand.
RestartBehind(role) ==
  /\ role = Clients => Batch(role) # {}
  /\ Fault(IF role = Clients THEN "copy" ELSE "ddos")
  /\ IF role = Clients THEN UNCHANGED <<windows, processed, seen, lost>>
     ELSE /\ windows' = <<>> /\ processed' = 0
          /\ seen' = [d \in Domains |-> {}] /\ lost' = [d \in Domains |-> posOk[d]]
  /\ UNCHANGED <<clock, enriched, byDomain, pos, posOk, alerts, dropped>>

\* The process of one role ends and starts again from its committed offsets; DDOS has lost
\* its windows.
Restart(role) ==
  /\ role = Clients => Batch(role) # {}
  /\ Fault(IF role = Clients THEN "copy" ELSE "ddos")
  /\ pos' = [p \in Partitions |-> IF p \in role THEN posOk[p] ELSE pos[p]]
  /\ IF role = Clients THEN UNCHANGED <<windows, processed, seen, lost>>
     ELSE /\ windows' = <<>> /\ processed' = 0
          /\ seen' = [d \in Domains |-> {}] /\ lost' = [d \in Domains |-> posOk[d]]
  /\ UNCHANGED <<clock, enriched, byDomain, posOk, alerts, dropped>>

Next ==
  \/ \E p \in Partitions : Process(p)
  \/ \E role \in {Clients, Domains} : Commit(role) \/ Restart(role)

-----------------------------------------------------------------------------
(* Properties *)

\* The totals kept by adding requests and expiring seconds are those of the requests of the
\* last WindowSeconds before the newest one, by address too, whatever the order in which the
\* clients of a domain are merged and however late a request is.
DomainWindowIsExact ==
  \A n \in DOMAIN windows :
    LET w == windows[n]
        of == byDomain[w.domain]
        real == {i \in seen[w.domain] : Second(of[i]) > w.latest - WindowSeconds} IN
    /\ \A i \in seen[w.domain] : Second(of[i]) <= w.latest
    /\ w.requests = Cardinality(real)
    /\ \A c \in Clients : w.ips[c] = Cardinality({i \in real : of[i][1] = c})

\* With record i the requests that the window of d has seen reach both thresholds, counted
\* anew from the partition; i is not late.
Burst(d, i) ==
  LET second(j) == Second(byDomain[d][j])
      upTo == {j \in seen[d] : j <= i}
      real == {j \in upTo : \A m \in upTo : second(m) - WindowSeconds < second(j)} IN
  /\ i \in real /\ Cardinality(real) >= RequestThreshold
  /\ Cardinality({byDomain[d][j][1] : j \in real}) >= UniqueIpThreshold

\* A burst whose requests all come after the loss of the last window of the domain is
\* alerted, for the request that completes it or one before it less than a cooldown older;
\* and no more is lost than what was committed before a restart of DDOS, or came before the
\* window was removed: everything since is seen, or a dead letter or denied.  A burst that
\* such a loss splits is not alerted, and the property does not ask for it.
BurstIsAlerted ==
  \A d \in Domains :
    /\ \A i \in (lost[d] + 1)..pos[d] : i \in seen[d] \/ <<"detector", d, i>> \in dropped
    /\ \A i \in seen[d] :
         Burst(d, i) =>
           \E j \in 1..i :
             /\ <<d, j>> \in alerts
             /\ j = i \/ Second(byDomain[d][j]) > Second(byDomain[d][i]) - Cooldown
=============================================================================
