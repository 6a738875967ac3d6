----------------------------- MODULE Enrichment -----------------------------
(***************************************************************************)
(* C3 (services/c3-enrichment): each record of log.normalized gets the     *)
(* number of requests of its client in the last minute (RequestRateCounter)*)
(* and goes to log.enriched, with a new envelope.  The country and the     *)
(* session depend on the record alone and are left out.  The bus is that   *)
(* of LogParsing.                                                          *)
(***************************************************************************)
EXTENDS Integers, Sequences, FiniteSets, Subsequences

CONSTANTS Clients,
          RateWindow,   \* _WINDOW_SECONDS = 60
          MaxTracked,   \* _MAX_TRACKED_IPS = 10000
          MaxPerClient, \* _MAX_TIMESTAMPS_PER_IP = 1000
          MaxPoll, MaxFaults

VARIABLES
  clock,        \* the time of day of the containers, which does not step back here
  normalized,   \* log.normalized, read only
  enriched,     \* enriched[c]: partition c of log.enriched
  enrich,       \* enrich[c]: normalized records handled
  enrichOk,     \* enrichOk[c]: normalized records committed
  hits,         \* _hits: an OrderedDict, as the sequence of its items
  since,        \* history: since[c]: records enriched when the counter of c was created
  dropped, faults

enrichmentVars == <<enriched, enrich, enrichOk, hits, since, dropped, faults>>

Init ==
  /\ enriched = [c \in Clients |-> <<>>]
  /\ enrich = [c \in Clients |-> 0] /\ enrichOk = [c \in Clients |-> 0]
  /\ hits = <<>> /\ since = [c \in Clients |-> 0]

Fault(kind) == Len(faults) < MaxFaults /\ faults' = Append(faults, kind)

Counter(c) == {i \in DOMAIN hits : hits[i].client = c}

Times(c) == IF Counter(c) = {} THEN <<>> ELSE hits[CHOOSE i \in Counter(c) : TRUE].times

\* _trim_window, _cap_per_ip: nothing older than the window, and the newest ones only.
Trimmed(times) == At(times, {n \in DOMAIN times : times[n] >= clock - RateWindow})
Capped(times) ==
  IF Len(times) <= MaxPerClient THEN times
  ELSE SubSeq(times, Len(times) - MaxPerClient + 1, Len(times))

\* Faulty variant of Recorded: the bound is checked before the new client is added.
RecordedOneMore(c) ==
  LET hit == [client |-> c, times |-> Capped(Trimmed(Append(Times(c), clock)))]
      all == Append(At(hits, DOMAIN hits \ Counter(c)), hit) IN
  IF Len(all) > MaxTracked + 1 THEN Tail(all) ELSE all

\* RequestRateCounter.record: c is the client used last; beyond the bound the first one goes.
Recorded(c) ==
  LET hit == [client |-> c, times |-> Capped(Trimmed(Append(Times(c), clock)))]
      all == Append(At(hits, DOMAIN hits \ Counter(c)), hit) IN
  IF Len(all) > MaxTracked THEN Tail(all) ELSE all

\* What record() returns.
Rate(c) == Len(Recorded(c)[Len(Recorded(c))].times)

\* build_enriched_data, in a new envelope: the record n and the rate.
Enriched(n, rate) == [line |-> n.line, time |-> n.time, timestamp |-> clock, rate |-> rate]

\* There is a record to handle, in a batch that is not full.
NormalizedPolled(c) ==
  /\ enrich[c] < Len(normalized[c])
  /\ Cardinality(UNION {{d} \X ((enrichOk[d] + 1)..enrich[d]) : d \in Clients}) < MaxPoll

\* The handler: the scope denies the domain, or the record is counted and published.
Enrich(c) ==
  LET i == enrich[c] + 1 IN
  /\ NormalizedPolled(c)
  /\ enrich' = [enrich EXCEPT ![c] = i]
  /\ \/ /\ Fault("skip") /\ dropped' = dropped \cup {<<"enrich", c, i>>}
        /\ UNCHANGED <<enriched, hits, since>>
     \/ /\ hits' = Recorded(c)
        /\ since' = IF Counter(c) = {} THEN [since EXCEPT ![c] = Len(enriched[c])] ELSE since
        /\ enriched' = [enriched EXCEPT ![c] = Append(@, Enriched(normalized[c][i], Rate(c)))]
        /\ UNCHANGED <<dropped, faults>>
  /\ UNCHANGED <<clock, normalized, enrichOk>>

\* Faulty variant of EnrichCommit: the offsets are those of what there is to read.
EnrichCommitEnd ==
  /\ enrichOk # enrich
  /\ enrichOk' = [c \in Clients |-> Len(normalized[c])]
  /\ enrich' = enrichOk'
  /\ UNCHANGED <<clock, normalized, enriched, hits, since, dropped, faults>>

EnrichCommit ==
  /\ enrichOk # enrich
  /\ enrichOk' = enrich
  /\ UNCHANGED <<clock, normalized, enriched, enrich, hits, since, dropped, faults>>

\* Faulty variant of EnrichRestart: the whole topic is read again.
EnrichRestartEarliest ==
  /\ Fault("enrich")
  /\ enrich' = [c \in Clients |-> 0] /\ enrichOk' = enrich'
  /\ hits' = <<>>
  /\ UNCHANGED <<clock, normalized, enriched, since, dropped>>

\* The process ends and starts again from the committed offsets, with no counter.
EnrichRestart ==
  /\ Fault("enrich")
  /\ enrich' = enrichOk
  /\ hits' = <<>>
  /\ UNCHANGED <<clock, normalized, enriched, enrichOk, since, dropped>>

Next == (\E c \in Clients : Enrich(c)) \/ EnrichCommit \/ EnrichRestart

-----------------------------------------------------------------------------
(* Properties *)

\* req_count_1m, kept by appending, trimming and capping, is the number of requests of the
\* client that C3 handled in the minute up to this one since it tracks the client, or the
\* cap: also for a client that another one pushed out and that came back.
RateIsExact ==
  \A i \in DOMAIN hits :
    LET c == hits[i].client
        last == enriched[c][Len(enriched[c])]
        recent == {n \in (since[c] + 1)..Len(enriched[c]) :
                     enriched[c][n].timestamp >= last.timestamp - RateWindow}
        count == Cardinality(recent) IN
    last.rate = IF count > MaxPerClient THEN MaxPerClient ELSE count
=============================================================================
