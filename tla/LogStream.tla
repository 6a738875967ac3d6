------------------------------ MODULE LogStream ------------------------------
(***************************************************************************)
(* From a line of the log to a DDoS alert: C2, C3 and the two roles of the *)
(* DDoS branch, joined by the topics between them.  Each component is the  *)
(* module of its own; every interleaving of their steps, restarts and      *)
(* commits is possible.                                                    *)
(***************************************************************************)
EXTENDS Integers, Sequences, FiniteSets, Subsequences

CONSTANTS Clients, Domains, DomainOf, Raw, Malformed, NoTime,
          RateWindow, MaxTracked, MaxPerClient,
          WindowSeconds, RequestThreshold, UniqueIpThreshold, Cooldown, MaxTrackedDomains,
          FutureSkew, CleanupEvery,
          Instants,     \* bound on the clock: the times it shows
          MaxPoll, MaxFaults

ASSUME StreamAssumption ==
  /\ Clients \cap Domains = {} /\ DomainOf \in [Clients -> Domains]
  /\ Raw \in [Clients -> Seq(Seq(Nat \cup {Malformed, NoTime}))] /\ NoTime # Malformed
  /\ {MaxTracked, MaxPerClient, MaxTrackedDomains, WindowSeconds, CleanupEvery, MaxPoll}
       \subseteq Nat \ {0}
  /\ {RateWindow, RequestThreshold, UniqueIpThreshold, Cooldown, FutureSkew, MaxFaults}
       \subseteq Nat
  /\ Instants \subseteq Nat

ASSUME ClientsAreFinite == IsFiniteSet(Clients)

VARIABLES
  clock,
  normalized, enriched, byDomain,
  parsed, parsedOk,
  enrich, enrichOk, hits, since,
  pos, posOk, windows, processed, alerts, seen, lost,
  dropped, faults

topics == <<normalized, enriched, byDomain>>
parsing == <<parsed, parsedOk>>
enrichment == <<enrich, enrichOk, hits, since>>
detection == <<pos, posOk, windows, processed, alerts, seen, lost>>
vars == <<clock, topics, parsing, enrichment, detection, dropped, faults>>

C2 == INSTANCE LogParsing
C3 == INSTANCE Enrichment
Detector == INSTANCE Ddos

-----------------------------------------------------------------------------
Init ==
  /\ clock \in Instants /\ \A t \in Instants : clock <= t
  /\ C2!Init /\ C3!Init /\ Detector!Init
  /\ dropped = {} /\ faults = <<>>

ParsingStep == C2!Next /\ UNCHANGED <<clock, enriched, byDomain, enrichment, detection>>
EnrichmentStep == C3!Next /\ UNCHANGED <<byDomain, parsing, detection>>
DetectionStep == Detector!Next /\ UNCHANGED <<normalized, parsing, enrichment>>

Tick ==
  /\ \E t \in Instants : t > clock /\ clock' = t
  /\ UNCHANGED <<topics, parsing, enrichment, detection, dropped, faults>>

Next == ParsingStep \/ EnrichmentStep \/ DetectionStep \/ Tick

Spec == Init /\ [][Next]_vars

-----------------------------------------------------------------------------
(* Properties *)

\* Types; offsets lie inside their logs, and counters and windows within their bounds.
TypeOK ==
  /\ clock \in Instants
  /\ \A c \in Clients :
       /\ parsedOk[c] <= parsed[c] /\ parsed[c] <= Len(Raw[c])
       /\ enrichOk[c] <= enrich[c] /\ enrich[c] <= Len(normalized[c])
  /\ \A p \in Clients \cup Domains :
       posOk[p] <= pos[p] /\ pos[p] <= Len(Detector!Input(p))
  /\ Len(hits) <= MaxTracked /\ \A n \in DOMAIN hits : Len(hits[n].times) <= MaxPerClient
  /\ Len(windows) <= MaxTrackedDomains /\ processed \in 0..(CleanupEvery - 1)
  /\ Len(faults) <= MaxFaults

\* End to end nothing is lost: each line of a block that C2 committed, each record that C3
\* or REPARTITION committed, is in the next topic, unless the stage dropped the record.
NothingLost ==
  \A c \in Clients :
    /\ \A i \in 1..parsedOk[c] :
         \/ <<"parse", c, i>> \in dropped
         \/ \A k \in DOMAIN Raw[c][i] :
              \/ Raw[c][i][k] = Malformed
              \/ \E n \in DOMAIN normalized[c] : normalized[c][n].line = <<c, i, k>>
    /\ \A i \in 1..enrichOk[c] :
         \/ <<"enrich", c, i>> \in dropped
         \/ \E n \in DOMAIN enriched[c] : enriched[c][n].line = normalized[c][i].line
    /\ \A i \in 1..posOk[c] :
         \/ <<"detector", c, i>> \in dropped
         \/ \E n \in DOMAIN byDomain[DomainOf[c]] : byDomain[DomainOf[c]][n] = <<c, i>>

Before(a, b) == a[2] < b[2] \/ (a[2] = b[2] /\ a[3] < b[3])

\* In a sequence of lines, a line after a later one is there for the second time.
InOrder(s) ==
  \A m, n \in DOMAIN s :
    m < n /\ Before(s[n], s[m]) => \E q \in 1..(m - 1) : s[q] = s[n]

LinesOf(s) == [n \in DOMAIN s |-> s[n].line]

Copied(c) ==
  LET all == byDomain[DomainOf[c]]
      of == At(all, {n \in DOMAIN all : all[n][1] = c}) IN
  [n \in DOMAIN of |-> enriched[c][of[n][2]].line]

Happened(kinds) == {n \in DOMAIN faults : faults[n] \in kinds}

\* contracts/events/README.md:25: the events of one client stay in order.  However often
\* stages restart, and in the middle of a block, no line of a client reaches a later stage
\* for the first time after a line that follows it in the log, unless the scope or the
\* dead letter takes one of the copies of a line out.
ClientOrderKept ==
  Happened({"skip"}) = {} =>
    \A c \in Clients :
      /\ InOrder(LinesOf(normalized[c])) /\ InOrder(LinesOf(enriched[c]))
      /\ (\A i \in DOMAIN enriched[c] : <<"detector", c, i>> \notin dropped) =>
           InOrder(Copied(c))

\* The records of client c that DDOS receives for a line that it has received before.
Repeats(c) ==
  {n \in DOMAIN Copied(c) : \E m \in 1..(n - 1) : Copied(c)[m] = Copied(c)[n]}

LongestBlock ==
  LET lengths == {0} \cup UNION {{Len(Raw[c][i]) : i \in DOMAIN Raw[c]} : c \in Clients} IN
  CHOOSE n \in lengths : \A m \in lengths : m <= n

\* New ids hide a replay from all that follows, but a restart of one stage repeats at most
\* one batch, and the stages do not multiply their repeats.
RepeatsBounded ==
  \A c \in Clients :
    Cardinality(Repeats(c))
      <= MaxPoll * (LongestBlock * Cardinality(Happened({"parse"}))
                    + Cardinality(Happened({"enrich", "copy"})))

\* An alert is backed by log lines of enough addresses within one window, always; and by
\* enough different lines, as long as no stage before DDOS was restarted.
AlertIsJustified ==
  \A a \in alerts :
    LET of == byDomain[a[1]]
        second(j) == Detector!Second(of[j])
        window(t) == {j \in 1..a[2] : t - WindowSeconds < second(j) /\ second(j) <= t}
        lines(t) == {enriched[of[j][1]][of[j][2]].line : j \in window(t)} IN
    \E j \in 1..a[2] :
      /\ Cardinality({l[1] : l \in lines(second(j))}) >= UniqueIpThreshold
      /\ \/ Cardinality(lines(second(j))) >= RequestThreshold
         \/ Happened({"parse", "enrich", "copy"}) # {}

\* What C3 counts for a client and DDOS for a domain is exact (Enrichment, Ddos).
CountsAreExact == C3!RateIsExact /\ Detector!DomainWindowIsExact

\* No burst passes in silence that a lost window does not split (Ddos).
BurstIsAlerted == Detector!BurstIsAlerted
=============================================================================
