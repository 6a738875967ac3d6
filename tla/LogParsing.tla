----------------------------- MODULE LogParsing -----------------------------
(***************************************************************************)
(* C2 (services/c2-parser): each record of log.raw.ingested is a block of  *)
(* log lines of one client; the lines that match the format go to          *)
(* log.normalized, in order.  A partition stands for the client that keys  *)
(* it.  The bus is reduced to what this handler sees of it (EventBus):     *)
(* offsets committed for a whole batch, and a replay from there after a    *)
(* restart.  Outputs are stored as they are published: those that a crash  *)
(* keeps from the broker are those of a crash that came earlier, since an  *)
(* idempotent producer leaves no gap in a partition.                       *)
(***************************************************************************)
EXTENDS Integers, Sequences, FiniteSets, Subsequences

CONSTANTS Clients,      \* partitions: domain|src_ip
          Raw,          \* Raw[c]: the blocks of c; a block is a sequence of lines
          Malformed,    \* a line that does not match the format
          NoTime,       \* a line whose time cannot be parsed; the others are their second
          MaxPoll,      \* records of a batch: max_batch = 500
          MaxFaults     \* bound on denials of the scope and on restarts

VARIABLES
  normalized,   \* normalized[c]: partition c of log.normalized
  parsed,       \* parsed[c]: raw records handled
  parsedOk,     \* parsedOk[c]: raw records committed
  dropped,      \* history: records skipped or dead-lettered, by stage
  faults        \* history: the faults so far, in order

parsingVars == <<normalized, parsed, parsedOk, dropped, faults>>

Init ==
  /\ normalized = [c \in Clients |-> <<>>]
  /\ parsed = [c \in Clients |-> 0] /\ parsedOk = [c \in Clients |-> 0]

Fault(kind) == Len(faults) < MaxFaults /\ faults' = Append(faults, kind)

Drop(stage, p, i) == dropped' = dropped \cup {<<stage, p, i>>}

\* parse_raw: the valid lines of block i, in their order.  A line is known by its place.
Valid(c, i) ==
  At([k \in DOMAIN Raw[c][i] |-> [line |-> <<c, i, k>>, time |-> Raw[c][i][k]]],
     {k \in DOMAIN Raw[c][i] : Raw[c][i][k] # Malformed})

\* There is a record to handle, in a batch that is not full.
RawPolled(c) ==
  /\ parsed[c] < Len(Raw[c])
  /\ Cardinality(UNION {{d} \X ((parsedOk[d] + 1)..parsed[d]) : d \in Clients}) < MaxPoll

\* Faulty variant of Parse: the last line of a block is published first.
ParseReversed(c) ==
  LET i == parsed[c] + 1
      v == Valid(c, i) IN
  /\ RawPolled(c)
  /\ parsed' = [parsed EXCEPT ![c] = i]
  /\ normalized' = [normalized EXCEPT ![c] = @ \o [k \in DOMAIN v |-> v[Len(v) + 1 - k]]]
  /\ UNCHANGED <<parsedOk, dropped, faults>>

\* The handler: the scope denies the domain (or does not answer), no line is valid (dead
\* letter), or every valid line is published.  That the producer refuses a line twice
\* (BufferError) behind others of its block is left out: its queue holds 100 000 messages,
\* and a batch has at most 500 records, which C1 gives one line each.
Parse(c) ==
  LET i == parsed[c] + 1 IN
  /\ RawPolled(c)
  /\ parsed' = [parsed EXCEPT ![c] = i]
  /\ \/ Fault("skip") /\ Drop("parse", c, i) /\ UNCHANGED normalized
     \/ /\ Valid(c, i) = <<>> /\ Drop("parse", c, i)
        /\ UNCHANGED <<normalized, faults>>
     \/ /\ Valid(c, i) # <<>>
        /\ normalized' = [normalized EXCEPT ![c] = @ \o Valid(c, i)]
        /\ UNCHANGED <<dropped, faults>>
  /\ UNCHANGED parsedOk

\* The end of a batch: every output is stored, the offsets of all partitions are committed.
ParseCommit ==
  /\ parsedOk # parsed
  /\ parsedOk' = parsed
  /\ UNCHANGED <<normalized, parsed, dropped, faults>>

\* The process ends and reads again what it had not committed; also in the middle of a
\* block, of which the first lines are stored then.
ParseRestart ==
  /\ Fault("parse")
  /\ parsed' = parsedOk
  /\ \/ parsed # parsedOk /\ UNCHANGED normalized
     \/ \E c \in Clients :
          /\ RawPolled(c)
          /\ LET v == Valid(c, parsed[c] + 1) IN
             \E n \in 1..(Len(v) - 1) :
               normalized' = [normalized EXCEPT ![c] = @ \o SubSeq(v, 1, n)]
  /\ UNCHANGED <<parsedOk, dropped>>

Next == (\E c \in Clients : Parse(c)) \/ ParseCommit \/ ParseRestart
=============================================================================
