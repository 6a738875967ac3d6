------------------------------ MODULE ScopeCache ------------------------------
(***************************************************************************)
(* Which domains may be processed: the allowlist of P1                     *)
(* (services/p1-scope/main.py) and the client every service asks it with,  *)
(* services/common/scope.py; HttpScopeService.java follows the same policy *)
(* in the detector.  A client caches an answer for the TTL P1 sends and a  *)
(* failed call, denied, for a shorter time; it reads its clock once,       *)
(* before the HTTP call.                                                   *)
(***************************************************************************)
EXTENDS Integers

CONSTANTS Clients,      \* processes holding a ScopeClient
          Domains,
          Seed,         \* SCOPE_ALLOWLIST
          Ttl,          \* CACHE_TTL_SECONDS = 60
          FailureTtl,   \* _FAILURE_TTL_SECONDS = 5
          Timeout,      \* ScopeClient(timeout = 3.0): longest time a call is in flight
          MaxTime,      \* bound on the clock
          MaxBehind     \* bound on how far the wall clock of a client is set back

ASSUME ScopeAssumption ==
  /\ Seed \subseteq Domains
  /\ Ttl \in Nat /\ FailureTtl \in Nat /\ Timeout \in Nat /\ MaxTime \in Nat
  /\ MaxBehind \in 0..MaxTime
  /\ 1 <= FailureTtl /\ Timeout < Ttl

VARIABLES
  now,          \* real time, in seconds
  behind,       \* behind[c]: how far the wall clock of c was set back so far
  \* P1
  row,          \* row[d] of scope.allowlist: "absent", "enabled" or "disabled"
  p1,           \* "down", "seeding" (startup in progress) or "up"
  toSeed,       \* domains startup has still to insert
  \* the clients
  phase,        \* "idle", "sent" (request under way), "answered" (response under way)
  target,       \* domain of the call
  sentAt,       \* real time of the call
  askedAt,      \* the wall clock of the client read before the call
  answer,       \* P1's verdict on its way back
  cache,        \* cache[c][d]: verdict and expiry; expires = 0 is no entry
  \* history
  decision,     \* the last verdict each client acted on, and when
  lastIn,       \* last instant d was in scope
  lastOut,      \* last instant d was out of scope
  lastFail      \* lastFail[c][d]: last instant a call of c about d failed

p1Vars == <<row, p1, toSeed>>
timeVars == <<now, behind>>
callVars == <<phase, target, sentAt, askedAt, answer>>
scopeVars == <<timeVars, p1Vars, callVars, cache, decision, lastIn, lastOut, lastFail>>

\* time.time() in process c.
WallClock(c) == now - behind[c]

NoEntry == [allowed |-> FALSE, expires |-> 0]

\* Earlier than anything a cached answer can date from.
Never == -(Ttl + FailureTtl + 1)

-----------------------------------------------------------------------------
ScopeInit ==
  /\ now = MaxBehind /\ behind = [c \in Clients |-> 0]
  /\ row = [d \in Domains |-> "absent"]
  /\ p1 = "down"
  /\ toSeed = {}
  /\ phase = [c \in Clients |-> "idle"]
  /\ target \in [Clients -> Domains]
  /\ sentAt = [c \in Clients |-> 0] /\ askedAt = [c \in Clients |-> 0]
  /\ answer = [c \in Clients |-> FALSE]
  /\ cache = [c \in Clients |-> [d \in Domains |-> NoEntry]]
  /\ decision = [c \in Clients |-> [domain |-> target[c], allowed |-> FALSE, at |-> now]]
  /\ lastIn = [d \in Domains |-> Never]
  /\ lastOut = [d \in Domains |-> now]
  /\ lastFail = [c \in Clients |-> [d \in Domains |-> Never]]

-----------------------------------------------------------------------------
(* P1: the allowlist.                                                      *)

\* A write to one row; the history notes from when to when d is in scope.
SetRow(d, value) ==
  /\ row' = [row EXCEPT ![d] = value]
  /\ lastIn' = [lastIn EXCEPT ![d] = IF value = "enabled" THEN now ELSE @]
  /\ lastOut' = [lastOut EXCEPT ![d] = IF value = "enabled" THEN @ ELSE now]

\* _init_db: the seed is only used when the table has no row at all.
StartP1 ==
  /\ p1 = "down"
  /\ p1' = "seeding"
  /\ toSeed' = IF \A d \in Domains : row[d] = "absent" THEN Seed ELSE {}
  /\ UNCHANGED <<timeVars, row, callVars, cache, decision, lastIn, lastOut, lastFail>>

\* One INSERT ... ON CONFLICT DO NOTHING, in a transaction of its own.
SeedRow(d) ==
  /\ p1 = "seeding" /\ d \in toSeed
  /\ toSeed' = toSeed \ {d}
  /\ IF row[d] = "absent" THEN SetRow(d, "enabled") ELSE UNCHANGED <<row, lastIn, lastOut>>
  /\ UNCHANGED <<timeVars, p1, callVars, cache, decision, lastFail>>

\* Faulty variant of ServeP1: requests are served while the seed is still going in.
ServeP1Early ==
  /\ p1 = "seeding"
  /\ p1' = "up"
  /\ UNCHANGED <<timeVars, row, toSeed, callVars, cache, decision, lastIn, lastOut, lastFail>>

\* Startup is over: requests are served.
ServeP1 ==
  /\ p1 = "seeding" /\ toSeed = {}
  /\ p1' = "up"
  /\ UNCHANGED <<timeVars, row, toSeed, callVars, cache, decision, lastIn, lastOut, lastFail>>

\* The process stops, even in the middle of seeding; the table remains.
StopP1 ==
  /\ p1 # "down"
  /\ p1' = "down" /\ toSeed' = {}
  /\ UNCHANGED <<timeVars, row, callVars, cache, decision, lastIn, lastOut, lastFail>>

\* POST /scope/allowlist: insert or overwrite, enabled or not.
AddAllowlist(d, enabled) ==
  /\ p1 = "up"
  /\ SetRow(d, IF enabled THEN "enabled" ELSE "disabled")
  /\ UNCHANGED <<timeVars, p1, toSeed, callVars, cache, decision, lastFail>>

\* DELETE /scope/allowlist/{target}
RemoveAllowlist(d) ==
  /\ p1 = "up"
  /\ SetRow(d, "absent")
  /\ UNCHANGED <<timeVars, p1, toSeed, callVars, cache, decision, lastFail>>

\* GET /scope/check: _lookup reads the row, the answer starts its way back.
Check(c) ==
  /\ p1 = "up" /\ phase[c] = "sent"
  /\ phase' = [phase EXCEPT ![c] = "answered"]
  /\ answer' = [answer EXCEPT ![c] = (row[target[c]] = "enabled")]
  /\ UNCHANGED <<timeVars, p1Vars, target, sentAt, askedAt, cache, decision, lastIn, lastOut, lastFail>>

-----------------------------------------------------------------------------
(* ScopeClient.allowed                                                     *)

Decide(c, d, allowed) ==
  decision' = [decision EXCEPT ![c] = [domain |-> d, allowed |-> allowed, at |-> now]]

\* The call is over; its locals go.
HangUp(c) ==
  /\ phase' = [phase EXCEPT ![c] = "idle"]
  /\ sentAt' = [sentAt EXCEPT ![c] = 0] /\ askedAt' = [askedAt EXCEPT ![c] = 0]
  /\ answer' = [answer EXCEPT ![c] = FALSE]
  /\ UNCHANGED target

\* A valid entry answers at once.
CacheHit(c, d) ==
  /\ phase[c] = "idle" /\ cache[c][d].expires > WallClock(c)
  /\ Decide(c, d, cache[c][d].allowed)
  /\ UNCHANGED <<timeVars, p1Vars, callVars, cache, lastIn, lastOut, lastFail>>

\* No entry, or an expired one: ask P1.
Ask(c, d) ==
  /\ phase[c] = "idle" /\ ~(cache[c][d].expires > WallClock(c))
  /\ phase' = [phase EXCEPT ![c] = "sent"]
  /\ target' = [target EXCEPT ![c] = d]
  /\ sentAt' = [sentAt EXCEPT ![c] = now]
  /\ askedAt' = [askedAt EXCEPT ![c] = WallClock(c)]
  /\ UNCHANGED <<timeVars, p1Vars, answer, cache, decision, lastIn, lastOut, lastFail>>

\* Faulty variant of Receive: the clock is read again once the answer is there.
ReceiveThenReadClock(c) ==
  /\ phase[c] = "answered"
  /\ HangUp(c)
  /\ cache' = [cache EXCEPT ![c][target[c]] = [allowed |-> answer[c], expires |-> WallClock(c) + Ttl]]
  /\ Decide(c, target[c], answer[c])
  /\ UNCHANGED <<timeVars, p1Vars, lastIn, lastOut, lastFail>>

\* The answer arrives; its age counts from before the call.
Receive(c) ==
  /\ phase[c] = "answered"
  /\ HangUp(c)
  /\ cache' = [cache EXCEPT ![c][target[c]] =
                 [allowed |-> answer[c],
                  expires |-> askedAt[c] + (IF Ttl > 1 THEN Ttl ELSE 1)]]
  /\ Decide(c, target[c], answer[c])
  /\ UNCHANGED <<timeVars, p1Vars, lastIn, lastOut, lastFail>>

\* Refused, timed out, HTTP error or lost answer: deny, and remember it for a while.
Fail(c) ==
  /\ phase[c] # "idle"
  /\ HangUp(c)
  /\ cache' = [cache EXCEPT ![c][target[c]] =
                 [allowed |-> FALSE, expires |-> askedAt[c] + FailureTtl]]
  /\ Decide(c, target[c], FALSE)
  /\ lastFail' = [lastFail EXCEPT ![c][target[c]] = now]
  /\ UNCHANGED <<timeVars, p1Vars, lastIn, lastOut>>

\* The client's process restarts: the cache was in its memory.
RestartClient(c) ==
  /\ HangUp(c)
  /\ cache' = [cache EXCEPT ![c] = [d \in Domains |-> NoEntry]]
  /\ UNCHANGED <<timeVars, p1Vars, decision, lastIn, lastOut, lastFail>>

\* Time passes; no call outlives its timeout.
Tick ==
  /\ now < MaxTime
  /\ \A c \in Clients : phase[c] # "idle" => now < sentAt[c] + Timeout
  /\ now' = now + 1
  /\ lastIn' = [d \in Domains |-> IF row[d] = "enabled" THEN now + 1 ELSE lastIn[d]]
  /\ lastOut' = [d \in Domains |-> IF row[d] = "enabled" THEN lastOut[d] ELSE now + 1]
  /\ UNCHANGED <<behind, p1Vars, callVars, cache, decision, lastFail>>

\* NTP, or an operator, sets the clock of the host of c back, at any time.
SetBack(c) ==
  /\ behind[c] < MaxBehind
  /\ behind' = [behind EXCEPT ![c] = @ + 1]
  /\ UNCHANGED <<now, p1Vars, callVars, cache, decision, lastIn, lastOut, lastFail>>

ScopeNext ==
  \/ StartP1 \/ ServeP1 \/ StopP1 \/ Tick
  \/ \E d \in Domains : \/ SeedRow(d) \/ RemoveAllowlist(d)
                        \/ \E e \in BOOLEAN : AddAllowlist(d, e)
  \/ \E c \in Clients : \/ Check(c) \/ Receive(c) \/ Fail(c) \/ RestartClient(c) \/ SetBack(c)
                        \/ \E d \in Domains : CacheHit(c, d) \/ Ask(c, d)

ScopeSpec == ScopeInit /\ [][ScopeNext]_scopeVars

-----------------------------------------------------------------------------
(* Properties *)

\* Types; P1 has something left to seed only while it starts.
ScopeTypeOK ==
  /\ now \in Nat /\ behind \in [Clients -> 0..MaxBehind]
  /\ row \in [Domains -> {"absent", "enabled", "disabled"}]
  /\ p1 \in {"down", "seeding", "up"}
  /\ toSeed \in SUBSET Domains
  /\ toSeed # {} => p1 = "seeding"
  /\ phase \in [Clients -> {"idle", "sent", "answered"}]
  /\ target \in [Clients -> Domains]
  /\ sentAt \in [Clients -> Nat] /\ askedAt \in [Clients -> Nat]
  /\ answer \in [Clients -> BOOLEAN]
  /\ cache \in [Clients -> [Domains -> [allowed : BOOLEAN, expires : Nat]]]
  /\ decision \in [Clients -> [domain : Domains, allowed : BOOLEAN, at : Nat]]
  /\ lastIn \in [Domains -> Int]
  /\ lastOut \in [Domains -> Int]
  /\ lastFail \in [Clients -> [Domains -> Int]]

\* p1-scope/README.md:97, "toi da 60 giay": whoever removes or disables a domain knows that
\* no client still lets its logs through later than one TTL after, and what its clock was
\* set back; a failed or slow call, a restart of P1 or of the client never lengthens that.
NoStaleApproval ==
  \A c \in Clients : LET v == decision[c] IN
    v.allowed => v.at < lastIn[v.domain] + Ttl + behind[c]

\* The converse: a client denies a domain only if the domain was out of scope within the
\* last TTL, or a call about it failed within the last, shorter, failure TTL.
NoStaleDenial ==
  \A c \in Clients : LET v == decision[c] IN
    ~v.allowed => \/ v.at < lastOut[v.domain] + Ttl + behind[c]
                  \/ v.at < lastFail[c][v.domain] + FailureTtl + behind[c]

\* A verdict acted on is never older than its TTL, by a clock that may be set back.
NoStaleVerdict == NoStaleApproval /\ NoStaleDenial
=============================================================================
