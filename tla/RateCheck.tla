------------------------------ MODULE RateCheck -----------------------------
(***************************************************************************)
(* CacheClient.rate_check (agent/cache.py) on one key: a counter whose     *)
(* expiry every check renews, kept by Redis or by _MemoryStore.  incr() of *)
(* _MemoryStore counts on even when the counter's time is over; keys() and *)
(* size() are what forgets it.                                             *)
(***************************************************************************)
EXTENDS Integers, Sequences, FiniteSets

CONSTANTS
  Limit,
  Window,
  MaxClock,  \* bound on the clock
  MaxChecks  \* bound on the number of checks

ASSUME RateAssumption ==
  /\ Limit \in Nat \ {0} /\ Window \in Nat \ {0}
  /\ MaxClock \in Nat /\ MaxChecks \in Nat

VARIABLES
  backend,  \* _backend: "redis" or "memory", by what connect() finds
  clock,
  count,    \* the counter; 0, no entry
  until,    \* its expiry
  checks    \* what callers were told, and when (for the properties)

rateVars == <<backend, clock, count, until, checks>>

Dead == IF backend = "redis" THEN clock >= until ELSE clock > until
-----------------------------------------------------------------------------
RateInit ==
  /\ backend \in {"redis", "memory"}
  /\ clock = 0 /\ count = 0 /\ until = 0 /\ checks = <<>>

\* Redis forgets a dead counter by itself.
ClockTick ==
  /\ clock < MaxClock
  /\ clock' = clock + 1
  /\ count' = IF backend = "redis" /\ clock + 1 >= until THEN 0 ELSE count
  /\ UNCHANGED <<backend, until, checks>>

\* The expiry that a check leaves.
RenewedNever(n) == IF n = 1 THEN clock + 100 * Window ELSE until
RenewedByFirst(n) == IF n = 1 THEN clock + Window ELSE until
Renewed(n) == clock + Window

Check ==
  /\ Len(checks) < MaxChecks
  /\ count' = count + 1
  /\ until' = Renewed(count')
  /\ checks' = Append(checks, [at |-> clock, allowed |-> count' <= Limit])
  /\ UNCHANGED <<backend, clock>>

\* keys() or size() of the memory store (GET /cache/stats), which forgets a dead entry
\* that it meets, and raises.
SweepCounter ==
  /\ backend = "memory" /\ count > 0 /\ Dead
  /\ count' = 0
  /\ UNCHANGED <<backend, clock, until, checks>>

RateNext == ClockTick \/ Check \/ SweepCounter

RateSpec == RateInit /\ [][RateNext]_rateVars
-----------------------------------------------------------------------------
\* The checks in the Window that ends with check i.
InWindow(i) == {j \in 1..i : checks[j].at > checks[i].at - Window}

\* No window of Window seconds sees more than Limit allowed checks, wherever it
\* begins: a counter that is forgotten has been silent for a window.
NeverOverLimit ==
  \A i \in 1..Len(checks) : Cardinality({j \in InWindow(i) : checks[j].allowed}) <= Limit

\* A caller that waits longer than the time it was told is let in, unless
\* somebody else checked the key in the meantime.
WaitedOut(i) == checks[i].at - checks[i - 1].at > Window => checks[i].allowed

\* So it is when Redis keeps the counter.
RetryHonoured == backend = "redis" => \A i \in 2..Len(checks) : WaitedOut(i)
=============================================================================
