---------------------------- MODULE RateLimiter ----------------------------
(***************************************************************************)
(* enforceAgentRateLimit (src/lib/security/rate-limit.server.ts): one      *)
(* bucket per user in the memory of a process, in fixed windows that begin *)
(* with the first request after the last one ended.  It is the first thing *)
(* that the services which change something call, and it has no await, so  *)
(* it is one step.                                                         *)
(*                                                                         *)
(* Time passes in ticks, of which Window make up the 60 seconds; a bucket  *)
(* keeps the ticks that are left until resetAt.                            *)
(***************************************************************************)
EXTENDS Naturals, FiniteSets

CONSTANTS
  Users,
  Limit,       \* HODGEFORM_AGENT_REQUESTS_PER_MINUTE: intEnv keeps it at 1 or more
  Window,
  MaxBuckets   \* 10,000: beyond it expired buckets are swept

ASSUME LimiterAssumption ==
  /\ Limit \in Nat \ {0}
  /\ Window \in Nat \ {0}
  /\ MaxBuckets \in Nat

NoBucket == [ count |-> 0, left |-> 0 ]

Ages == 0 .. Window - 1

NothingAdmitted == [ t \in Ages |-> 0 ]

VARIABLES
  buckets,  \* the map: user -> bucket; one that is not in it is NoBucket
  recent    \* history: user -> what was admitted in this tick and the t before it, for each t

limiterVars == << buckets, recent >>

LimiterInit ==
  /\ buckets = [ u \in Users |-> NoBucket ]
  /\ recent  = [ u \in Users |-> NothingAdmitted ]

\* !bucket || bucket.resetAt <= now
Expired(u) == buckets[u].left = 0

BelowLimit(u) == buckets[u].count < Limit

Buckets == { u \in Users : buckets[u] # NoBucket }

\* Fault: the sweep takes the live buckets too.
SweptOfAll(bs) == [ u \in Users |-> NoBucket ]

Swept(bs) == [ u \in Users |-> IF bs[u].left = 0 THEN NoBucket ELSE bs[u] ]

Increment(u) ==
  LET more == [ buckets EXCEPT ![u].count = @ + 1 ]
  IN  IF Cardinality(Buckets) > MaxBuckets THEN Swept(more) ELSE more

\* The request of u is admitted; otherwise RateLimitError, and nothing changes.
enforceAgentRateLimit(u) ==
  /\ \/ Expired(u) /\ buckets' = [ buckets EXCEPT ![u] = [ count |-> 1, left |-> Window ] ]
     \/ ~Expired(u) /\ BelowLimit(u) /\ buckets' = Increment(u)
  /\ recent' = [ recent EXCEPT ![u] = [ t \in Ages |-> @[t] + 1 ] ]

\* A bucket that nobody can tell from a missing one is still in the map.
Tick ==
  /\ buckets' = [ u \in Users |-> [ buckets[u] EXCEPT !.left = IF @ = 0 THEN 0 ELSE @ - 1 ] ]
  /\ recent'  = [ u \in Users |-> [ t \in Ages |-> IF t = 0 THEN 0 ELSE recent[u][t - 1] ] ]

-----------------------------------------------------------------------------

LimiterTypeOK ==
  /\ buckets \in [ Users -> [ count : 0 .. Limit, left : 0 .. Window ] ]
  /\ recent \in [ Users -> [ Ages -> Nat ] ]

\* Fixed windows let a burst at the end of one follow on a burst at the start
\* of the next, but never more than that: within any 60 seconds the process
\* admits less than twice the limit from one user.
BurstIsBounded == \A u \in Users : recent[u][Window - 1] < 2 * Limit
=============================================================================
