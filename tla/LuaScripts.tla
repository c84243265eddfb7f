----------------------------- MODULE LuaScripts -----------------------------
(***************************************************************************)
(* The five check scripts of throttlekit/_scripts, which Redis runs        *)
(* atomically for RedisBackend.check, as pure operators.                   *)
(*                                                                         *)
(* The data of a key is a set: {} when the key is missing, one record or   *)
(* number for the scripts that keep one value, the fields of the hash or   *)
(* the members of the sorted set for the others.  A script takes the data, *)
(* the instant and the cost to a verdict: the reply tuple (without its     *)
(* constant limit field), the data it leaves and the time to live it sets, *)
(* 0 where it sets none.                                                   *)
(*                                                                         *)
(* The scripts compute in doubles.  Here the arithmetic is exact: a        *)
(* fraction is an integer scaled by its denominator, and floor and ceil    *)
(* round where the scripts round.                                          *)
(***************************************************************************)
EXTENDS Integers, FiniteSets, FiniteSetsExt, Functions

CONSTANTS
  Limit,         \* the limit; the burst of gcra, the capacity of tokenBucket
  WindowMs,      \* the window of the three window strategies
  Buckets,       \* the buckets of slidingWindow, which divide its window
  PeriodMs,      \* gcra: Cells units drain in PeriodMs
  Cells,
  RefillTokens,  \* tokenBucket: RefillTokens are refilled in RefillMs
  RefillMs

ASSUME ScriptAssumption ==
  /\ Limit \in Nat \ {0}
  /\ {WindowMs, Buckets, PeriodMs, Cells, RefillTokens, RefillMs} \subseteq Nat \ {0}
  /\ WindowMs % Buckets = 0

\* Fault: rounded down.
CeilDivFloor(a, b) == a \div b

CeilDiv(a, b) == - ((- a) \div b)

The(d) == CHOOSE x \in d : TRUE

AtLeast(floor, n) == Max({floor, n})

Allow(remaining, resetAt, data, px) ==
  [allowed |-> TRUE, remaining |-> AtLeast(0, remaining), resetAt |-> resetAt,
   retryAfter |-> 0, data |-> data, px |-> px]

Deny(remaining, resetAt, retryAfter, data) ==
  [allowed |-> FALSE, remaining |-> AtLeast(0, remaining), resetAt |-> resetAt,
   retryAfter |-> retryAfter, data |-> data, px |-> 0]

-----------------------------------------------------------------------------
(* fixedWindow: the window's start and the units counted in it.            *)

Counted(d, start) == IF \E h \in d : h.start = start THEN The(d).count ELSE 0

FixedWindow(d, now, cost) ==
  LET start   == (now \div WindowMs) * WindowMs
      resetAt == start + WindowMs
      count   == Counted(d, start)
  IN IF count + cost <= Limit
     THEN Allow(Limit - (count + cost), resetAt,
                {[start |-> start, count |-> count + cost]},
                AtLeast(1, resetAt - now))
     ELSE Deny(Limit - count, resetAt, resetAt - now, d)

-----------------------------------------------------------------------------
(* gcra: the theoretical arrival time, scaled by Cells.                    *)

\* Fault: an arrival time in the past is not brought up to now.
ArrivalTimeOld(d, now) == IF d = {} THEN now * Cells ELSE The(d)

ArrivalTime(d, now) == Max({now * Cells} \cup d)

Gcra(d, now, cost) ==
  LET tau     == PeriodMs * Limit
      at      == now * Cells
      tat     == ArrivalTime(d, now)
      newTat  == tat + PeriodMs * cost
      allowAt == newTat - tau
  IN IF at < allowAt
     THEN Deny((tau - (tat - at)) \div PeriodMs, CeilDiv(tat, Cells),
               CeilDiv(allowAt - at, Cells), d)
     ELSE Allow((tau - (newTat - at)) \div PeriodMs, CeilDiv(newTat, Cells),
                {newTat}, AtLeast(1, CeilDiv(newTat - at, Cells)))

-----------------------------------------------------------------------------
(* tokenBucket: the tokens, scaled by RefillMs, and when they were counted. *)

\* Fault: the bucket overflows its capacity.
TokensUncapped(d, now) ==
  IF d = {} THEN Limit * RefillMs
  ELSE The(d).tokens + AtLeast(0, now - The(d).last) * RefillTokens

Tokens(d, now) ==
  IF d = {} THEN Limit * RefillMs
  ELSE Min({Limit * RefillMs,
            The(d).tokens + AtLeast(0, now - The(d).last) * RefillTokens})

TokenBucket(d, now, cost) ==
  LET full   == Limit * RefillMs
      tokens == Tokens(d, now)
      left   == tokens - cost * RefillMs
  IN IF left >= 0
     THEN Allow(left \div RefillMs, now + CeilDiv(full - left, RefillTokens),
                {[tokens |-> left, last |-> now]},
                AtLeast(1, CeilDiv(full, RefillTokens)))
     ELSE Deny(tokens \div RefillMs, now + CeilDiv(full - tokens, RefillTokens),
               CeilDiv(- left, RefillTokens), d)

-----------------------------------------------------------------------------
(* slidingWindow: a count per bucket, in Buckets + 1 slots taken in turn.  *)

BucketMs == WindowMs \div Buckets

Slot(index) == index % (Buckets + 1)

\* getCount: a slot counts for the bucket it was last written for only.
CountOf(d, index) == SumFunctionOnSet([h \in d |-> h.count], {h \in d : h.index = index})

\* The buckets that lie whole in the window.
Counts(d, c) == [j \in (c - Buckets + 1) .. c |-> CountOf(d, j)]

\* Fault: the key lives for the window only.
LifetimeShort == WindowMs

\* How long the key lives after a write: the oldest bucket still weighs.
Lifetime == WindowMs + BucketMs

SlidingWindow(d, now, cost) ==
  LET c        == now \div BucketMs
      weight   == BucketMs - (now - c * BucketMs)          \* scaled by BucketMs
      full     == SumFunction(Counts(d, c))
      oldest   == CountOf(d, c - Buckets)
      estimate == full * BucketMs + oldest * weight         \* and so are these
      excess   == estimate + (cost - Limit) * BucketMs
      resetAt  == (c + 1) * BucketMs + WindowMs
  IN IF excess <= 0
     THEN Allow((- excess) \div BucketMs, resetAt,
                {h \in d : Slot(h.index) # Slot(c)}
                  \cup {[index |-> c, count |-> CountOf(d, c) + cost]},
                Lifetime)
     ELSE Deny((Limit * BucketMs - estimate) \div BucketMs, resetAt,
               AtLeast(1, IF oldest > 0 /\ excess <= oldest * weight
                          THEN CeilDiv(excess, oldest)
                          ELSE (c + 1) * BucketMs - now),
               d)

-----------------------------------------------------------------------------
(* slidingWindowLog: a member per unit, scored by its instant.             *)

\* Fault: the newest score, whatever the rank.
NewestScore(d, k) == Max({e.score : e \in d})

\* ZRANGE k - 1: the k-th smallest score.
NthScore(d, k) ==
  CHOOSE s \in {e.score : e \in d} :
    /\ Cardinality({e \in d : e.score < s}) < k
    /\ Cardinality({e \in d : e.score <= s}) >= k

\* Fault: the units of every call are numbered from one.
AddedFromOne(log, now, cost) == log \cup {[score |-> now, n |-> i] : i \in 1 .. cost}

\* ZADD: the members of one instant are told apart by the count they bring the
\* log to.
Added(log, now, cost) ==
  log \cup {[score |-> now, n |-> Cardinality(log) + i] : i \in 1 .. cost}

\* Fault: a unit exactly one window old still counts.
RecentLate(d, now) == {e \in d : e.score >= now - WindowMs}

\* ZREMRANGEBYSCORE drops what is a window old.
Recent(d, now) == {e \in d : e.score > now - WindowMs}

SlidingWindowLog(d, now, cost) ==
  LET log   == Recent(d, now)
      count == Cardinality(log)
      added == Added(log, now, cost)
      first(l) == IF l = {} THEN now ELSE NthScore(l, 1)
      k     == Min({count, AtLeast(1, count + cost - Limit)})
  IN IF count + cost <= Limit
     THEN Allow(Limit - (count + cost), first(added) + WindowMs, added, WindowMs)
     ELSE Deny(Limit - count, first(log) + WindowMs,
               IF count = 0 THEN WindowMs
               ELSE AtLeast(1, NthScore(log, k) + WindowMs - now),
               log)

-----------------------------------------------------------------------------

Kinds == {"fixedWindow", "gcra", "tokenBucket", "slidingWindow", "slidingWindowLog"}

\* The script a strategy of this kind runs.
Script(kind, d, now, cost) ==
  CASE kind = "fixedWindow"      -> FixedWindow(d, now, cost)
    [] kind = "gcra"             -> Gcra(d, now, cost)
    [] kind = "tokenBucket"      -> TokenBucket(d, now, cost)
    [] kind = "slidingWindow"    -> SlidingWindow(d, now, cost)
    [] kind = "slidingWindowLog" -> SlidingWindowLog(d, now, cost)
=============================================================================
