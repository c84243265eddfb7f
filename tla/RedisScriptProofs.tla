--------------------------- MODULE RedisScriptProofs ---------------------------
(***************************************************************************)
(* What the five scripts keep and promise, for any number of callers, any  *)
(* costs and every choice of the limit and the window: no strategy admits  *)
(* more than its ceiling, the fields of a reply say what the next scripts  *)
(* will answer, a key that expires takes nothing with it, and no field     *)
(* ever leaves its range.                                                  *)
(***************************************************************************)
EXTENDS RedisLimiterProofs, SumProofs

USE RedisAssumption

-----------------------------------------------------------------------------
(* No strategy admits more than its ceiling.                               *)

\* Where an instance runs on the server's clock, what is spent is spent by now.
SpentByNow ==
  /\ spent \in [Instants -> Nat]
  /\ \A i \in Instants : i > clock => spent[i] = 0

LEMMA SpanIsSummable ==
  ASSUME NEW f \in [Instants -> Nat], NEW i \in Nat, NEW j \in Int, j <= MaxTime
  PROVE  /\ i .. j \subseteq Instants
         /\ Summable(f, i .. j)
         /\ SumFunctionOnSet(f, i .. j) \in Nat
<1>1. IsFiniteSet(i .. j)
  BY FS_Interval
<1>2. i .. j \subseteq Instants
  BY DEF Instants
<1>3. \A k \in i .. j : f[k] \in Nat
  BY <1>2
<1>4. Summable(f, i .. j)
  BY <1>1, <1>3 DEF Summable
<1> QED
  BY <1>2, <1>4, SumIsNat

\* A span that begins after the last unit was spent has none.
LEMMA SpanIsEmpty ==
  ASSUME NEW f \in [Instants -> Nat], NEW now \in Int,
         \A k \in Instants : k > now => f[k] = 0,
         NEW i \in Nat, i > now, NEW j \in Int, j <= MaxTime
  PROVE  SumFunctionOnSet(f, i .. j) = 0
<1>1. \A k \in i .. j : f[k] = 0
  BY SpanIsSummable
<1>2. IsFiniteSet(i .. j)
  BY FS_Interval
<1> QED
  BY ONLY <1>1, <1>2, SumOfZeros

\* And a span that reaches beyond that has no more than up to then.
LEMMA SpanIsOver ==
  ASSUME NEW f \in [Instants -> Nat], NEW now \in Int, now <= MaxTime,
         \A k \in Instants : k > now => f[k] = 0,
         NEW i \in Nat, NEW j \in Int, now <= j, j <= MaxTime
  PROVE  SumFunctionOnSet(f, i .. j) = SumFunctionOnSet(f, i .. now)
<1> DEFINE rest == {k \in i .. j : k > now}
<1>1. /\ Summable(f, i .. j) /\ Summable(f, i .. now)
      /\ SumFunctionOnSet(f, i .. now) \in Nat
      /\ i .. j \subseteq Instants
  BY SpanIsSummable
<1>2. i .. j = (i .. now) \cup rest /\ (i .. now) \cap rest = {}
  OBVIOUS
<1>3. IsFiniteSet(rest) /\ \A k \in rest : f[k] = 0
  BY <1>1, FS_Subset DEF Summable
<1>4. Summable(f, rest) /\ SumFunctionOnSet(f, rest) = 0
  BY ONLY <1>3, SumOfZeros
<1>5. SumFunctionOnSet(f, (i .. now) \cup rest)
        = SumFunctionOnSet(f, i .. now) + SumFunctionOnSet(f, rest)
  BY ONLY <1>1, <1>2, <1>4, SumOfUnion
<1> HIDE DEF rest
<1>6. SumFunctionOnSet(f, i .. j) = SumFunctionOnSet(f, (i .. now) \cup rest)
  BY <1>2
<1> QED
  BY ONLY <1>1, <1>4, <1>5, <1>6

\* What a script does to the key, where it takes the server's time.
Ran(t) ==
  LET v == Script(kind, KeyAt(clock), clock, call[t].cost)
  IN /\ data' = v.data
     /\ expiry' = IF v.px > 0 THEN clock + v.px ELSE expiry
     /\ spent' = [spent EXCEPT ![clock] =
          spent[clock] + IF v.allowed THEN call[t].cost ELSE 0]
     /\ UNCHANGED <<kind, own, clock>>

Idles == UNCHANGED <<kind, own, clock, data, expiry, spent>>

Passes ==
  /\ clock < MaxTime
  /\ clock' = clock + 1
  /\ UNCHANGED <<kind, own, data, expiry, spent>>

\* Every step runs a script, lets time pass or leaves the key alone.
LEMMA KeySteps ==
  ASSUME KeyInv, ~ own, [Next]_vars
  PROVE  (\E t \in Tasks : Ran(t)) \/ Passes \/ Idles
<1> USE DEF setup, keyVars
<1>1. ASSUME NEW t \in Tasks, Run(t) PROVE Ran(t)
  <2>1. Now(call[t].now) = clock
    BY DEF Now, KeyInv
  <2> QED
    BY <1>1, <2>1 DEF Run, Ran
<1>2. ASSUME NEW t \in Tasks, NEW cost \in Costs, Check(t, cost) PROVE Idles
  BY <1>2 DEF Check, Idles
<1>3. ASSUME NEW t \in Tasks, EvalSha(t) \/ Eval(t) \/ Return(t) \/ Fails(t), ~ Run(t)
      PROVE  Idles
  BY <1>3 DEF EvalSha, Eval, Return, Fails, Over, Idles
<1>4. CASE Flush \/ UNCHANGED vars
  BY <1>4 DEF Flush, vars, Idles
<1>5. CASE Tick
  BY <1>5 DEF Tick, Passes
<1> QED
  BY <1>1, <1>2, <1>3, <1>4, <1>5 DEF Next

\* A script that ran adds the cost it admitted to the spans of that instant, and to
\* no other.
LEMMA SpentByRun ==
  ASSUME KeyInv, SpentByNow, NEW t \in Tasks, Ran(t),
         NEW i \in Nat, NEW j \in Int, j <= MaxTime
  PROVE  LET v == Script(kind, KeyAt(clock), clock, call[t].cost)
             n == IF v.allowed THEN call[t].cost ELSE 0
         IN /\ n \in Nat
            /\ SpentByNow'
            /\ SumFunctionOnSet(spent', i .. j)
                 = SumFunctionOnSet(spent, i .. j)
                     + IF i <= clock /\ clock <= j THEN n ELSE 0
<1> DEFINE v == Script(kind, KeyAt(clock), clock, call[t].cost)
           n == IF v.allowed THEN call[t].cost ELSE 0
<1>1. call[t].cost \in Nat /\ clock \in Instants
  BY DEF KeyInv
<1>2. n \in Nat
  BY <1>1
<1>3. spent' = [spent EXCEPT ![clock] = spent[clock] + n] /\ clock' = clock
  BY DEF Ran
<1> HIDE DEF n
<1>4. spent[clock] \in Nat /\ spent'[clock] = spent[clock] + n
        /\ spent' \in [Instants -> Nat]
        /\ \A k \in Instants \ {clock} : spent'[k] = spent[k]
  BY <1>1, <1>2, <1>3 DEF SpentByNow
<1>5. SpentByNow'
  BY <1>1, <1>3, <1>4 DEF SpentByNow, Instants
<1>6. /\ i .. j \subseteq Instants
      /\ Summable(spent, i .. j)
      /\ SumFunctionOnSet(spent, i .. j) \in Nat
  BY SpanIsSummable DEF SpentByNow
<1>7. CASE i <= clock /\ clock <= j
  <2>1. clock \in i .. j
    BY <1>1, <1>7 DEF Instants
  <2>2. spent'[clock] \in Nat /\ \A k \in (i .. j) \ {clock} : spent'[k] = spent[k]
    BY <1>2, <1>4, <1>6
  <2>3. SumFunctionOnSet(spent', i .. j)
          = SumFunctionOnSet(spent, i .. j) + (spent'[clock] - spent[clock])
    BY ONLY <1>6, <2>1, <2>2, SumWithOther
  <2> QED
    BY <1>2, <1>4, <1>5, <1>6, <1>7, <2>3 DEF n
<1>8. CASE ~ (i <= clock /\ clock <= j)
  <2>1. \A k \in i .. j : spent[k] = spent'[k]
    BY <1>1, <1>4, <1>6, <1>8 DEF Instants
  <2>2. SumFunctionOnSet(spent, i .. j) = SumFunctionOnSet(spent', i .. j)
    BY ONLY <1>6, <2>1, SumOfEqual
  <2> QED
    BY <1>2, <1>5, <1>6, <1>8, <2>2 DEF n
<1> QED
  BY <1>7, <1>8

LEMMA SetupStays ==
  ASSUME [Next]_vars
  PROVE  UNCHANGED <<kind, own>>
BY DEF Next, Check, EvalSha, Eval, Run, Return, Fails, Over, Flush, Tick, vars, setup

SpentInv == KeyInv /\ (~ own => SpentByNow)

LEMMA SpentStep ==
  ASSUME SpentInv, [Next]_vars
  PROVE  SpentInv'
<1>1. KeyInv'
  BY KeyStep DEF SpentInv
<1>2. own' = own
  BY SetupStays
<1>3. ASSUME ~ own PROVE SpentByNow'
  <2>1. KeyInv /\ SpentByNow /\ clock \in Instants
    BY <1>3 DEF SpentInv, KeyInv
  <2>2. ASSUME NEW t \in Tasks, Ran(t) PROVE SpentByNow'
    <3>1. 0 \in Nat /\ 0 \in Int /\ 0 <= MaxTime
      OBVIOUS
    <3> QED
      BY <2>1, <2>2, <3>1, SpentByRun
  <2>3. CASE Passes
    BY <2>1, <2>3 DEF Passes, SpentByNow, Instants
  <2>4. CASE Idles
    BY <2>1, <2>4 DEF Idles, SpentByNow
  <2> QED
    BY <1>3, <2>1, <2>2, <2>3, <2>4, KeySteps
<1> QED
  BY <1>1, <1>2, <1>3 DEF SpentInv

-----------------------------------------------------------------------------
(* What gcra and tokenBucket spend and give back.                          *)

\* The key as the next script finds it.
LEMMA KeyAfterRun ==
  ASSUME NEW t \in Tasks, Ran(t), KeyInv,
         LET v == Script(kind, KeyAt(clock), clock, call[t].cost)
         IN (v.px = 0 /\ v.data = KeyAt(clock)) \/ (v.px \in Int /\ v.px > 0)
  PROVE  KeyAt(clock)' = Script(kind, KeyAt(clock), clock, call[t].cost).data
<1> DEFINE v == Script(kind, KeyAt(clock), clock, call[t].cost)
<1>1. data' = v.data /\ expiry' = (IF v.px > 0 THEN clock + v.px ELSE expiry) /\ clock' = clock
  BY DEF Ran
<1>2. KeyAt(clock)' = IF clock < expiry' THEN v.data ELSE {}
  BY <1>1 DEF KeyAt
<1>3. clock \in Int /\ KeyAt(clock) = IF clock < expiry THEN data ELSE {}
  BY DEF KeyAt, KeyInv, Instants
<1> HIDE DEF v
<1>4. ASSUME v.px = 0 /\ v.data = KeyAt(clock) PROVE KeyAt(clock)' = v.data
  BY <1>1, <1>2, <1>3, <1>4
<1>5. ASSUME v.px \in Int /\ v.px > 0 PROVE KeyAt(clock)' = v.data
  BY <1>1, <1>2, <1>3, <1>5
<1> QED
  BY <1>4, <1>5 DEF v

LEMMA RoomIsFree ==
  ASSUME NEW d, IsArrival(d), NEW now \in Int,
         \A n \in d : n <= now * Cells + PeriodMs * Limit
  PROVE  Room(d, now) \in Nat /\ Room(d, now) <= PeriodMs * Limit
<1>1. /\ ArrivalTime(d, now) \in Int /\ now * Cells <= ArrivalTime(d, now)
      /\ ArrivalTime(d, now) = now * Cells \/ ArrivalTime(d, now) \in d
  BY ArrivalTimeIsLatest
<1>2. PeriodMs * Limit \in Nat /\ now * Cells \in Int
  BY Constants
<1> QED
  BY <1>1, <1>2 DEF Room

LEMMA GcraSpends ==
  ASSUME NEW d, IsArrival(d), NEW now \in Int, NEW cost \in Nat
  PROVE  LET v == Gcra(d, now, cost)
         IN /\ (v.px = 0 /\ v.data = d) \/ (v.px \in Int /\ v.px > 0)
            /\ Room(v.data, now) = Room(d, now) - PeriodMs * (IF v.allowed THEN cost ELSE 0)
<1> DEFINE v    == Gcra(d, now, cost)
           then == ArrivalTime(d, now) + PeriodMs * cost
<1>0. ArrivalTime(d, now) \in Int /\ ArrivalTime(d, now) >= now * Cells
  BY ArrivalTimeIsLatest, Constants
<1>1. /\ PeriodMs * cost \in Nat /\ PeriodMs * 0 = 0 /\ PeriodMs * Limit \in Nat
      /\ now * Cells \in Int
      /\ ArrivalTime(d, now) \in Int /\ ArrivalTime(d, now) >= now * Cells
  BY <1>0, Constants
<1>2. CASE now * Cells < AllowAt(d, now, cost)
  <2>1. ~ v.allowed /\ v.data = d /\ v.px = 0
    BY <1>2, GcraDenies
  <2>2. Room(d, now) \in Int
    BY <1>1 DEF Room
  <2> QED
    BY <1>1, <2>1, <2>2
<1>3. CASE ~ (now * Cells < AllowAt(d, now, cost))
  <2>1. /\ v.allowed /\ v.data = {then}
        /\ v.px = AtLeast(1, CeilDiv(then - now * Cells, Cells))
    BY <1>3, GcraAllows
  <2>2. then \in Int /\ then >= now * Cells
    BY <1>1
  <2>3. CeilDiv(then - now * Cells, Cells) \in Int
    BY <1>1, <2>2, CeilDivIsEnough, Constants
  <2>4. v.px \in Int /\ v.px > 0
    BY <2>1, <2>3, AtLeastOne
  <2>5. ArrivalTime({then}, now) = then
    <3> HIDE DEF then
    <3>1. IsArrival({then})
      BY <2>2 DEF IsArrival
    <3>2. /\ ArrivalTime({then}, now) \in Int
          /\ ArrivalTime({then}, now) = now * Cells \/ ArrivalTime({then}, now) \in {then}
          /\ ArrivalTime({then}, now) >= then
      BY <3>1, ArrivalTimeIsLatest
    <3> QED
      BY <1>1, <2>2, <3>2
  <2>6. Room(v.data, now) = Room(d, now) - PeriodMs * cost
    BY <1>1, <2>1, <2>5 DEF Room
  <2> QED
    BY <2>1, <2>4, <2>6
<1> QED
  BY <1>2, <1>3

LEMMA GcraDrains ==
  ASSUME NEW d, IsArrival(d), NEW lives \in Int, \A n \in d : n <= lives * Cells,
         NEW now \in Int
  PROVE  Room(IF now + 1 < lives THEN d ELSE {}, now + 1)
           <= Room(IF now < lives THEN d ELSE {}, now) + Cells
<1> DEFINE e == IF now < lives THEN d ELSE {}
           f == IF now + 1 < lives THEN d ELSE {}
<1>1. /\ now * Cells \in Int /\ (now + 1) * Cells = now * Cells + Cells
      /\ PeriodMs * Limit \in Int /\ Cells \in Nat
  BY Constants
<1>2. IsArrival(e) /\ IsArrival(f)
  BY DEF IsArrival
<1>3. /\ ArrivalTime(e, now) \in Int
      /\ ArrivalTime(e, now) = now * Cells \/ ArrivalTime(e, now) \in e
  BY <1>2, ArrivalTimeIsLatest
<1>4. /\ ArrivalTime(f, now + 1) \in Int /\ (now + 1) * Cells <= ArrivalTime(f, now + 1)
      /\ \A n \in f : ArrivalTime(f, now + 1) >= n
  BY <1>2, ArrivalTimeIsLatest
<1>5. ArrivalTime(e, now) <= ArrivalTime(f, now + 1)
  <2>1. CASE ArrivalTime(e, now) = now * Cells
    BY <1>1, <1>3, <1>4, <2>1
  <2>2. CASE ArrivalTime(e, now) \in e /\ now + 1 < lives
    BY <1>3, <1>4, <2>2
  <2>3. CASE ArrivalTime(e, now) \in e /\ ~ (now + 1 < lives)
    <3>1. ArrivalTime(e, now) <= lives * Cells
      BY <2>3
    <3>2. lives * Cells <= (now + 1) * Cells /\ lives * Cells \in Int
      BY <2>3, Constants
    <3> QED
      BY <1>1, <1>3, <1>4, <3>1, <3>2
  <2> QED
    BY <1>3, <2>1, <2>2, <2>3
<1> HIDE DEF e, f
<1>6. Room(f, now + 1) <= Room(e, now) + Cells
  BY <1>1, <1>3, <1>4, <1>5 DEF Room
<1> QED
  BY <1>6 DEF e, f

LEMMA BucketSpends ==
  ASSUME NEW d, NEW now \in Int, IsBucket(d, now), \A h \in d : h.tokens >= 0,
         NEW cost \in Nat
  PROVE  LET v == TokenBucket(d, now, cost)
         IN /\ (v.px = 0 /\ v.data = d) \/ (v.px \in Int /\ v.px > 0)
            /\ Tokens(v.data, now)
                 = Tokens(d, now) - RefillMs * (IF v.allowed THEN cost ELSE 0)
<1> DEFINE v    == TokenBucket(d, now, cost)
           left == Tokens(d, now) - cost * RefillMs
<1>1. /\ Tokens(d, now) \in Nat /\ Tokens(d, now) <= Limit * RefillMs
      /\ cost * RefillMs \in Nat /\ cost * RefillMs = RefillMs * cost
      /\ RefillMs * 0 = 0 /\ Limit * RefillMs \in Int
  BY TokensInBucket, Constants
<1>2. CASE ~ (left >= 0)
  <2>1. ~ v.allowed /\ v.data = d /\ v.px = 0
    BY <1>2, BucketDenies
  <2> QED
    BY <1>1, <2>1
<1>3. CASE left >= 0
  <2>1. /\ v.allowed /\ v.data = {[tokens |-> left, last |-> now]}
        /\ v.px = AtLeast(1, CeilDiv(Limit * RefillMs, RefillTokens))
    BY <1>3, BucketAllows
  <2>2. v.px \in Int /\ v.px > 0
    BY <1>1, <2>1, CeilDivIsEnough, AtLeastOne, Constants
  <2>3. left \in Nat /\ left <= Limit * RefillMs
    BY <1>1, <1>3
  <2>4. Tokens(v.data, now) = left
    BY <2>1, <2>3, TokensOfFresh
  <2> QED
    BY <1>1, <2>1, <2>2, <2>4
<1> QED
  BY <1>2, <1>3

LEMMA BucketRefills ==
  ASSUME NEW d, NEW now \in Int, IsBucket(d, now), NEW lives \in Int,
         \A h \in d : h.tokens >= 0 /\ Limit * RefillMs <= (lives - h.last) * RefillTokens
  PROVE  Tokens(IF now + 1 < lives THEN d ELSE {}, now + 1)
           <= Tokens(IF now < lives THEN d ELSE {}, now) + RefillTokens
<1> DEFINE e == IF now < lives THEN d ELSE {}
           f == IF now + 1 < lives THEN d ELSE {}
           full == Limit * RefillMs
<1>1. full \in Int /\ RefillTokens \in Nat
  BY Constants
<1>2. CASE d = {}
  <2>1. Tokens(e, now) = full /\ Tokens(f, now + 1) = full
    BY <1>2 DEF Tokens
  <2> QED
    BY <1>1, <2>1
<1>3. ASSUME NEW n \in Int, NEW l \in Int, l <= now, d = {[tokens |-> n, last |-> l]}
      PROVE  Tokens(f, now + 1) <= Tokens(e, now) + RefillTokens
  <2>1. n >= 0 /\ full <= (lives - l) * RefillTokens
    BY <1>3
  <2>2. /\ ((now + 1) - l) * RefillTokens = (now - l) * RefillTokens + RefillTokens
        /\ (now - l) * RefillTokens \in Int
    BY Constants
  <2>3. e = {} => Tokens(e, now) = full
    BY DEF Tokens
  <2>4. e = d => Tokens(e, now) \in {full, n + (now - l) * RefillTokens}
    BY <1>3, TokensOfKey
  <2>5. f = {} => Tokens(f, now + 1) = full
    BY DEF Tokens
  <2>6. /\ Tokens(d, now + 1) \in {full, n + ((now + 1) - l) * RefillTokens}
        /\ Tokens(d, now + 1) <= full
        /\ Tokens(d, now + 1) <= n + ((now + 1) - l) * RefillTokens
    <3>1. l <= now + 1 /\ now + 1 \in Int
      BY <1>3
    <3> QED
      BY ONLY <1>3, <3>1, n \in Int, l \in Int, TokensOfKey
  <2>7. e = d /\ f = {} => full <= ((now + 1) - l) * RefillTokens
    <3>1. CASE now + 1 < lives
      <4>1. f = d /\ d # {}
        BY <1>3, <3>1
      <4> QED
        BY <4>1
    <3>2. CASE ~ (now + 1 < lives)
      <4>1. lives - l <= (now + 1) - l
        BY <3>2
      <4>2. (lives - l) * RefillTokens <= ((now + 1) - l) * RefillTokens
        BY <4>1, Constants
      <4> QED
        BY <1>1, <2>1, <2>2, <4>2, Constants
    <3> QED
      BY <3>1, <3>2
  <2>8. e \in {d, {}} /\ f \in {d, {}}
    OBVIOUS
  <2> HIDE DEF e, f, full
  <2>9. CASE e = {}
    BY <1>1, <2>2, <2>3, <2>5, <2>6, <2>8, <2>9
  <2>10. CASE e = d
    BY <1>1, <2>1, <2>2, <2>4, <2>5, <2>6, <2>7, <2>8, <2>10
  <2> QED
    BY <2>8, <2>9, <2>10
<1> QED
  BY <1>2, <1>3 DEF IsBucket

-----------------------------------------------------------------------------
(* gcra and tokenBucket: the pace bounds every span, the one of the window too.*)

\* gcra and tokenBucket both pace what they admit: Unit is the price of one unit of
\* cost, Rate what an instant gives back, Free what may be spent now.
ByRate == kind \in {"gcra", "tokenBucket"}

Unit == IF kind = "gcra" THEN PeriodMs ELSE RefillMs

Rate == IF kind = "gcra" THEN Cells ELSE RefillTokens

FreeOf(d, now) == IF kind = "gcra" THEN Room(d, now) ELSE Tokens(d, now)

Free == FreeOf(KeyAt(clock), clock)

\* Up to now, what was spent since any instant and what is free now are no more than
\* the burst and what was given back since.
Paced ==
  \A i \in 0 .. clock :
    Unit * SpentIn(i, clock) + Free <= Unit * Limit + Rate * (clock - i)

RateCeiling ==
  \A i \in Instants : \A j \in i .. MaxTime :
    Unit * SpentIn(i, j) <= Unit * Limit + Rate * (j - i)

\* What the key keeps, in the terms of the pace.
FreeBounded == ByRate /\ ~ own => Free \in Nat /\ Free <= Unit * Limit

LEMMA FreeIsBounded == SpendInv => FreeBounded
<1> SUFFICES ASSUME SpendInv, ByRate, ~ own
             PROVE  Free \in Nat /\ Free <= Unit * Limit
  BY DEF FreeBounded
<1> DEFINE d == KeyAt(clock)
<1>1. clock \in Int /\ d \in {data, {}}
  BY DEF SpendInv, KeptInv, KeyInv, Instants, KeyAt
<1>2. CASE kind = "gcra"
  <2>1. IsArrival(d) /\ \A n \in d : n <= clock * Cells + PeriodMs * Limit
    BY <1>1, <1>2 DEF SpendInv, KeptInv, KeyInv, InReach, IsArrival
  <2> QED
    BY <1>1, <1>2, <2>1, RoomIsFree DEF Free, FreeOf, Unit
<1>3. CASE kind = "tokenBucket"
  <2>1. IsBucket(d, clock) /\ \A h \in d : h.tokens >= 0
    BY <1>1, <1>3 DEF SpendInv, KeptInv, KeyInv, IsBucket, KeepsBucket
  <2> QED
    BY <1>1, <1>3, <2>1, TokensInBucket DEF Free, FreeOf, Unit
<1> QED
  BY <1>2, <1>3 DEF ByRate

LEMMA FreeIsBoundedNext ==
  SpendInv' => FreeBounded'
BY FreeIsBounded, PTL

LEMMA FreeAfterRun ==
  ASSUME SpendInv, ByRate, ~ own, NEW t \in Tasks, Ran(t)
  PROVE  LET v == Script(kind, KeyAt(clock), clock, call[t].cost)
         IN Free' = Free - Unit * (IF v.allowed THEN call[t].cost ELSE 0)
<1> DEFINE d == KeyAt(clock)
           v == Script(kind, KeyAt(clock), clock, call[t].cost)
           n == IF v.allowed THEN call[t].cost ELSE 0
<1>1. /\ clock \in Int /\ d \in {data, {}} /\ call[t].cost \in Nat /\ KeyInv
      /\ kind' = kind /\ clock' = clock
  BY DEF SpendInv, KeptInv, KeyInv, Instants, KeyAt, Ran
<1>2. CASE kind = "gcra"
  <2>1. IsArrival(d)
    BY <1>1, <1>2 DEF KeyInv, IsArrival
  <2>2. v = Gcra(d, clock, call[t].cost)
    BY <1>2 DEF Script
  <2>3. /\ (v.px = 0 /\ v.data = d) \/ (v.px \in Int /\ v.px > 0)
        /\ Room(v.data, clock) = Room(d, clock) - PeriodMs * n
    BY <1>1, <2>1, <2>2, GcraSpends
  <2>4. KeyAt(clock)' = v.data
    BY <1>1, <2>3, KeyAfterRun
  <2> QED
    BY <1>1, <1>2, <2>3, <2>4 DEF Free, FreeOf, Unit
<1>3. CASE kind = "tokenBucket"
  <2>1. IsBucket(d, clock) /\ \A h \in d : h.tokens >= 0
    BY <1>1, <1>3 DEF SpendInv, KeptInv, KeyInv, IsBucket, KeepsBucket
  <2>2. v = TokenBucket(d, clock, call[t].cost)
    BY <1>3 DEF Script
  <2>3. /\ (v.px = 0 /\ v.data = d) \/ (v.px \in Int /\ v.px > 0)
        /\ Tokens(v.data, clock) = Tokens(d, clock) - RefillMs * n
    BY <1>1, <2>1, <2>2, BucketSpends
  <2>4. KeyAt(clock)' = v.data
    BY <1>1, <2>3, KeyAfterRun
  <2> QED
    BY <1>1, <1>3, <2>3, <2>4 DEF Free, FreeOf, Unit
<1> QED
  BY <1>2, <1>3 DEF ByRate

LEMMA FreeLater ==
  ASSUME SpendInv, ByRate, ~ own, Passes
  PROVE  Free' <= Free + Rate
<1>1. /\ clock \in Int /\ clock' = clock + 1
      /\ kind' = kind /\ data' = data /\ expiry' = expiry
  BY DEF SpendInv, KeptInv, KeyInv, Instants, Passes
<1>2. /\ KeyAt(clock) = (IF clock < expiry THEN data ELSE {})
      /\ KeyAt(clock)' = (IF clock + 1 < expiry THEN data ELSE {})
  BY <1>1 DEF KeyAt
<1>3. CASE kind = "gcra"
  <2>1. IsArrival(data) /\ expiry \in Int /\ \A n \in data : n <= expiry * Cells
    BY <1>3 DEF SpendInv, KeptInv, KeyInv, KeepsArrival
  <2>2. Room(KeyAt(clock)', clock + 1) <= Room(KeyAt(clock), clock) + Cells
    BY <1>1, <1>2, <2>1, GcraDrains
  <2> QED
    BY <1>1, <1>3, <2>2 DEF Free, FreeOf, Rate
<1>4. CASE kind = "tokenBucket"
  <2>1. /\ IsBucket(data, clock) /\ expiry \in Int
        /\ \A h \in data : h.tokens >= 0 /\ Limit * RefillMs <= (expiry - h.last) * RefillTokens
    BY <1>4 DEF SpendInv, KeptInv, KeyInv, KeepsBucket
  <2>2. Tokens(KeyAt(clock)', clock + 1) <= Tokens(KeyAt(clock), clock) + RefillTokens
    BY <1>1, <1>2, <2>1, BucketRefills
  <2> QED
    BY <1>1, <1>4, <2>2 DEF Free, FreeOf, Rate
<1> QED
  BY <1>3, <1>4 DEF ByRate

RateInv == SpendInv /\ SpentInv /\ (~ own /\ ByRate => Paced /\ RateCeiling)

LEMMA RatesAre ==
  ASSUME SpendInv
  PROVE  Unit \in Nat \ {0} /\ Rate \in Nat \ {0} /\ Limit \in Nat /\ Unit * Limit \in Nat
BY Constants DEF Unit, Rate

LEMMA PaceOfRun ==
  ASSUME RateInv, ByRate, ~ own, NEW t \in Tasks, Ran(t)
  PROVE  Paced'
<1> DEFINE v == Script(kind, KeyAt(clock), clock, call[t].cost)
           n == IF v.allowed THEN call[t].cost ELSE 0
<1>1. /\ SpendInv /\ KeyInv /\ SpentByNow /\ Paced
      /\ spent \in [Instants -> Nat]
      /\ clock \in Nat /\ clock <= MaxTime
      /\ clock' = clock /\ Unit' = Unit /\ Rate' = Rate
  BY DEF RateInv, SpentInv, SpendInv, KeptInv, KeyInv, SpentByNow, Ran, Instants, Unit, Rate
<1> SUFFICES ASSUME NEW i \in 0 .. clock
             PROVE  Unit * SumFunctionOnSet(spent', i .. clock) + Free'
                      <= Unit * Limit + Rate * (clock - i)
  BY <1>1 DEF Paced, SpentIn
<1>2. Unit * SumFunctionOnSet(spent, i .. clock) + Free <= Unit * Limit + Rate * (clock - i)
  BY <1>1 DEF Paced, SpentIn
<1>3. SumFunctionOnSet(spent, i .. clock) \in Nat
  BY <1>1, SpanIsSummable
<1>4. n \in Nat /\ SumFunctionOnSet(spent', i .. clock) = SumFunctionOnSet(spent, i .. clock) + n
  BY <1>1, SpentByRun
<1>5. Free' = Free - Unit * n /\ Free \in Nat
  BY <1>1, FreeAfterRun, FreeIsBounded DEF FreeBounded
<1>6. Unit \in Nat /\ Rate \in Nat /\ Unit * Limit \in Nat
  BY <1>1, RatesAre
<1> HIDE DEF n
<1>7. Unit * (SumFunctionOnSet(spent, i .. clock) + n)
        = Unit * SumFunctionOnSet(spent, i .. clock) + Unit * n
  BY <1>3, <1>4, <1>6
<1> QED
  <2>1. /\ Unit * n \in Nat /\ Unit * SumFunctionOnSet(spent, i .. clock) \in Nat
        /\ Rate * (clock - i) \in Int
    BY <1>1, <1>3, <1>4, <1>6
  <2> QED
    BY <1>2, <1>4, <1>5, <1>6, <1>7, <2>1

\* Any span is paced whose part up to now is.
LEMMA SpansArePaced ==
  ASSUME NEW f \in [Instants -> Nat], NEW now \in Instants,
         \A k \in Instants : k > now => f[k] = 0,
         NEW unit \in Nat, NEW rate \in Nat, NEW free \in Nat,
         NEW i \in Nat, i <= now, NEW j \in Int, now <= j, j <= MaxTime,
         unit * SumFunctionOnSet(f, i .. now) + free <= unit * Limit + rate * (now - i)
  PROVE  unit * SumFunctionOnSet(f, i .. j) <= unit * Limit + rate * (j - i)
<1>2. now \in Int /\ now <= MaxTime
  BY DEF Instants
<1>1. SumFunctionOnSet(f, i .. j) = SumFunctionOnSet(f, i .. now)
  BY <1>2, SpanIsOver
<1>3. SumFunctionOnSet(f, i .. now) \in Nat
  BY <1>2, SpanIsSummable
<1>4. rate * (now - i) <= rate * (j - i) /\ rate * (now - i) \in Int /\ rate * (j - i) \in Int
  BY <1>2, TimesIsMonotone
<1>5. unit * SumFunctionOnSet(f, i .. now) \in Nat /\ unit * Limit \in Nat
  BY <1>3, Constants
<1> QED
  BY <1>1, <1>4, <1>5

LEMMA RateStep ==
  ASSUME RateInv, SpendInv', SpentInv', [Next]_vars
  PROVE  RateInv'
<1>1. CASE own
  BY <1>1, SetupStays DEF RateInv
<1>2. CASE ~ own
  <2>0. SpendInv /\ KeyInv /\ SpentByNow /\ clock \in Instants
    BY <1>2 DEF RateInv, SpentInv, SpendInv, KeptInv, KeyInv
  <2>1. ASSUME NEW t \in Tasks, Ran(t) PROVE RateInv'
    <3>1. kind' = kind /\ own' = own /\ clock' = clock /\ Unit' = Unit /\ Rate' = Rate
            /\ (ByRate' <=> ByRate)
      BY <2>1 DEF Ran, Unit, Rate, ByRate
    <3>2. SpentByNow'
      BY <1>2, <3>1 DEF SpentInv
    <3>3. ASSUME ByRate PROVE Paced' /\ RateCeiling'
      <4>1. Paced' /\ RateCeiling
        BY <1>2, <2>1, <3>3, PaceOfRun DEF RateInv
      <4>2. /\ Free' \in Nat
            /\ Unit \in Nat /\ Rate \in Nat
            /\ spent' \in [Instants -> Nat]
            /\ \A k \in Instants : k > clock => spent'[k] = 0
        <5>1. Free' \in Nat
          <6>1. SpendInv' /\ ByRate' /\ ~ own' => Free' \in Nat /\ Free' <= Unit' * Limit
            BY FreeIsBoundedNext DEF FreeBounded
          <6> QED
            BY <1>2, <3>1, <3>3, <6>1
        <5> QED
          BY <2>0, <3>1, <3>2, <5>1, RatesAre DEF SpentByNow
      <4>3. ASSUME NEW i \in Instants, NEW j \in i .. MaxTime
            PROVE  Unit * SumFunctionOnSet(spent', i .. j) <= Unit * Limit + Rate * (j - i)
        <5>0. i \in Nat /\ j \in Int /\ i <= j /\ j <= MaxTime /\ clock \in Nat
          BY <2>0, <4>3 DEF Instants
        <5>1. CASE i <= clock /\ clock <= j
          <6>1. Unit * SumFunctionOnSet(spent', i .. clock) + Free'
                  <= Unit * Limit + Rate * (clock - i)
            BY <3>1, <4>1, <5>0, <5>1 DEF Paced, SpentIn
          <6> QED
            BY <2>0, <4>2, <5>0, <5>1, <6>1, SpansArePaced
        <5>2. CASE ~ (i <= clock /\ clock <= j)
          <6>1. SumFunctionOnSet(spent', i .. j) = SumFunctionOnSet(spent, i .. j) + 0
            BY <2>0, <2>1, <5>0, <5>2, SpentByRun
          <6>2. SumFunctionOnSet(spent, i .. j) \in Nat
            BY <2>0, <5>0, SpanIsSummable DEF SpentByNow
          <6>3. Unit * SumFunctionOnSet(spent, i .. j) <= Unit * Limit + Rate * (j - i)
            BY <4>1, <4>3 DEF RateCeiling, SpentIn
          <6> QED
            BY <6>1, <6>2, <6>3
        <5> QED
          BY <5>1, <5>2
      <4> QED
        BY <3>1, <4>1, <4>3 DEF RateCeiling, SpentIn
    <3> QED
      BY <3>1, <3>3 DEF RateInv
  <2>2. CASE Passes
    <3>1. kind' = kind /\ own' = own /\ clock' = clock + 1 /\ clock < MaxTime
            /\ spent' = spent /\ Unit' = Unit /\ Rate' = Rate /\ (ByRate' <=> ByRate)
      BY <2>2 DEF Passes, Unit, Rate, ByRate
    <3>3. ASSUME ByRate PROVE Paced' /\ RateCeiling'
      <4>1. Paced /\ RateCeiling
        BY <1>2, <3>3 DEF RateInv
      <4>2. RateCeiling'
        BY <3>1, <4>1 DEF RateCeiling, SpentIn
      <4>3. /\ Free' \in Nat /\ Free' <= Unit * Limit /\ Free' <= Free + Rate
            /\ Free \in Nat /\ Unit \in Nat /\ Rate \in Nat /\ Unit * Limit \in Nat
        <5>1. Free' \in Nat /\ Free' <= Unit' * Limit
          <6>1. SpendInv' /\ ByRate' /\ ~ own' => Free' \in Nat /\ Free' <= Unit' * Limit
            BY FreeIsBoundedNext DEF FreeBounded
          <6> QED
            BY <1>2, <3>1, <3>3, <6>1
        <5> QED
          BY <1>2, <2>0, <2>2, <3>1, <3>3, <5>1, RatesAre, FreeLater, FreeIsBounded DEF FreeBounded
      <4>4. ASSUME NEW i \in 0 .. clock + 1
            PROVE  Unit * SumFunctionOnSet(spent, i .. clock + 1) + Free'
                     <= Unit * Limit + Rate * ((clock + 1) - i)
        <5>0. clock \in Nat /\ clock + 1 <= MaxTime /\ i \in Nat /\ spent \in [Instants -> Nat]
          BY <2>0, <3>1 DEF Instants, SpentByNow
        <5>1. CASE i <= clock
          <6>1. SumFunctionOnSet(spent, i .. clock + 1) = SumFunctionOnSet(spent, i .. clock)
            BY <2>0, <5>0, SpanIsOver DEF SpentByNow
          <6>2. SumFunctionOnSet(spent, i .. clock) \in Nat
            BY <5>0, SpanIsSummable
          <6>3. Unit * SumFunctionOnSet(spent, i .. clock) + Free
                  <= Unit * Limit + Rate * (clock - i)
            BY <4>1, <5>0, <5>1 DEF Paced, SpentIn
          <6>4. /\ Rate * ((clock + 1) - i) = Rate * (clock - i) + Rate
                /\ Rate * (clock - i) \in Int
                /\ Unit * SumFunctionOnSet(spent, i .. clock) \in Nat
            BY <4>3, <5>0, <6>2
          <6> QED
            BY <4>3, <6>1, <6>3, <6>4
        <5>2. CASE i = clock + 1
          <6>1. SumFunctionOnSet(spent, i .. clock + 1) = 0
            <7>1. /\ clock \in Int /\ i > clock /\ clock + 1 \in Int
                  /\ \A k \in Instants : k > clock => spent[k] = 0
              BY <2>0, <5>0, <5>2 DEF SpentByNow
            <7> QED
              BY <5>0, <7>1, SpanIsEmpty
          <6>2. Unit * 0 = 0 /\ Rate * 0 = 0 /\ (clock + 1) - i = 0
            BY <4>3, <5>0, <5>2
          <6> QED
            BY <4>3, <6>1, <6>2
        <5> QED
          BY <5>0, <5>1, <5>2
      <4>5. Paced'
        BY <3>1, <4>4 DEF Paced, SpentIn
      <4> QED
        BY <4>2, <4>5
    <3> QED
      BY <3>1, <3>3 DEF RateInv
  <2>3. CASE Idles
    BY <2>3 DEF Idles, RateInv, ByRate, Paced, RateCeiling, Unit, Rate, Free,
                FreeOf, KeyAt, SpentIn
  <2> QED
    BY <1>2, <2>0, <2>1, <2>2, <2>3, KeySteps
<1> QED
  BY <1>1, <1>2

-----------------------------------------------------------------------------
(* fixedWindow: the counter holds what its window was admitted.            *)

LEMMA Windows == WindowMs \in Nat \ {0} /\ Limit \in Nat
BY ScriptAssumption

\* The window of an instant, by its start.
WindowOf(now) == (now \div WindowMs) * WindowMs

LEMMA WindowOfInstant ==
  ASSUME NEW now \in Nat
  PROVE  /\ now \div WindowMs \in Nat /\ WindowOf(now) \in Nat
         /\ WindowOf(now) <= now /\ now < WindowOf(now) + WindowMs
BY Windows DEF WindowOf

LEMMA WindowIsUnique ==
  ASSUME NEW k \in Nat, NEW q \in Nat, NEW now \in Nat,
         k * WindowMs <= now, now < k * WindowMs + WindowMs,
         q * WindowMs <= now, now < q * WindowMs + WindowMs
  PROVE  k = q
<1>1. ASSUME NEW x \in Nat, NEW y \in Nat, x < y
      PROVE  x * WindowMs + WindowMs <= y * WindowMs
  <2>1. x + 1 <= y
    BY <1>1
  <2>2. (x + 1) * WindowMs <= y * WindowMs
    BY <2>1, Windows
  <2> QED
    BY <2>2, Windows
<1>2. ~ (k < q)
  <2>1. k < q => k * WindowMs + WindowMs <= q * WindowMs
    BY <1>1
  <2> QED
    BY <2>1, Windows
<1>3. ~ (q < k)
  <2>1. q < k => q * WindowMs + WindowMs <= k * WindowMs
    BY <1>1
  <2> QED
    BY <2>1, Windows
<1> QED
  BY <1>2, <1>3

\* The key of fixedWindow holds one window that began, and lives until it is over.
IsWindow(d, now, lives) ==
  d = {} \/ \E s \in Int, n \in 0 .. Limit :
              s <= now /\ s + WindowMs <= lives /\ d = {[start |-> s, count |-> n]}

LEMMA CountedInKey ==
  ASSUME NEW d, NEW start,
         NEW s, NEW n, d = {[start |-> s, count |-> n]}
  PROVE  Counted(d, start) = IF s = start THEN n ELSE 0
<1>1. The(d) = [start |-> s, count |-> n]
  BY DEF The
<1> QED
  BY <1>1 DEF Counted

LEMMA CountedIsBounded ==
  ASSUME NEW d, NEW now, NEW lives, IsWindow(d, now, lives), NEW start
  PROVE  Counted(d, start) \in 0 .. Limit
<1>1. CASE d = {}
  BY <1>1, Windows DEF Counted
<1>2. CASE d # {}
  <2>1. PICK s \in Int, n \in 0 .. Limit : d = {[start |-> s, count |-> n]}
    BY <1>2 DEF IsWindow
  <2>2. Counted(d, start) = IF s = start THEN n ELSE 0
    BY <2>1, CountedInKey
  <2> QED
    BY <2>2, Windows
<1> QED
  BY <1>1, <1>2

LEMMA WindowSpends ==
  ASSUME NEW now \in Nat, NEW lives \in Int, NEW d, IsWindow(d, now, lives), NEW cost \in Nat
  PROVE  LET v == FixedWindow(d, now, cost)
             end == IF v.px > 0 THEN now + v.px ELSE lives
         IN /\ (v.px = 0 /\ v.data = d) \/ (v.px \in Int /\ v.px > 0)
            /\ end \in Int /\ IsWindow(v.data, now, end)
            /\ Counted(v.data, WindowOf(now))
                 = Counted(d, WindowOf(now)) + IF v.allowed THEN cost ELSE 0
<1> DEFINE v     == FixedWindow(d, now, cost)
           start == WindowOf(now)
           count == Counted(d, start)
           px    == AtLeast(1, (start + WindowMs) - now)
<1>1. start \in Nat /\ start <= now /\ now < start + WindowMs /\ WindowMs \in Nat /\ Limit \in Nat
  BY WindowOfInstant, Windows
<1>2. count \in 0 .. Limit
  BY CountedIsBounded
<1>3. CASE count + cost <= Limit
  <2>1. /\ v.allowed
        /\ v.data = {[start |-> start, count |-> count + cost]}
        /\ v.px = px
    BY <1>3 DEF FixedWindow, Allow, WindowOf
  <2>2. px \in Int /\ px >= (start + WindowMs) - now /\ px > 0
    BY <1>1, AtLeastOne
  <2>3. count + cost \in 0 .. Limit
    BY <1>1, <1>2, <1>3
  <2>4. Counted(v.data, start) = count + cost
    BY <2>1, CountedInKey
  <2> HIDE DEF v, start, count, px
  <2>5. now + px \in Int /\ start + WindowMs <= now + px
    BY <1>1, <2>2
  <2>6. IsWindow(v.data, now, now + px)
    BY <1>1, <2>1, <2>3, <2>5 DEF IsWindow
  <2> QED
    BY <2>1, <2>2, <2>4, <2>5, <2>6 DEF v, start, count
<1>4. CASE ~ (count + cost <= Limit)
  <2>1. ~ v.allowed /\ v.data = d /\ v.px = 0
    BY <1>4 DEF FixedWindow, Deny, WindowOf
  <2> QED
    BY <1>1, <1>2, <2>1
<1> QED
  BY <1>3, <1>4

\* What the current window admitted is counted in the key.
WindowCounted == SpentIn(WindowOf(clock), clock) <= Counted(KeyAt(clock), WindowOf(clock))

LastOf(k) == Min({MaxTime, (k + 1) * WindowMs - 1})

WindowCeiling ==
  \A k \in 0 .. (MaxTime \div WindowMs) : SpentIn(k * WindowMs, LastOf(k)) <= Limit

WindowInv ==
  /\ SpentInv
  /\ ~ own /\ kind = "fixedWindow" =>
       expiry \in Int /\ IsWindow(data, clock, expiry) /\ WindowCounted /\ WindowCeiling

LEMMA LastOfWindow ==
  ASSUME NEW k \in Nat
  PROVE  /\ LastOf(k) \in Int /\ LastOf(k) <= MaxTime
         /\ LastOf(k) < k * WindowMs + WindowMs
         /\ k * WindowMs \in Nat
<1>1. /\ (k + 1) * WindowMs - 1 \in Int /\ k * WindowMs \in Nat
      /\ (k + 1) * WindowMs = k * WindowMs + WindowMs
      /\ MaxTime \in Int
  BY Windows
<1>2. /\ LastOf(k) \in {MaxTime, (k + 1) * WindowMs - 1}
      /\ LastOf(k) <= MaxTime /\ LastOf(k) <= (k + 1) * WindowMs - 1
  BY <1>1, MinOfTwo DEF LastOf
<1> QED
  BY <1>1, <1>2, Windows

LEMMA WindowOfRun ==
  ASSUME WindowInv, SpentInv', ~ own, kind = "fixedWindow", NEW t \in Tasks, Ran(t)
  PROVE  WindowInv'
<1> DEFINE d     == KeyAt(clock)
           v     == Script(kind, KeyAt(clock), clock, call[t].cost)
           n     == IF v.allowed THEN call[t].cost ELSE 0
           start == WindowOf(clock)
<1>1. /\ KeyInv /\ SpentByNow /\ SpentByNow' /\ IsWindow(data, clock, expiry) /\ expiry \in Int
      /\ WindowCounted /\ WindowCeiling
      /\ clock \in Nat /\ clock <= MaxTime /\ clock' = clock /\ kind' = kind /\ own' = own
      /\ call[t].cost \in Nat /\ d \in {data, {}}
      /\ data' = v.data /\ expiry' = IF v.px > 0 THEN clock + v.px ELSE expiry
  BY DEF WindowInv, SpentInv, KeyInv, Ran, Instants, KeyAt
<1>2. v = FixedWindow(d, clock, call[t].cost) /\ IsWindow(d, clock, expiry)
  BY <1>1 DEF Script, IsWindow
<1>3. /\ (v.px = 0 /\ v.data = d) \/ (v.px \in Int /\ v.px > 0)
      /\ expiry' \in Int /\ IsWindow(data', clock, expiry')
      /\ Counted(v.data, start) = Counted(d, start) + n
  BY <1>1, <1>2, WindowSpends
<1>4. KeyAt(clock)' = v.data
  BY <1>1, <1>3, KeyAfterRun
<1>5. start \in Nat /\ start <= clock /\ Counted(d, start) \in Nat
  BY <1>1, <1>2, WindowOfInstant, CountedIsBounded, Windows
<1>6. n \in Nat /\ SumFunctionOnSet(spent', start .. clock)
                     = SumFunctionOnSet(spent, start .. clock) + n
  BY <1>1, <1>5, SpentByRun
<1>7. SumFunctionOnSet(spent', start .. clock) <= Counted(v.data, start)
  <2>1. SumFunctionOnSet(spent, start .. clock) <= Counted(d, start)
    BY <1>1 DEF WindowCounted, SpentIn
  <2>2. SumFunctionOnSet(spent, start .. clock) \in Nat
    <3>1. spent \in [Instants -> Nat] /\ clock \in Int /\ clock <= MaxTime /\ start \in Nat
      BY <1>1, <1>5 DEF SpentByNow
    <3> QED
      BY <3>1, SpanIsSummable
  <2> HIDE DEF n, v, d, start
  <2> QED
    BY <1>3, <1>5, <1>6, <2>1, <2>2
<1>8. WindowCounted'
  BY <1>1, <1>4, <1>7 DEF WindowCounted, SpentIn, WindowOf
<1>9. ASSUME NEW k \in 0 .. (MaxTime \div WindowMs)
      PROVE  SumFunctionOnSet(spent', k * WindowMs .. LastOf(k)) <= Limit
  <2>0. k \in Nat /\ spent' \in [Instants -> Nat]
    BY <1>1 DEF SpentByNow
  <2>1. /\ LastOf(k) \in Int /\ LastOf(k) <= MaxTime
        /\ LastOf(k) < k * WindowMs + WindowMs
        /\ k * WindowMs \in Nat
    BY <2>0, LastOfWindow
  <2>2. CASE k * WindowMs <= clock /\ clock <= LastOf(k)
    <3>1. k * WindowMs = start
      <4>1. clock \div WindowMs \in Nat /\ clock < start + WindowMs
        BY <1>1, WindowOfInstant
      <4>2. k = clock \div WindowMs
        <5>1. clock \in Nat /\ start = (clock \div WindowMs) * WindowMs /\ start <= clock
          BY <1>1, WindowOfInstant DEF WindowOf
        <5>2. clock < k * WindowMs + WindowMs
          BY <2>0, <2>1, <2>2, <5>1, Windows
        <5>3. (clock \div WindowMs) * WindowMs <= clock
          BY <5>1
        <5>4. clock < (clock \div WindowMs) * WindowMs + WindowMs
          BY <4>1, <5>1
        <5> QED
          BY ONLY <2>0, <2>2, <4>1, <5>1, <5>2, <5>3, <5>4, WindowIsUnique
      <4> QED
        BY <4>2 DEF WindowOf
    <3>2. SumFunctionOnSet(spent', start .. LastOf(k)) = SumFunctionOnSet(spent', start .. clock)
      BY <1>1, <1>5, <2>0, <2>1, <2>2, SpanIsOver DEF SpentByNow
    <3>3. Counted(v.data, start) \in 0 .. Limit
      BY <1>1, <1>3, CountedIsBounded
    <3>4. SumFunctionOnSet(spent', start .. clock) \in Nat
      BY <1>1, <1>5, <2>0, SpanIsSummable
    <3> QED
      BY <1>7, <3>1, <3>2, <3>3, <3>4, Windows
  <2>3. CASE ~ (k * WindowMs <= clock /\ clock <= LastOf(k))
    <3>1. SumFunctionOnSet(spent', k * WindowMs .. LastOf(k))
            = SumFunctionOnSet(spent, k * WindowMs .. LastOf(k)) + 0
      BY <1>1, <2>1, <2>3, SpentByRun
    <3>2. SumFunctionOnSet(spent, k * WindowMs .. LastOf(k)) \in Nat
      BY <1>1, <2>1, SpanIsSummable DEF SpentByNow
    <3> QED
      BY <1>1, <3>1, <3>2 DEF WindowCeiling, SpentIn
  <2> QED
    BY <2>2, <2>3
<1>10. WindowCeiling'
  BY <1>9 DEF WindowCeiling, SpentIn, LastOf
<1> QED
  BY <1>1, <1>3, <1>8, <1>10 DEF WindowInv

LEMMA WindowLater ==
  ASSUME WindowInv, SpentInv', ~ own, kind = "fixedWindow", Passes
  PROVE  WindowInv'
<1> DEFINE start == WindowOf(clock)
           next  == WindowOf(clock + 1)
           d     == KeyAt(clock)
           e     == IF clock + 1 < expiry THEN data ELSE {}
<1>1. /\ SpentByNow /\ SpentByNow' /\ IsWindow(data, clock, expiry) /\ expiry \in Int
      /\ WindowCounted /\ WindowCeiling
      /\ clock \in Nat /\ clock + 1 <= MaxTime /\ clock' = clock + 1
      /\ kind' = kind /\ own' = own /\ data' = data /\ expiry' = expiry /\ spent' = spent
  BY DEF WindowInv, SpentInv, KeyInv, Passes, Instants
<1>2. IsWindow(data, clock + 1, expiry) /\ IsWindow(e, clock + 1, expiry)
  BY <1>1 DEF IsWindow
<1>3. /\ start \in Nat /\ start <= clock /\ clock < start + WindowMs
      /\ next \in Nat /\ next <= clock + 1 /\ clock + 1 < next + WindowMs
      /\ clock + 1 \in Nat
  BY <1>1, WindowOfInstant
<1>4. Counted(e, next) \in Nat
  BY <1>2, CountedIsBounded, Windows
<1>5. SumFunctionOnSet(spent, next .. clock + 1) <= Counted(e, next)
  <2>1. CASE clock < next
    <3>1. SumFunctionOnSet(spent, next .. clock + 1) = 0
      BY <1>1, <1>3, <2>1, SpanIsEmpty DEF SpentByNow
    <3> QED
      BY <1>4, <3>1
  <2>2. CASE next <= clock
    <3>1. next = start
      <4>1. clock \div WindowMs \in Nat /\ (clock + 1) \div WindowMs \in Nat
        BY <1>1, <1>3, WindowOfInstant
      <4>2. clock < next + WindowMs
        BY <1>1, <1>3, Windows
      <4>3. clock \div WindowMs = (clock + 1) \div WindowMs
        BY <1>1, <1>3, <2>2, <4>1, <4>2, WindowIsUnique DEF WindowOf
      <4> QED
        BY <4>3 DEF WindowOf
    <3>2. SumFunctionOnSet(spent, next .. clock + 1) = SumFunctionOnSet(spent, next .. clock)
      BY <1>1, <1>3, SpanIsOver DEF SpentByNow
    <3>3. SumFunctionOnSet(spent, start .. clock) <= Counted(d, start)
      BY <1>1 DEF WindowCounted, SpentIn
    <3>4. SumFunctionOnSet(spent, start .. clock) \in Nat
      BY <1>1, <1>3, SpanIsSummable DEF SpentByNow
    <3>5. Counted(d, start) = 0 \/ Counted(d, start) = Counted(e, start)
      <4>1. CASE data = {}
        BY <4>1 DEF KeyAt
      <4>2. CASE data # {}
        <5>1. PICK s \in Int, n \in 0 .. Limit :
                s + WindowMs <= expiry /\ data = {[start |-> s, count |-> n]}
          BY <1>1, <4>2 DEF IsWindow
        <5>2. CASE s = start
          <6>1. clock + 1 < expiry
            BY <1>1, <1>3, <3>1, <5>1, <5>2, Windows
          <6> QED
            BY <1>1, <6>1 DEF KeyAt
        <5>3. CASE s # start
          <6>1. Counted(data, start) = 0 /\ Counted({}, start) = 0
            BY <5>1, <5>3, CountedInKey DEF Counted
          <6> QED
            BY <6>1 DEF KeyAt
        <5> QED
          BY <5>2, <5>3
      <4> QED
        BY <4>1, <4>2
    <3> HIDE DEF d, e, start, next
    <3> QED
      BY <1>4, <3>1, <3>2, <3>3, <3>4, <3>5
  <2>3. clock < next \/ next <= clock
    BY <1>1, <1>3
  <2> QED
    BY <2>1, <2>2, <2>3
<1>6. WindowCounted'
  <2>1. KeyAt(clock)' = e
    BY <1>1 DEF KeyAt
  <2> QED
    BY <1>1, <1>5, <2>1 DEF WindowCounted, SpentIn, WindowOf
<1>7. WindowCeiling'
  BY <1>1 DEF WindowCeiling, SpentIn, LastOf
<1> QED
  BY <1>1, <1>2, <1>6, <1>7 DEF WindowInv

LEMMA WindowStep ==
  ASSUME WindowInv, SpentInv', [Next]_vars
  PROVE  WindowInv'
<1>1. CASE own \/ kind # "fixedWindow"
  BY <1>1, SetupStays DEF WindowInv
<1>2. CASE ~ own /\ kind = "fixedWindow"
  <2>1. KeyInv
    BY DEF WindowInv, SpentInv
  <2>2. CASE Idles
    BY <2>2 DEF Idles, WindowInv, WindowCounted, WindowCeiling, LastOf, SpentIn, KeyAt,
                WindowOf, IsWindow
  <2> QED
    BY <1>2, <2>1, <2>2, KeySteps, WindowOfRun, WindowLater
<1> QED
  BY <1>1, <1>2

-----------------------------------------------------------------------------
(* slidingWindowLog: the log holds what the window was admitted.           *)

\* The entries of a log no older than i.
Since(d, i) == {e \in d : e.score >= i}

\* The log of slidingWindowLog: a member per unit, of the past, numbered within its
\* instant by what the log held, no more than the limit of them in the window.
IsLog(d, now, lives) ==
  /\ IsFiniteSet(d)
  /\ \A e \in d : /\ e.score \in Int /\ e.n \in Int
                  /\ e.score <= now /\ e.score + WindowMs <= lives
                  /\ e.score = now => e.n <= Cardinality(Recent(d, now))
  /\ Cardinality(Recent(d, now)) <= Limit

LEMMA AddedAreNew ==
  ASSUME NEW now \in Int, NEW count \in Nat, NEW cost \in Nat
  PROVE  LET new == {[score |-> now, n |-> count + i] : i \in 1 .. cost}
         IN IsFiniteSet(new) /\ Cardinality(new) = cost
<1> DEFINE new == {[score |-> now, n |-> count + i] : i \in 1 .. cost}
           f   == [i \in 1 .. cost |-> [score |-> now, n |-> count + i]]
<1>1. f \in Bijection(1 .. cost, new)
  <2>1. f \in [1 .. cost -> new]
    OBVIOUS
  <2>2. \A i, j \in 1 .. cost : f[i] = f[j] => i = j
    <3> SUFFICES ASSUME NEW i \in 1 .. cost, NEW j \in 1 .. cost, f[i] = f[j] PROVE i = j
      OBVIOUS
    <3>1. f[i].n = count + i /\ f[j].n = count + j
      OBVIOUS
    <3> HIDE DEF f
    <3> QED
      BY <3>1
  <2>3. \A e \in new : \E i \in 1 .. cost : f[i] = e
    OBVIOUS
  <2> HIDE DEF f, new
  <2> QED
    BY <2>1, <2>2, <2>3 DEF Bijection, Injection, Surjection, IsInjective
<1>2. IsFiniteSet(1 .. cost) /\ Cardinality(1 .. cost) = cost
  BY FS_Interval
<1> HIDE DEF f, new
<1>3. IsFiniteSet(new) /\ Cardinality(new) = Cardinality(1 .. cost)
  BY <1>1, <1>2, FS_Bijection DEF ExistsBijection
<1> QED
  BY <1>2, <1>3 DEF new

LEMMA LogSpends ==
  ASSUME NEW now \in Nat, NEW lives \in Int, NEW d, IsLog(d, now, lives), NEW cost \in Nat
  PROVE  LET v   == SlidingWindowLog(d, now, cost)
             end == IF v.px > 0 THEN now + v.px ELSE lives
         IN /\ end \in Int /\ IsLog(v.data, now, end)
            /\ \A i \in Int :
                 i > now - WindowMs /\ i <= now =>
                   Cardinality(Since(v.data, i))
                     = Cardinality(Since(d, i)) + IF v.allowed THEN cost ELSE 0
<1> DEFINE v     == SlidingWindowLog(d, now, cost)
           log   == Recent(d, now)
           count == Cardinality(log)
           new   == {[score |-> now, n |-> count + i] : i \in 1 .. cost}
           added == log \cup new
<1>1. IsFiniteSet(log) /\ log \subseteq d /\ count \in Nat /\ WindowMs \in Nat \ {0} /\ Limit \in Nat
  <2>1. log \subseteq d
    BY DEF Recent
  <2>2. IsFiniteSet(log)
    BY <2>1, FS_Subset DEF IsLog
  <2> QED
    BY <2>1, <2>2, FS_CardinalityType, Windows
<1>2. \A i \in Int : i > now - WindowMs => Since(log, i) = Since(d, i)
  <2> SUFFICES ASSUME NEW i \in Int, i > now - WindowMs
               PROVE  Since(log, i) = Since(d, i)
    OBVIOUS
  <2>1. \A e \in d : e.score \in Int /\ (e.score >= i => e.score > now - WindowMs)
    BY <1>1 DEF IsLog
  <2> QED
    BY <2>1 DEF Since, Recent
<1>3. CASE count + cost <= Limit
  <2>1. v.allowed /\ v.data = added /\ v.px = WindowMs
    BY <1>3 DEF SlidingWindowLog, Allow, Added
  <2>2. IsFiniteSet(new) /\ Cardinality(new) = cost
    <3> HIDE DEF count
    <3>1. now \in Int
      OBVIOUS
    <3> QED
      BY ONLY <1>1, <3>1, cost \in Nat, AddedAreNew
  <2>3. \A e \in new : e.score = now /\ e.n \in Int /\ e.n > count /\ e.n <= count + cost
    BY <1>1
  <2>4. \A e \in log : /\ e.score \in Int /\ e.n \in Int /\ e.score <= now
                       /\ e.score > now - WindowMs
                       /\ e.score = now => e.n <= count
    BY <1>1 DEF IsLog, Recent
  <2> HIDE DEF v, log, count, new
  <2>5. log \cap new = {}
    BY <1>1, <2>3, <2>4
  <2>6. IsFiniteSet(added) /\ Cardinality(added) = count + cost
    <3>1. IsFiniteSet(log \cap new) /\ Cardinality(log \cap new) = 0
      BY <2>5, FS_EmptySet
    <3>2. Cardinality(added) = Cardinality(log) + Cardinality(new) - Cardinality(log \cap new)
      BY <1>1, <2>2, FS_Union
    <3>3. Cardinality(log) = count
      BY DEF count
    <3> QED
      BY <1>1, <2>2, <3>1, <3>2, <3>3, FS_Union
  <2>7. Recent(added, now) = added
    BY <1>1, <2>3, <2>4 DEF Recent
  <2>8. \A e \in added : /\ e.score \in Int /\ e.n \in Int
                         /\ e.score <= now /\ e.score + WindowMs <= now + WindowMs
                         /\ e.score = now => e.n <= count + cost
    BY <1>1, <2>3, <2>4
  <2>9. IsLog(added, now, now + WindowMs)
    BY <1>3, <2>6, <2>7, <2>8 DEF IsLog
  <2>10. ASSUME NEW i \in Int, i > now - WindowMs, i <= now
         PROVE  Cardinality(Since(added, i)) = Cardinality(Since(d, i)) + cost
    <3>1. Since(added, i) = Since(log, i) \cup new
      BY <2>3, <2>10 DEF Since
    <3>2. Since(log, i) \subseteq log
      BY DEF Since
    <3>3. IsFiniteSet(Since(log, i)) /\ Since(log, i) \cap new = {}
      BY <1>1, <2>5, <3>2, FS_Subset
    <3>4. Cardinality(Since(log, i) \cup new)
            = Cardinality(Since(log, i)) + Cardinality(new)
                - Cardinality(Since(log, i) \cap new)
      BY <2>2, <3>3, FS_Union
    <3>5. Cardinality(Since(log, i) \cap new) = 0 /\ Cardinality(Since(log, i)) \in Nat
      BY <3>3, FS_EmptySet, FS_CardinalityType
    <3>6. Since(log, i) = Since(d, i)
      BY <1>2, <2>10
    <3>7. Cardinality(Since(log, i) \cup new) = Cardinality(Since(log, i)) + cost
      BY <2>2, <3>4, <3>5
    <3> QED
      BY ONLY <3>1, <3>6, <3>7
  <2>11. v.px > 0 /\ now + v.px = now + WindowMs /\ now + WindowMs \in Int
    BY <1>1, <2>1
  <2> QED
    BY <2>1, <2>9, <2>10, <2>11 DEF v
<1>4. CASE ~ (count + cost <= Limit)
  <2>1. ~ v.allowed /\ v.data = log /\ v.px = 0
    BY <1>4 DEF SlidingWindowLog, Deny
  <2>2. Recent(log, now) = log
    BY DEF Recent
  <2>3. IsLog(log, now, lives)
    BY <1>1, <2>2 DEF IsLog
  <2>4. \A i \in Int : i > now - WindowMs => Cardinality(Since(d, i)) \in Nat
    BY <1>1, <1>2, FS_Subset, FS_CardinalityType DEF Since
  <2> HIDE DEF v, log
  <2> QED
    BY <1>2, <2>1, <2>3, <2>4 DEF v
<1> QED
  BY <1>3, <1>4

\* What was admitted within the window is in the log.
LogCounted ==
  \A i \in 0 .. clock :
    i > clock - WindowMs => SpentIn(i, clock) <= Cardinality(Since(data, i))

LogCeiling == \A i \in Instants : SpentIn(AtLeast(0, i - WindowMs + 1), i) <= Limit

LogInv ==
  /\ SpentInv
  /\ ~ own /\ kind = "slidingWindowLog" =>
       expiry \in Int /\ IsLog(data, clock, expiry) /\ LogCounted /\ LogCeiling

LEMMA SinceIsFinite ==
  ASSUME NEW d, IsFiniteSet(d), NEW i
  PROVE  IsFiniteSet(Since(d, i)) /\ Cardinality(Since(d, i)) \in Nat
<1>1. Since(d, i) \subseteq d
  BY DEF Since
<1> QED
  BY <1>1, FS_Subset, FS_CardinalityType

LEMMA AtLeastNought ==
  ASSUME NEW k \in Int
  PROVE  AtLeast(0, k) \in Nat /\ AtLeast(0, k) >= k
<1>1. Max({0, k}) \in {0, k} /\ Max({0, k}) >= 0 /\ Max({0, k}) >= k
  BY MaxOfTwo
<1> QED
  BY <1>1 DEF AtLeast

LEMMA EmptyLog ==
  ASSUME NEW now, NEW lives
  PROVE  IsLog({}, now, lives)
<1>1. Recent({}, now) = {}
  BY DEF Recent
<1>2. IsFiniteSet({}) /\ Cardinality({}) = 0
  BY FS_EmptySet
<1>3. Cardinality(Recent({}, now)) <= Limit
  BY <1>1, <1>2, Windows
<1> QED
  BY <1>2, <1>3, SMT DEF IsLog

LEMMA LogOfRun ==
  ASSUME LogInv, SpentInv', ~ own, kind = "slidingWindowLog", NEW t \in Tasks, Ran(t)
  PROVE  LogInv'
<1> DEFINE d     == KeyAt(clock)
           v     == Script(kind, KeyAt(clock), clock, call[t].cost)
           n     == IF v.allowed THEN call[t].cost ELSE 0
<1>1. /\ KeyInv /\ SpentByNow /\ SpentByNow' /\ IsLog(data, clock, expiry) /\ expiry \in Int
      /\ LogCounted /\ LogCeiling
      /\ clock \in Nat /\ clock <= MaxTime /\ clock' = clock /\ kind' = kind /\ own' = own
      /\ call[t].cost \in Nat /\ d = IF clock < expiry THEN data ELSE {}
      /\ data' = v.data /\ expiry' = IF v.px > 0 THEN clock + v.px ELSE expiry
      /\ spent \in [Instants -> Nat] /\ spent' \in [Instants -> Nat]
      /\ WindowMs \in Nat \ {0} /\ Limit \in Nat
  BY Windows DEF LogInv, SpentInv, KeyInv, Ran, Instants, KeyAt, SpentByNow
<1>2. v = SlidingWindowLog(d, clock, call[t].cost)
  BY DEF Script
<1>3. IsLog(d, clock, expiry)
  <2>1. IsLog({}, clock, expiry)
    BY EmptyLog
  <2> QED
    BY <1>1, <2>1
<1>4. /\ expiry' \in Int /\ IsLog(data', clock, expiry')
      /\ \A i \in Int : i > clock - WindowMs /\ i <= clock =>
           Cardinality(Since(data', i)) = Cardinality(Since(d, i)) + n
  BY <1>1, <1>2, <1>3, LogSpends
<1>5. ASSUME NEW i \in 0 .. clock, i > clock - WindowMs
      PROVE  SumFunctionOnSet(spent', i .. clock) <= Cardinality(Since(data', i))
  <2>1. SumFunctionOnSet(spent, i .. clock) <= Cardinality(Since(data, i))
    BY <1>1, <1>5 DEF LogCounted, SpentIn
  <2>2. Since(data, i) = Since(d, i)
    <3>1. CASE clock < expiry
      BY <1>1, <3>1
    <3>2. CASE ~ (clock < expiry)
      <4>1. \A e \in data : ~ (e.score >= i)
        BY <1>1, <1>5, <3>2 DEF IsLog
      <4>2. d = {}
        BY <1>1, <3>2
      <4> QED
        BY <4>1, <4>2 DEF Since
    <3> QED
      BY <3>1, <3>2
  <2>3. Cardinality(Since(data', i)) = Cardinality(Since(d, i)) + n
    BY <1>1, <1>4, <1>5
  <2>4. n \in Nat /\ SumFunctionOnSet(spent', i .. clock)
                       = SumFunctionOnSet(spent, i .. clock) + n
    BY <1>1, <1>5, SpentByRun
  <2>5. SumFunctionOnSet(spent, i .. clock) \in Nat /\ Cardinality(Since(d, i)) \in Nat
    <3>1. SumFunctionOnSet(spent, i .. clock) \in Nat
      BY <1>1, <1>5, SpanIsSummable
    <3>2. IsFiniteSet(d)
      BY <1>3 DEF IsLog
    <3> QED
      BY <3>1, <3>2, SinceIsFinite
  <2> HIDE DEF n, d
  <2> QED
    BY <2>1, <2>2, <2>3, <2>4, <2>5
<1>6. LogCounted'
  BY <1>1, <1>5 DEF LogCounted, SpentIn
<1>7. ASSUME NEW i \in Instants
      PROVE  SumFunctionOnSet(spent', AtLeast(0, i - WindowMs + 1) .. i) <= Limit
  <2> DEFINE from == AtLeast(0, i - WindowMs + 1)
  <2>1. i \in Nat /\ i <= MaxTime /\ i - WindowMs + 1 \in Int
    BY <1>1 DEF Instants
  <2>2. from \in Nat /\ from >= i - WindowMs + 1
    BY <2>1, AtLeastNought
  <2> HIDE DEF from
  <2>3. CASE from <= clock /\ clock <= i
    <3>1. from \in 0 .. clock /\ from > clock - WindowMs
      BY <1>1, <2>1, <2>2, <2>3
    <3>2. SumFunctionOnSet(spent', from .. i) = SumFunctionOnSet(spent', from .. clock)
      <4>1. /\ clock \in Int /\ clock <= MaxTime /\ i \in Int
            /\ \A k \in Instants : k > clock => spent'[k] = 0
        BY <1>1, <2>1 DEF SpentByNow
      <4>2. spent' \in [Instants -> Nat]
        BY <1>1
      <4> QED
        BY ONLY <2>1, <2>2, <2>3, <4>1, <4>2, SpanIsOver
    <3>3. SumFunctionOnSet(spent', from .. clock) <= Cardinality(Since(data', from))
      BY <1>5, <3>1
    <3>4. Cardinality(Since(data', from)) <= Cardinality(Recent(data', clock))
      <4>1. Since(data', from) \subseteq Recent(data', clock)
        <5>1. \A e \in data' : e.score \in Int
          BY <1>4 DEF IsLog
        <5>2. from \in Int /\ clock \in Int /\ WindowMs \in Int
          BY <1>1, <2>2
        <5> QED
          BY ONLY <3>1, <5>1, <5>2 DEF Since, Recent
      <4>2. Recent(data', clock) \subseteq data' /\ IsFiniteSet(data')
        BY <1>4 DEF Recent, IsLog
      <4> QED
        BY <4>1, <4>2, FS_Subset
    <3>5. /\ Cardinality(Recent(data', clock)) <= Limit
          /\ IsFiniteSet(data') /\ Recent(data', clock) \subseteq data'
      BY <1>4 DEF IsLog, Recent
    <3>6. /\ Cardinality(Since(data', from)) \in Nat
          /\ Cardinality(Recent(data', clock)) \in Nat
          /\ SumFunctionOnSet(spent', from .. clock) \in Nat
      <4>1. Cardinality(Recent(data', clock)) \in Nat
        BY <3>5, FS_Subset, FS_CardinalityType
      <4>2. spent' \in [Instants -> Nat] /\ clock \in Int /\ clock <= MaxTime
        BY <1>1
      <4>3. SumFunctionOnSet(spent', from .. clock) \in Nat
        BY ONLY <2>2, <4>2, SpanIsSummable
      <4> QED
        BY <3>5, <4>1, <4>3, SinceIsFinite
    <3> QED
      BY <1>1, <3>2, <3>3, <3>4, <3>5, <3>6 DEF from
  <2>4. CASE ~ (from <= clock /\ clock <= i)
    <3>1. SumFunctionOnSet(spent', from .. i) = SumFunctionOnSet(spent, from .. i) + 0
      BY <1>1, <2>1, <2>2, <2>4, SpentByRun
    <3>2. SumFunctionOnSet(spent, from .. i) \in Nat
      <4>1. spent \in [Instants -> Nat] /\ i \in Int
        BY <1>1, <2>1
      <4> QED
        BY ONLY <2>1, <2>2, <4>1, SpanIsSummable
    <3>3. SumFunctionOnSet(spent, from .. i) <= Limit
      BY <1>1 DEF LogCeiling, SpentIn, from
    <3> QED
      BY <3>1, <3>2, <3>3 DEF from
  <2> QED
    BY <2>3, <2>4
<1>8. LogCeiling'
  BY <1>7 DEF LogCeiling, SpentIn
<1> QED
  BY <1>1, <1>4, <1>6, <1>8 DEF LogInv

\* With time members leave the window, and none of the new instant is there yet.
LEMMA LogAges ==
  ASSUME NEW d, NEW at \in Nat, NEW lives \in Int, IsLog(d, at, lives)
  PROVE  IsLog(d, at + 1, lives)
<1>1. WindowMs \in Nat \ {0} /\ Limit \in Nat
  BY Windows
<1>2. Recent(d, at + 1) \subseteq Recent(d, at)
  <2>1. \A e \in d : e.score \in Int
    BY DEF IsLog
  <2>2. at \in Int /\ WindowMs \in Int
    BY <1>1
  <2> QED
    BY ONLY <2>1, <2>2 DEF Recent
<1>3. Recent(d, at) \subseteq d /\ IsFiniteSet(d)
  BY DEF Recent, IsLog
<1>4. /\ Cardinality(Recent(d, at + 1)) <= Cardinality(Recent(d, at))
      /\ Cardinality(Recent(d, at + 1)) \in Nat
      /\ Cardinality(Recent(d, at)) \in Nat
  BY <1>2, <1>3, FS_Subset, FS_CardinalityType
<1>5. \A e \in d : /\ e.score \in Int /\ e.n \in Int
                   /\ e.score <= at + 1 /\ e.score + WindowMs <= lives
                   /\ e.score # at + 1
  BY <1>1 DEF IsLog
<1>6. Cardinality(Recent(d, at)) <= Limit
  BY DEF IsLog
<1>7. Cardinality(Recent(d, at + 1)) <= Limit
  BY <1>1, <1>4, <1>6
<1> QED
  BY <1>3, <1>5, <1>7 DEF IsLog

LEMMA LogLater ==
  ASSUME LogInv, SpentInv', ~ own, kind = "slidingWindowLog", Passes
  PROVE  LogInv'
<1>1. /\ SpentByNow /\ SpentByNow' /\ IsLog(data, clock, expiry) /\ expiry \in Int
      /\ LogCounted /\ LogCeiling
      /\ clock \in Nat /\ clock + 1 <= MaxTime /\ clock' = clock + 1
      /\ kind' = kind /\ own' = own /\ data' = data /\ expiry' = expiry /\ spent' = spent
      /\ spent \in [Instants -> Nat] /\ WindowMs \in Nat \ {0} /\ Limit \in Nat
  BY Windows DEF LogInv, SpentInv, KeyInv, Passes, Instants, SpentByNow
<1>2. IsLog(data, clock + 1, expiry)
  BY <1>1, LogAges
<1>3. ASSUME NEW i \in 0 .. clock + 1, i > clock + 1 - WindowMs
      PROVE  SumFunctionOnSet(spent, i .. clock + 1) <= Cardinality(Since(data, i))
  <2>1. Cardinality(Since(data, i)) \in Nat
    BY <1>1, SinceIsFinite DEF IsLog
  <2>2. CASE i <= clock
    <3>1. SumFunctionOnSet(spent, i .. clock + 1) = SumFunctionOnSet(spent, i .. clock)
      BY <1>1, <1>3, SpanIsOver DEF SpentByNow
    <3>2. i \in 0 .. clock /\ i > clock - WindowMs
      BY <1>1, <1>3, <2>2
    <3> QED
      BY <1>1, <3>1, <3>2 DEF LogCounted, SpentIn
  <2>3. CASE i = clock + 1
    <3>1. /\ i \in Nat /\ i > clock /\ clock \in Int /\ clock + 1 \in Int
          /\ \A k \in Instants : k > clock => spent[k] = 0
      BY <1>1, <1>3, <2>3 DEF SpentByNow
    <3>2. SumFunctionOnSet(spent, i .. clock + 1) = 0
      BY <1>1, <3>1, SpanIsEmpty
    <3> QED
      BY <2>1, <3>2
  <2>4. i <= clock \/ i = clock + 1
    BY <1>1, <1>3
  <2> QED
    BY <2>2, <2>3, <2>4
<1>4. LogCounted'
  BY <1>1, <1>3 DEF LogCounted, SpentIn
<1>5. LogCeiling'
  BY <1>1 DEF LogCeiling, SpentIn
<1> QED
  BY <1>1, <1>2, <1>4, <1>5 DEF LogInv

LEMMA LogStep ==
  ASSUME LogInv, SpentInv', [Next]_vars
  PROVE  LogInv'
<1>1. CASE own \/ kind # "slidingWindowLog"
  BY <1>1, SetupStays DEF LogInv
<1>2. CASE ~ own /\ kind = "slidingWindowLog"
  <2>1. KeyInv
    BY DEF LogInv, SpentInv
  <2>2. CASE Idles
    BY <2>2 DEF Idles, LogInv, LogCounted, LogCeiling, SpentIn
  <2> QED
    BY <1>2, <2>1, <2>2, KeySteps, LogOfRun, LogLater
<1> QED
  BY <1>1, <1>2

-----------------------------------------------------------------------------
(* slidingWindow: the slots, and the bucket of an instant.                 *)

LEMMA BucketsFill ==
  /\ BucketMs \in Nat \ {0} /\ Buckets \in Nat \ {0} /\ WindowMs \in Nat \ {0}
  /\ Buckets * BucketMs = WindowMs
  /\ Lifetime = (Buckets + 1) * BucketMs
<1>1. WindowMs \in Nat \ {0} /\ Buckets \in Nat \ {0} /\ WindowMs % Buckets = 0
  BY ScriptAssumption
<1>2. BucketMs \in Nat /\ WindowMs = Buckets * BucketMs
  BY <1>1 DEF BucketMs
<1>3. BucketMs # 0
  <2>1. Buckets * 0 = 0
    BY <1>1
  <2> QED
    BY <1>1, <1>2, <2>1
<1>4. (Buckets + 1) * BucketMs = Buckets * BucketMs + BucketMs
  BY <1>1, <1>2
<1> QED
  BY <1>1, <1>2, <1>3, <1>4 DEF Lifetime

\* The bucket of an instant.
BucketOf(now) == now \div BucketMs

LEMMA BucketOfInstant ==
  ASSUME NEW now \in Nat
  PROVE  /\ BucketOf(now) \in Nat
         /\ BucketOf(now) * BucketMs <= now
         /\ now < BucketOf(now) * BucketMs + BucketMs
BY BucketsFill DEF BucketOf

LEMMA BucketBounds ==
  ASSUME NEW now \in Nat, NEW k \in Nat
  PROVE  /\ k * BucketMs <= now <=> k <= BucketOf(now)
         /\ now < k * BucketMs + BucketMs <=> BucketOf(now) <= k
<1> DEFINE c == BucketOf(now)
<1>1. /\ c \in Nat /\ c * BucketMs <= now /\ now < c * BucketMs + BucketMs
      /\ BucketMs \in Nat /\ c * BucketMs \in Nat /\ k * BucketMs \in Nat
  BY BucketOfInstant, BucketsFill
<1> HIDE DEF c
<1>2. ASSUME k <= c PROVE k * BucketMs <= c * BucketMs
  BY <1>1, <1>2
<1>3. ASSUME c <= k PROVE c * BucketMs <= k * BucketMs
  BY <1>1, <1>3
<1>4. ASSUME c < k PROVE c * BucketMs + BucketMs <= k * BucketMs
  <2>1. (c + 1) * BucketMs <= k * BucketMs
    BY <1>1, <1>4
  <2> QED
    BY <1>1, <2>1
<1>5. ASSUME k < c PROVE k * BucketMs + BucketMs <= c * BucketMs
  <2>1. (k + 1) * BucketMs <= c * BucketMs
    BY <1>1, <1>5
  <2> QED
    BY <1>1, <2>1
<1>6. k * BucketMs <= now <=> k <= c
  BY <1>1, <1>2, <1>4
<1>7. now < k * BucketMs + BucketMs <=> c <= k
  BY <1>1, <1>3, <1>5
<1> QED
  BY <1>6, <1>7 DEF c

LEMMA Division ==
  ASSUME NEW j \in Nat, NEW m \in Nat \ {0}
  PROVE  j \div m \in Nat /\ j % m \in Nat /\ j = m * (j \div m) + (j % m)
<1>1. j \div m \in Nat /\ j % m \in Nat
  OBVIOUS
<1>2. j = m * (j \div m) + (j % m)
  OBVIOUS
<1> QED
  BY <1>1, <1>2

\* Two buckets that share a slot are more than a window apart.
LEMMA SlotsAreApart ==
  ASSUME NEW j \in Nat, NEW c \in Nat, j < c, c - j <= Buckets
  PROVE  Slot(j) # Slot(c)
<1> DEFINE m == Buckets + 1
<1>1. m \in Nat \ {0} /\ c - j < m
  BY BucketsFill
<1> HIDE DEF m
<1>2. /\ j \div m \in Nat /\ c \div m \in Nat
      /\ j = m * (j \div m) + (j % m) /\ c = m * (c \div m) + (c % m)
      /\ j % m \in Nat /\ c % m \in Nat
  BY <1>1, Division
<1> SUFFICES ASSUME j % m = c % m PROVE FALSE
  BY DEF Slot, m
<1>3. PICK x \in Nat, y \in Nat : x = j \div m /\ y = c \div m
  BY <1>2
<1>4. c - j = m * y - m * x /\ m * x \in Nat /\ m * y \in Nat
  BY <1>1, <1>2, <1>3
<1>5. CASE y <= x
  <2>1. m * y <= m * x
    BY <1>1, <1>5
  <2> QED
    BY <1>4, <2>1
<1>6. CASE x < y
  <2>1. m * (x + 1) <= m * y /\ m * (x + 1) = m * x + m
    BY <1>1, <1>6
  <2> QED
    BY <1>1, <1>4, <2>1
<1> QED
  BY <1>5, <1>6

\* The slots of slidingWindow: counts of buckets that began, kept while they weigh.
IsSlots(d, now, lives) ==
  /\ IsFiniteSet(d)
  /\ \A h \in d : /\ h.index \in Nat /\ h.count \in Nat
                  /\ h.index <= BucketOf(now)
                  /\ (h.index + (Buckets + 1)) * BucketMs <= lives

LEMMA CountIsNat ==
  ASSUME NEW d, IsFiniteSet(d), \A h \in d : h.count \in Nat, NEW j
  PROVE  CountOf(d, j) \in Nat
<1> DEFINE S == {h \in d : h.index = j}
           f == [h \in d |-> h.count]
<1>1. IsFiniteSet(S) /\ \A h \in S : f[h] \in Nat
  BY FS_Subset
<1>2. Summable(f, S)
  BY <1>1 DEF Summable
<1> HIDE DEF f, S
<1>3. SumFunctionOnSet(f, S) \in Nat
  BY <1>2, SumIsNat
<1> QED
  BY <1>3 DEF CountOf, f, S

LEMMA CountOfNone ==
  ASSUME NEW d, NEW j, \A h \in d : h.index # j
  PROVE  CountOf(d, j) = 0
<1>1. {h \in d : h.index = j} = {}
  OBVIOUS
<1> QED
  BY <1>1, SumOfNone DEF CountOf

LEMMA CountOfSame ==
  ASSUME NEW d, NEW e, NEW j, IsFiniteSet(d), \A h \in d : h.count \in Nat,
         {h \in d : h.index = j} = {h \in e : h.index = j}
  PROVE  CountOf(d, j) = CountOf(e, j)
<1> DEFINE S == {h \in d : h.index = j}
           f == [h \in d |-> h.count]
           g == [h \in e |-> h.count]
<1>1. IsFiniteSet(S) /\ \A h \in S : f[h] \in Nat /\ f[h] = g[h]
  BY FS_Subset
<1>2. Summable(f, S)
  BY <1>1 DEF Summable
<1>3. CountOf(d, j) = SumFunctionOnSet(f, S) /\ CountOf(e, j) = SumFunctionOnSet(g, S)
  BY DEF CountOf
<1> HIDE DEF f, g, S
<1> QED
  BY <1>1, <1>2, <1>3, SumOfEqual

LEMMA CountOfOne ==
  ASSUME NEW d, NEW j, NEW h \in d, h.count \in Nat, {g \in d : g.index = j} = {h}
  PROVE  CountOf(d, j) = h.count
<1> DEFINE f == [g \in d |-> g.count]
<1>1. f[h] = h.count /\ CountOf(d, j) = SumFunctionOnSet(f, {h})
  BY DEF CountOf
<1> HIDE DEF f
<1>2. Summable(f, {h}) /\ h \in {h} /\ {h} \ {h} = {}
  BY <1>1, FS_Singleton DEF Summable
<1>3. SumFunctionOnSet(f, {h}) = f[h] + SumFunctionOnSet(f, {h} \ {h})
  BY ONLY <1>2, SumWithout
<1>4. SumFunctionOnSet(f, {h} \ {h}) = 0
  BY <1>2, SumOfNone
<1> QED
  BY ONLY <1>1, <1>3, <1>4, h.count \in Nat

LEMMA CountsAreSummable ==
  ASSUME NEW d, IsFiniteSet(d), \A h \in d : h.count \in Nat, NEW c \in Int,
         NEW i \in Int, i >= c - Buckets + 1
  PROVE  /\ \A j \in i .. c : Counts(d, c)[j] = CountOf(d, j)
         /\ Summable(Counts(d, c), i .. c)
         /\ SumFunctionOnSet(Counts(d, c), i .. c) \in Nat
<1>1. \A j \in i .. c : j \in (c - Buckets + 1) .. c
  BY BucketsFill
<1>2. \A j \in i .. c : Counts(d, c)[j] = CountOf(d, j)
  BY <1>1 DEF Counts
<1>3. \A j : CountOf(d, j) \in Nat
  BY CountIsNat
<1>4. IsFiniteSet(i .. c)
  BY FS_Interval
<1>5. Summable(Counts(d, c), i .. c)
  BY <1>2, <1>3, <1>4 DEF Summable
<1> QED
  BY <1>2, <1>5, SumIsNat

\* What the window holds, as the script adds it up.
InWindow(d, c) == SumFunction(Counts(d, c))

LEMMA WindowIsSpan ==
  ASSUME NEW d, NEW c \in Int
  PROVE  InWindow(d, c) = SumFunctionOnSet(Counts(d, c), (c - Buckets + 1) .. c)
BY DEF InWindow, SumFunction, Counts

\* A key that expired held nothing that would still count.
LEMMA DeadSlots ==
  ASSUME NEW now \in Nat, NEW lives \in Int, NEW d, IsSlots(d, now, lives),
         NEW j \in Int, j >= BucketOf(now) - Buckets
  PROVE  CountOf(IF now < lives THEN d ELSE {}, j) = CountOf(d, j)
<1>1. CASE now < lives
  BY <1>1
<1>2. CASE ~ (now < lives)
  <2>1. ASSUME NEW h \in d PROVE h.index # j
    <3>1. /\ h.index \in Nat
          /\ (h.index + (Buckets + 1)) * BucketMs <= now
      <4>1. h.index \in Nat /\ (h.index + (Buckets + 1)) * BucketMs <= lives
        BY DEF IsSlots
      <4>2. (h.index + (Buckets + 1)) * BucketMs \in Int
        BY <4>1, BucketsFill
      <4> QED
        BY <1>2, <4>1, <4>2
    <3>2. h.index + (Buckets + 1) \in Nat
      BY <3>1, BucketsFill
    <3>3. h.index + (Buckets + 1) <= BucketOf(now)
      BY <3>1, <3>2, BucketBounds
    <3> QED
      BY <3>1, <3>3, BucketOfInstant, BucketsFill
  <2>2. CountOf(d, j) = 0 /\ CountOf({}, j) = 0
    BY <2>1, CountOfNone
  <2> QED
    BY <1>2, <2>2
<1> QED
  BY <1>1, <1>2

-----------------------------------------------------------------------------
(* slidingWindow: what the script writes.                                  *)

\* What the script leaves in the slots when it admits a cost in bucket c.
Written(d, c, cost) ==
  {h \in d : Slot(h.index) # Slot(c)} \cup {[index |-> c, count |-> CountOf(d, c) + cost]}

LEMMA CountOfWritten ==
  ASSUME NEW d, IsFiniteSet(d), NEW c \in Nat, NEW cost \in Nat,
         \A h \in d : h.index \in Nat /\ h.count \in Nat /\ h.index <= c
  PROVE  /\ IsFiniteSet(Written(d, c, cost))
         /\ \A h \in Written(d, c, cost) : /\ h.index \in Nat /\ h.count \in Nat
                                           /\ h.index <= c
         /\ CountOf(Written(d, c, cost), c) = CountOf(d, c) + cost
         /\ \A j \in Int : j < c /\ j >= c - Buckets =>
              CountOf(Written(d, c, cost), j) = CountOf(d, j)
<1> DEFINE kept == {h \in d : Slot(h.index) # Slot(c)}
           new  == [index |-> c, count |-> CountOf(d, c) + cost]
           w    == kept \cup {new}
<1>1. CountOf(d, c) \in Nat
  BY CountIsNat
<1>2. new.index = c /\ new.count = CountOf(d, c) + cost /\ new.count \in Nat
  BY <1>1
<1>3. kept \subseteq d /\ \A h \in kept : h.index # c
  OBVIOUS
<1>4. Written(d, c, cost) = w
  BY DEF Written
<1>5. \A h \in d : Slot(h.index) = Slot(c) => ~ (h.index < c /\ h.index >= c - Buckets)
  <2> SUFFICES ASSUME NEW h \in d, h.index < c, h.index >= c - Buckets
               PROVE  Slot(h.index) # Slot(c)
    OBVIOUS
  <2>1. h.index \in Nat /\ c - h.index <= Buckets
    BY BucketsFill
  <2> QED
    BY <2>1, SlotsAreApart
<1>6. \A j \in Int : j < c /\ j >= c - Buckets => {h \in w : h.index = j} = {h \in d : h.index = j}
  <2> SUFFICES ASSUME NEW j \in Int, j < c, j >= c - Buckets
               PROVE  {h \in w : h.index = j} = {h \in d : h.index = j}
    OBVIOUS
  <2>1. \A h \in d : h.index = j => h \in kept
    BY <1>5
  <2>2. new.index # j
    BY <1>2
  <2> HIDE DEF kept, new
  <2> QED
    BY <1>3, <2>1, <2>2
<1> HIDE DEF kept, new
<1>7. IsFiniteSet(w)
  BY <1>3, FS_Subset, FS_AddElement
<1>8. \A h \in w : h.index \in Nat /\ h.count \in Nat /\ h.index <= c
  BY <1>2, <1>3
<1>9. CountOf(w, c) = CountOf(d, c) + cost
  <2>1. new \in w /\ {g \in w : g.index = c} = {new}
    BY <1>2, <1>3
  <2> HIDE DEF w
  <2>2. CountOf(w, c) = new.count
    BY ONLY <1>2, <2>1, CountOfOne
  <2> QED
    BY <1>2, <2>2
<1>10. ASSUME NEW j \in Int, j < c, j >= c - Buckets
       PROVE  CountOf(w, j) = CountOf(d, j)
  <2>1. {h \in w : h.index = j} = {h \in d : h.index = j}
    BY <1>6, <1>10
  <2>2. \A h \in w : h.count \in Nat
    BY <1>8
  <2> HIDE DEF w
  <2> QED
    BY ONLY <1>7, <2>1, <2>2, CountOfSame
<1> HIDE DEF w
<1> QED
  BY <1>4, <1>7, <1>8, <1>9, <1>10

\* And so the buckets since any within the window hold that much more.
LEMMA WindowOfWritten ==
  ASSUME NEW d, IsFiniteSet(d), NEW c \in Nat, NEW cost \in Nat,
         \A h \in d : h.index \in Nat /\ h.count \in Nat /\ h.index <= c,
         NEW i \in Int, i >= c - Buckets + 1, i <= c
  PROVE  SumFunctionOnSet(Counts(Written(d, c, cost), c), i .. c)
           = SumFunctionOnSet(Counts(d, c), i .. c) + cost
<1> DEFINE w == Written(d, c, cost)
           f == Counts(d, c)
           g == Counts(w, c)
<1>1. /\ IsFiniteSet(w) /\ \A h \in w : h.count \in Nat
      /\ CountOf(w, c) = CountOf(d, c) + cost
      /\ \A j \in Int : j < c /\ j >= c - Buckets => CountOf(w, j) = CountOf(d, j)
      /\ CountOf(d, c) \in Nat
  BY CountOfWritten, CountIsNat
<1>2. /\ Summable(f, i .. c) /\ SumFunctionOnSet(f, i .. c) \in Nat
      /\ \A j \in i .. c : f[j] = CountOf(d, j)
  BY CountsAreSummable
<1>3. \A j \in i .. c : g[j] = CountOf(w, j)
  <2> HIDE DEF w
  <2> QED
    BY <1>1, CountsAreSummable
<1> HIDE DEF w, f, g
<1>4. c \in i .. c /\ g[c] = f[c] + cost /\ g[c] \in Nat /\ f[c] \in Nat
  BY <1>1, <1>2, <1>3
<1>5. \A j \in (i .. c) \ {c} : g[j] = f[j]
  <2> SUFFICES ASSUME NEW j \in (i .. c) \ {c} PROVE g[j] = f[j]
    OBVIOUS
  <2>1. j \in Int /\ j < c /\ j >= c - Buckets
    BY BucketsFill
  <2> QED
    BY <1>1, <1>2, <1>3, <2>1
<1>6. SumFunctionOnSet(g, i .. c) = SumFunctionOnSet(f, i .. c) + (g[c] - f[c])
  BY ONLY <1>2, <1>4, <1>5, SumWithOther
<1>7. g[c] - f[c] = cost
  BY <1>4
<1>8. SumFunctionOnSet(g, i .. c) = SumFunctionOnSet(f, i .. c) + cost
  BY <1>6, <1>7
<1> QED
  BY <1>8 DEF f, g, w

LEMMA SlotsSpend ==
  ASSUME NEW now \in Nat, NEW lives \in Int, NEW d, IsSlots(d, now, lives), NEW cost \in Nat,
         InWindow(d, BucketOf(now)) <= Limit
  PROVE  LET v   == SlidingWindow(d, now, cost)
             end == IF v.px > 0 THEN now + v.px ELSE lives
             c   == BucketOf(now)
         IN /\ (v.px = 0 /\ v.data = d) \/ (v.px \in Int /\ v.px > 0)
            /\ end \in Int /\ IsSlots(v.data, now, end)
            /\ InWindow(v.data, c) <= Limit
            /\ \A i \in Int :
                 i >= c - Buckets + 1 /\ i <= c =>
                   SumFunctionOnSet(Counts(v.data, c), i .. c)
                     = SumFunctionOnSet(Counts(d, c), i .. c)
                         + IF v.allowed THEN cost ELSE 0
<1> DEFINE v      == SlidingWindow(d, now, cost)
           c      == BucketOf(now)
           full   == InWindow(d, c)
           oldest == CountOf(d, c - Buckets)
           weight == BucketMs - (now - c * BucketMs)
           estimate == full * BucketMs + oldest * weight
           excess == estimate + (cost - Limit) * BucketMs
<1>1. /\ c \in Nat /\ BucketMs \in Nat \ {0} /\ Buckets \in Nat \ {0} /\ Limit \in Nat
      /\ c * BucketMs <= now /\ now < c * BucketMs + BucketMs /\ c * BucketMs \in Nat
  BY BucketOfInstant, BucketsFill, Windows
<1>2. /\ IsFiniteSet(d)
      /\ \A h \in d : /\ h.index \in Nat /\ h.count \in Nat /\ h.index <= c
                      /\ (h.index + (Buckets + 1)) * BucketMs <= lives
  BY DEF IsSlots
<1>3. full \in Nat /\ oldest \in Nat /\ weight \in Nat
  <2>1. SumFunctionOnSet(Counts(d, c), (c - Buckets + 1) .. c) \in Nat
    <3> HIDE DEF c
    <3>1. c - Buckets + 1 \in Int /\ c \in Int /\ c - Buckets + 1 >= c - Buckets + 1
      BY <1>1
    <3>2. \A h \in d : h.count \in Nat
      BY <1>2
    <3> QED
      BY ONLY <1>2, <3>1, <3>2, CountsAreSummable
  <2>2. full \in Nat
    BY <1>1, <2>1, WindowIsSpan
  <2>3. oldest \in Nat
    BY <1>2, CountIsNat
  <2> HIDE DEF full, oldest, c
  <2> QED
    BY <1>1, <2>2, <2>3
<1>4. CASE excess <= 0
  <2>1. v.allowed /\ v.data = Written(d, c, cost) /\ v.px = Lifetime
    BY <1>4 DEF SlidingWindow, Allow, Written, BucketOf, InWindow
  <2>2. Lifetime \in Nat \ {0} /\ Lifetime = (Buckets + 1) * BucketMs
    BY BucketsFill
  <2>3. full + cost <= Limit
    <3> HIDE DEF full, oldest, weight
    <3>1. oldest * weight \in Nat
      BY <1>3
    <3>2. full * BucketMs + (cost - Limit) * BucketMs <= 0
      <4>1. full * BucketMs \in Int /\ (cost - Limit) * BucketMs \in Int
        BY <1>1, <1>3
      <4> QED
        BY <1>4, <3>1, <4>1
    <3>3. (full + (cost - Limit)) * BucketMs = full * BucketMs + (cost - Limit) * BucketMs
      BY <1>1, <1>3
    <3>4. full + (cost - Limit) <= 0
      BY <1>1, <1>3, <3>2, <3>3
    <3> QED
      BY <1>1, <1>3, <3>4
  <2>4. /\ IsFiniteSet(v.data)
        /\ \A h \in v.data : h.index \in Nat /\ h.count \in Nat /\ h.index <= c
    BY <1>1, <1>2, <2>1, CountOfWritten
  <2>5. \A i \in Int : i >= c - Buckets + 1 /\ i <= c =>
          SumFunctionOnSet(Counts(v.data, c), i .. c)
            = SumFunctionOnSet(Counts(d, c), i .. c) + cost
    <3> SUFFICES ASSUME NEW i \in Int, i >= c - Buckets + 1, i <= c
                 PROVE  SumFunctionOnSet(Counts(v.data, c), i .. c)
                          = SumFunctionOnSet(Counts(d, c), i .. c) + cost
      OBVIOUS
    <3> HIDE DEF v, c
    <3>1. \A h \in d : h.index \in Nat /\ h.count \in Nat /\ h.index <= c
      BY <1>2
    <3>2. c \in Nat /\ i >= c - Buckets + 1 /\ i <= c /\ i \in Int /\ cost \in Nat
      BY <1>1
    <3>3. SumFunctionOnSet(Counts(Written(d, c, cost), c), i .. c)
            = SumFunctionOnSet(Counts(d, c), i .. c) + cost
      BY ONLY <1>2, <3>1, <3>2, WindowOfWritten
    <3> QED
      BY <2>1, <3>3
  <2>6. InWindow(v.data, c) = full + cost
    <3>1. c - Buckets + 1 \in Int /\ c - Buckets + 1 <= c /\ c \in Int
      BY <1>1
    <3> HIDE DEF v, c
    <3> QED
      BY <2>5, <3>1, WindowIsSpan
  <2>7. \A h \in v.data : (h.index + (Buckets + 1)) * BucketMs <= now + Lifetime
    <3> SUFFICES ASSUME NEW h \in v.data
                 PROVE  (h.index + (Buckets + 1)) * BucketMs <= now + Lifetime
      OBVIOUS
    <3> HIDE DEF v, c
    <3>1. /\ (h.index + (Buckets + 1)) * BucketMs
               = h.index * BucketMs + (Buckets + 1) * BucketMs
          /\ h.index * BucketMs <= c * BucketMs
          /\ h.index * BucketMs \in Nat
      BY <1>1, <2>4
    <3> QED
      BY <1>1, <2>2, <3>1
  <2>8. now + Lifetime \in Int /\ v.px > 0 /\ v.px \in Int /\ (IF v.px > 0 THEN now + v.px ELSE lives) = now + Lifetime
    BY <2>1, <2>2
  <2>9. IsSlots(v.data, now, now + Lifetime)
    BY <2>4, <2>7 DEF IsSlots
  <2> HIDE DEF v, c, full
  <2>10. InWindow(v.data, c) <= Limit
    BY <2>3, <2>6
  <2> QED
    BY <2>1, <2>5, <2>8, <2>9, <2>10 DEF v, c
<1>5. CASE ~ (excess <= 0)
  <2>1. ~ v.allowed /\ v.data = d /\ v.px = 0
    BY <1>5 DEF SlidingWindow, Deny, BucketOf, InWindow
  <2>2. \A i \in Int : i >= c - Buckets + 1 => SumFunctionOnSet(Counts(d, c), i .. c) \in Nat
    BY <1>1, <1>2, CountsAreSummable
  <2> HIDE DEF v, c
  <2> QED
    BY <2>1, <2>2 DEF v, c
<1> QED
  BY <1>4, <1>5

-----------------------------------------------------------------------------
(* slidingWindow: the slots hold what their buckets were admitted.         *)

\* What was admitted since the start of a bucket of the window is in the slots.
SlotsCounted ==
  \A j \in 0 .. BucketOf(clock) :
    j >= BucketOf(clock) - Buckets + 1 =>
      SpentIn(j * BucketMs, clock)
        <= SumFunctionOnSet(Counts(data, BucketOf(clock)), j .. BucketOf(clock))

FirstBucket(c) == AtLeast(0, c - Buckets + 1)

EndOf(c) == Min({MaxTime, (c + 1) * BucketMs - 1})

SlotCeiling ==
  \A c \in 0 .. (MaxTime \div BucketMs) : SpentIn(FirstBucket(c) * BucketMs, EndOf(c)) <= Limit

SlotInv ==
  /\ SpentInv
  /\ ~ own /\ kind = "slidingWindow" =>
       /\ expiry \in Int /\ IsSlots(data, clock, expiry)
       /\ InWindow(data, BucketOf(clock)) <= Limit
       /\ SlotsCounted
       /\ SlotCeiling

LEMMA EndOfBucket ==
  ASSUME NEW c \in Nat
  PROVE  /\ EndOf(c) \in Int /\ EndOf(c) <= MaxTime
         /\ EndOf(c) < c * BucketMs + BucketMs
         /\ c * BucketMs \in Nat
<1>1. /\ (c + 1) * BucketMs - 1 \in Int /\ c * BucketMs \in Nat
      /\ (c + 1) * BucketMs = c * BucketMs + BucketMs
      /\ MaxTime \in Int
  BY BucketsFill
<1>2. /\ EndOf(c) \in {MaxTime, (c + 1) * BucketMs - 1}
      /\ EndOf(c) <= MaxTime /\ EndOf(c) <= (c + 1) * BucketMs - 1
  BY <1>1, MinOfTwo DEF EndOf
<1> QED
  BY <1>1, <1>2, BucketsFill

\* A part of the window holds no more than the window.
LEMMA PartOfWindow ==
  ASSUME NEW d, IsFiniteSet(d), \A h \in d : h.count \in Nat, NEW c \in Int,
         NEW i \in Int, i >= c - Buckets + 1
  PROVE  SumFunctionOnSet(Counts(d, c), i .. c) <= InWindow(d, c)
<1> DEFINE first == c - Buckets + 1
<1>1. first \in Int /\ first >= c - Buckets + 1
  BY BucketsFill
<1>2. /\ Summable(Counts(d, c), i .. c)
      /\ \A j \in i .. c : Counts(d, c)[j] = CountOf(d, j)
  BY CountsAreSummable
<1>3. Summable(Counts(d, c), first .. c)
  <2> HIDE DEF first
  <2> QED
    BY <1>1, CountsAreSummable
<1>4. i .. c \subseteq first .. c
  BY <1>1
<1>5. \A j \in i .. c : Counts(d, c)[j] <= Counts(d, c)[j]
  BY <1>2 DEF Summable
<1>6. SumFunctionOnSet(Counts(d, c), i .. c) <= SumFunctionOnSet(Counts(d, c), first .. c)
  <2> HIDE DEF first
  <2> QED
    BY ONLY <1>2, <1>3, <1>4, <1>5, SumIsMonotone
<1> QED
  BY <1>6, WindowIsSpan

LEMMA SlotsOfRun ==
  ASSUME SlotInv, SpentInv', ~ own, kind = "slidingWindow", NEW t \in Tasks, Ran(t)
  PROVE  SlotInv'
<1> DEFINE d == KeyAt(clock)
           v == Script(kind, KeyAt(clock), clock, call[t].cost)
           n == IF v.allowed THEN call[t].cost ELSE 0
           c == BucketOf(clock)
           held(k, i) == SumFunctionOnSet(Counts(k, c), i .. c)
<1>1. /\ KeyInv /\ SpentByNow /\ SpentByNow' /\ IsSlots(data, clock, expiry) /\ expiry \in Int
      /\ SlotsCounted /\ SlotCeiling /\ InWindow(data, c) <= Limit
      /\ clock' = clock /\ kind' = kind /\ own' = own
      /\ call[t].cost \in Nat /\ d = IF clock < expiry THEN data ELSE {}
      /\ data' = v.data /\ expiry' = IF v.px > 0 THEN clock + v.px ELSE expiry
  BY DEF SlotInv, SpentInv, KeyInv, Ran, KeyAt
<1>2. /\ clock \in Nat /\ clock \in Int /\ clock <= MaxTime
      /\ c \in Nat /\ Limit \in Nat /\ BucketMs \in Nat \ {0} /\ Buckets \in Nat \ {0}
  BY BucketOfInstant, BucketsFill, Windows DEF SlotInv, SpentInv, KeyInv, Instants
<1>3. spent \in [Instants -> Nat] /\ spent' \in [Instants -> Nat]
  BY <1>1 DEF SpentByNow
<1>4. v = SlidingWindow(d, clock, call[t].cost)
  BY DEF Script
<1>5. IsSlots(d, clock, expiry)
  <2>1. IsSlots({}, clock, expiry)
    BY FS_EmptySet DEF IsSlots
  <2> QED
    BY <1>1, <2>1
<1>6. /\ IsFiniteSet(data) /\ \A h \in data : h.count \in Nat
      /\ IsFiniteSet(d) /\ \A h \in d : h.count \in Nat
  BY <1>1, <1>5 DEF IsSlots
<1>7. ASSUME NEW i \in Int, i >= c - Buckets + 1
      PROVE  held(d, i) = held(data, i) /\ held(d, i) \in Nat
  <2>1. \A j \in i .. c : CountOf(d, j) = CountOf(data, j)
    <3> SUFFICES ASSUME NEW j \in i .. c PROVE CountOf(d, j) = CountOf(data, j)
      OBVIOUS
    <3>1. j \in Int /\ j >= c - Buckets
      BY <1>2, <1>7
    <3> QED
      BY <1>1, <1>2, <3>1, DeadSlots
  <2> HIDE DEF d, c
  <2>2. /\ Summable(Counts(d, c), i .. c) /\ held(d, i) \in Nat
        /\ \A j \in i .. c : Counts(d, c)[j] = CountOf(d, j)
    BY <1>2, <1>6, <1>7, CountsAreSummable
  <2>3. \A j \in i .. c : Counts(data, c)[j] = CountOf(data, j)
    <3>1. c \in Int /\ i \in Int
      BY <1>2
    <3> QED
      BY ONLY <1>6, <1>7, <3>1, CountsAreSummable
  <2>4. \A j \in i .. c : Counts(d, c)[j] = Counts(data, c)[j]
    BY <2>1, <2>2, <2>3
  <2>5. SumFunctionOnSet(Counts(d, c), i .. c) = SumFunctionOnSet(Counts(data, c), i .. c)
    BY ONLY <2>2, <2>4, SumOfEqual
  <2> QED
    BY <2>2, <2>5
<1>8. InWindow(d, c) <= Limit
  <2>1. c - Buckets + 1 \in Int /\ c - Buckets + 1 >= c - Buckets + 1 /\ c \in Int
    BY <1>2
  <2>2. held(d, c - Buckets + 1) = held(data, c - Buckets + 1)
    BY <1>7, <2>1
  <2> HIDE DEF d, c
  <2> QED
    BY <1>1, <2>1, <2>2, WindowIsSpan
<1>9. /\ (v.px = 0 /\ v.data = d) \/ (v.px \in Int /\ v.px > 0)
      /\ expiry' \in Int /\ IsSlots(data', clock, expiry')
      /\ InWindow(data', c) <= Limit
      /\ \A i \in Int : i >= c - Buckets + 1 /\ i <= c => held(data', i) = held(d, i) + n
  <2> DEFINE cost == call[t].cost
             end  == IF v.px > 0 THEN clock + v.px ELSE expiry
  <2>1. cost \in Nat /\ expiry \in Int
    BY <1>1
  <2> HIDE DEF d, cost, c, v
  <2>2. v = SlidingWindow(d, clock, cost)
    BY <1>4 DEF cost
  <2>3. /\ (v.px = 0 /\ v.data = d) \/ (v.px \in Int /\ v.px > 0)
        /\ end \in Int /\ IsSlots(v.data, clock, end)
        /\ InWindow(v.data, c) <= Limit
        /\ \A i \in Int : i >= c - Buckets + 1 /\ i <= c =>
             held(v.data, i) = held(d, i) + IF v.allowed THEN cost ELSE 0
    BY ONLY <1>2, <1>5, <1>8, <2>1, <2>2, SlotsSpend DEF c
  <2> QED
    BY <1>1, <2>3 DEF cost
<1>10. ASSUME NEW j \in 0 .. c, j >= c - Buckets + 1
       PROVE  /\ SumFunctionOnSet(spent', j * BucketMs .. clock) <= held(data', j)
              /\ SumFunctionOnSet(spent', j * BucketMs .. clock) \in Nat
              /\ held(data', j) \in Nat
  <2>1. j \in Nat /\ j \in Int /\ j <= c /\ j * BucketMs \in Nat
    BY <1>2, <1>10
  <2>2. j * BucketMs <= clock
    BY <1>2, <2>1, BucketBounds
  <2>3. SumFunctionOnSet(spent, j * BucketMs .. clock) <= held(data, j)
    BY <1>1, <1>10 DEF SlotsCounted, SpentIn
  <2>4. /\ n \in Nat
        /\ SumFunctionOnSet(spent', j * BucketMs .. clock)
             = SumFunctionOnSet(spent, j * BucketMs .. clock) + n
    BY <1>1, <1>2, <2>1, <2>2, SpentByRun
  <2>5. SumFunctionOnSet(spent, j * BucketMs .. clock) \in Nat
    BY ONLY <1>2, <1>3, <2>1, SpanIsSummable
  <2>6. held(d, j) = held(data, j) /\ held(d, j) \in Nat
    BY <1>7, <1>10, <2>1
  <2>7. held(data', j) = held(d, j) + n
    BY <1>9, <1>10, <2>1
  <2> HIDE DEF n, d, c, held
  <2> QED
    BY <2>3, <2>4, <2>5, <2>6, <2>7
<1>11. SlotsCounted'
  <2>1. BucketOf(clock)' = c
    BY <1>1 DEF BucketOf
  <2> QED
    BY <1>1, <1>10, <2>1 DEF SlotsCounted, SpentIn
<1>12. ASSUME NEW q \in 0 .. (MaxTime \div BucketMs)
       PROVE  SumFunctionOnSet(spent', FirstBucket(q) * BucketMs .. EndOf(q)) <= Limit
  <2> DEFINE first == FirstBucket(q)
             from  == FirstBucket(q) * BucketMs
             to    == EndOf(q)
  <2>1. q \in Nat /\ q - Buckets + 1 \in Int
    BY <1>2
  <2>2. first \in Nat /\ first >= q - Buckets + 1
    BY <2>1, AtLeastNought DEF FirstBucket
  <2>3. to \in Int /\ to <= MaxTime /\ to < q * BucketMs + BucketMs /\ q * BucketMs \in Nat
    BY <2>1, EndOfBucket
  <2>4. from \in Nat
    <3> HIDE DEF first
    <3>1. first * BucketMs \in Nat
      BY <1>2, <2>2
    <3> QED
      BY <3>1 DEF first
  <2>5. CASE from <= clock /\ clock <= to
    <3>1. first <= c
      BY <1>2, <2>2, <2>5, BucketBounds
    <3>2. c <= q
      <4>1. clock < q * BucketMs + BucketMs
        BY <1>2, <2>3, <2>5
      <4> QED
        BY <1>2, <2>1, <4>1, BucketBounds
    <3>3. first \in 0 .. c /\ first >= c - Buckets + 1
      <4> HIDE DEF first, c
      <4> QED
        BY <1>2, <2>1, <2>2, <3>1, <3>2
    <3>4. SumFunctionOnSet(spent', from .. to) = SumFunctionOnSet(spent', from .. clock)
      <4>1. \A k \in Instants : k > clock => spent'[k] = 0
        BY <1>1 DEF SpentByNow
      <4> HIDE DEF from, to
      <4> QED
        BY ONLY <1>2, <1>3, <2>3, <2>4, <2>5, <4>1, SpanIsOver
    <3>5. /\ SumFunctionOnSet(spent', from .. clock) <= held(data', first)
          /\ SumFunctionOnSet(spent', from .. clock) \in Nat
          /\ held(data', first) \in Nat
      <4> HIDE DEF held
      <4> QED
        BY <1>10, <3>3
    <3>6. held(data', first) <= InWindow(data', c) /\ InWindow(data', c) \in Nat
      <4>1. /\ IsFiniteSet(data') /\ \A h \in data' : h.count \in Nat
        BY <1>9 DEF IsSlots
      <4>2. first \in Int /\ c \in Int /\ c - Buckets + 1 \in Int
              /\ c - Buckets + 1 >= c - Buckets + 1
        BY <1>2, <2>2
      <4>3. held(data', c - Buckets + 1) \in Nat
        <5> HIDE DEF c
        <5> QED
          BY ONLY <4>1, <4>2, CountsAreSummable
      <4> HIDE DEF first, c
      <4> QED
        BY <3>3, <4>1, <4>2, <4>3, PartOfWindow, WindowIsSpan
    <3>7. InWindow(data', c) <= Limit
      BY <1>9
    <3> HIDE DEF from, to, first, c, held
    <3>8. SumFunctionOnSet(spent', from .. to) <= Limit
      BY <1>2, <3>4, <3>5, <3>6, <3>7
    <3> QED
      BY <3>8 DEF from, to
  <2>6. CASE ~ (from <= clock /\ clock <= to)
    <3>1. SumFunctionOnSet(spent', from .. to) = SumFunctionOnSet(spent, from .. to) + 0
      <4> HIDE DEF from, to
      <4> QED
        BY <1>1, <2>3, <2>4, <2>6, SpentByRun
    <3>2. SumFunctionOnSet(spent, from .. to) \in Nat
      <4> HIDE DEF from, to
      <4> QED
        BY ONLY <1>3, <2>3, <2>4, SpanIsSummable
    <3>3. SumFunctionOnSet(spent, from .. to) <= Limit
      BY <1>1 DEF SlotCeiling, SpentIn
    <3> QED
      BY <3>1, <3>2, <3>3
  <2> QED
    BY <2>5, <2>6
<1>13. SlotCeiling'
  BY <1>12 DEF SlotCeiling, SpentIn, FirstBucket, EndOf
<1>14. IsSlots(data, clock, expiry)' /\ (InWindow(data, BucketOf(clock)) <= Limit)'
  <2>1. BucketOf(clock)' = c
    BY <1>1 DEF BucketOf
  <2> QED
    BY <1>1, <1>9, <2>1
<1> QED
  BY <1>1, <1>9, <1>11, <1>13, <1>14 DEF SlotInv

\* When a bucket begins it holds nothing.
LEMMA NextBucket ==
  ASSUME NEW d, IsFiniteSet(d), NEW c \in Nat,
         \A h \in d : h.index \in Nat /\ h.count \in Nat /\ h.index <= c,
         NEW i \in Int, i >= (c + 1) - Buckets + 1, i <= c + 1
  PROVE  SumFunctionOnSet(Counts(d, c + 1), i .. c + 1) = SumFunctionOnSet(Counts(d, c), i .. c)
<1> DEFINE f == Counts(d, c)
           g == Counts(d, c + 1)
<1>0. /\ c \in Int /\ c + 1 \in Int /\ i >= c - Buckets + 1 /\ Buckets \in Nat
      /\ \A h \in d : h.count \in Nat
  BY BucketsFill
<1>1. /\ Summable(f, i .. c) /\ SumFunctionOnSet(f, i .. c) \in Nat
      /\ \A j \in i .. c : f[j] = CountOf(d, j)
  BY <1>0, CountsAreSummable
<1>2. \A j \in i .. c + 1 : g[j] = CountOf(d, j)
  BY ONLY <1>0, IsFiniteSet(d), i \in Int, i >= (c + 1) - Buckets + 1, CountsAreSummable
<1>3. CountOf(d, c + 1) = 0
  BY <1>0, CountOfNone
<1> HIDE DEF f, g
<1>4. i .. c + 1 = (i .. c) \cup {c + 1} /\ (i .. c) \cap {c + 1} = {}
  BY <1>0
<1>5. \A j \in i .. c : f[j] = g[j]
  BY <1>0, <1>1, <1>2
<1>6. SumFunctionOnSet(f, i .. c) = SumFunctionOnSet(g, i .. c)
  BY ONLY <1>1, <1>5, SumOfEqual
<1>7. Summable(g, i .. c)
  BY <1>1, <1>5 DEF Summable
<1>8. g[c + 1] = 0
  BY <1>2, <1>3, <1>4
<1>9. Summable(g, {c + 1}) /\ SumFunctionOnSet(g, {c + 1}) = 0
  <2>1. IsFiniteSet({c + 1}) /\ \A j \in {c + 1} : g[j] = 0
    BY <1>8, FS_Singleton
  <2> QED
    BY ONLY <2>1, SumOfZeros
<1>10. SumFunctionOnSet(g, (i .. c) \cup {c + 1})
         = SumFunctionOnSet(g, i .. c) + SumFunctionOnSet(g, {c + 1})
  BY ONLY <1>4, <1>7, <1>9, SumOfUnion
<1>11. SumFunctionOnSet(g, i .. c + 1) = SumFunctionOnSet(f, i .. c)
  <2>1. SumFunctionOnSet(g, i .. c + 1) = SumFunctionOnSet(g, (i .. c) \cup {c + 1})
    BY <1>4
  <2> QED
    BY ONLY <1>1, <1>6, <1>9, <1>10, <2>1
<1> QED
  BY <1>11 DEF f, g

LEMMA SlotsLater ==
  ASSUME SlotInv, SpentInv', ~ own, kind = "slidingWindow", Passes
  PROVE  SlotInv'
<1> DEFINE c == BucketOf(clock)
           e == BucketOf(clock + 1)
<1>1. /\ SpentByNow /\ IsSlots(data, clock, expiry) /\ expiry \in Int
      /\ SlotsCounted /\ SlotCeiling /\ InWindow(data, c) <= Limit
      /\ clock' = clock + 1 /\ kind' = kind /\ own' = own /\ data' = data
      /\ expiry' = expiry /\ spent' = spent
      /\ clock \in Nat /\ clock + 1 \in Nat /\ clock + 1 <= MaxTime
      /\ Limit \in Nat /\ BucketMs \in Nat \ {0} /\ Buckets \in Nat \ {0}
      /\ \A k \in Instants : k > clock => spent[k] = 0
  BY BucketsFill, Windows DEF SlotInv, SpentInv, KeyInv, Passes, Instants, SpentByNow
<1>2. spent \in [Instants -> Nat]
  BY <1>1 DEF SpentByNow
<1>3. c \in Nat /\ e \in Nat /\ c <= e /\ e <= c + 1
  <2>1. /\ c \in Nat /\ e \in Nat
        /\ c * BucketMs <= clock /\ clock < c * BucketMs + BucketMs
    BY <1>1, BucketOfInstant
  <2>2. c * BucketMs <= clock + 1 /\ c * BucketMs \in Nat
    BY <1>1, <2>1
  <2>3. clock + 1 < (c + 1) * BucketMs + BucketMs /\ c + 1 \in Nat
    <3>1. (c + 1) * BucketMs = c * BucketMs + BucketMs
      BY <1>1, <2>1
    <3> QED
      BY <1>1, <2>1, <2>2, <3>1
  <2>4. c <= e
    BY <1>1, <2>1, <2>2, BucketBounds
  <2>5. e <= c + 1
    BY <1>1, <2>3, BucketBounds
  <2> QED
    BY <2>1, <2>4, <2>5
<1>4. /\ IsFiniteSet(data)
      /\ \A h \in data : /\ h.index \in Nat /\ h.count \in Nat /\ h.index <= c
                         /\ (h.index + (Buckets + 1)) * BucketMs <= expiry
  BY <1>1 DEF IsSlots
<1>5. IsSlots(data, clock + 1, expiry)
  <2> HIDE DEF c, e
  <2>1. \A h \in data : h.index <= e
    BY <1>3, <1>4
  <2> QED
    BY <1>4, <2>1 DEF IsSlots, e
<1> DEFINE held(b, i) == SumFunctionOnSet(Counts(data, b), i .. b)
<1>6. \A i \in Int : i >= c - Buckets + 1 => held(c, i) \in Nat
  <2> SUFFICES ASSUME NEW i \in Int, i >= c - Buckets + 1 PROVE held(c, i) \in Nat
    OBVIOUS
  <2> HIDE DEF c
  <2>1. c \in Int /\ \A h \in data : h.count \in Nat
    BY <1>3, <1>4
  <2> QED
    BY ONLY <1>4, <2>1, i \in Int, i >= c - Buckets + 1, CountsAreSummable
\* The buckets that are still in the window hold what they held.
<1>7. \A i \in Int : i >= e - Buckets + 1 /\ i <= e => held(e, i) = held(c, i)
  <2> SUFFICES ASSUME NEW i \in Int, i >= e - Buckets + 1, i <= e
               PROVE  held(e, i) = held(c, i)
    OBVIOUS
  <2> HIDE DEF c, e
  <2>1. CASE e = c
    BY <2>1
  <2>2. CASE e = c + 1
    <3>1. /\ i >= (c + 1) - Buckets + 1 /\ i <= c + 1 /\ c \in Nat
          /\ \A h \in data : h.index \in Nat /\ h.count \in Nat /\ h.index <= c
      BY <1>3, <1>4, <2>2
    <3>2. held(c + 1, i) = held(c, i)
      BY ONLY <1>4, <3>1, i \in Int, NextBucket
    <3> QED
      BY <2>2, <3>2
  <2> QED
    BY <1>3, <2>1, <2>2
<1>8. InWindow(data, e) <= Limit
  <2> HIDE DEF c, e
  <2>1. e - Buckets + 1 \in Int /\ e - Buckets + 1 <= e /\ e - Buckets + 1 >= c - Buckets + 1
          /\ e \in Int /\ c \in Int /\ e - Buckets + 1 >= e - Buckets + 1
          /\ c - Buckets + 1 \in Int /\ c - Buckets + 1 >= c - Buckets + 1
    BY <1>1, <1>3
  <2>2. InWindow(data, e) = held(c, e - Buckets + 1)
    BY <1>7, <2>1, WindowIsSpan
  <2>3. held(c, e - Buckets + 1) <= InWindow(data, c)
    <3>1. \A h \in data : h.count \in Nat
      BY <1>4
    <3> QED
      BY ONLY <1>4, <2>1, <3>1, PartOfWindow
  <2>4. held(c, e - Buckets + 1) \in Nat /\ InWindow(data, c) \in Nat
    <3>1. held(c, c - Buckets + 1) \in Nat /\ held(c, e - Buckets + 1) \in Nat
      BY <1>6, <2>1
    <3> QED
      BY <2>1, <3>1, WindowIsSpan
  <2> HIDE DEF held
  <2> QED
    BY <1>1, <2>2, <2>3, <2>4
<1>9. ASSUME NEW j \in 0 .. e, j >= e - Buckets + 1
      PROVE  SumFunctionOnSet(spent, j * BucketMs .. clock + 1) <= held(e, j)
  <2>0. j \in Nat /\ j \in Int /\ j <= e /\ j >= c - Buckets + 1
    <3> HIDE DEF c, e
    <3> QED
      BY <1>1, <1>3, <1>9
  <2>1. j * BucketMs \in Nat
    BY <1>1, <2>0
  <2>2. SumFunctionOnSet(spent, j * BucketMs .. clock + 1)
          = SumFunctionOnSet(spent, j * BucketMs .. clock)
    <3>1. clock \in Int /\ clock <= MaxTime /\ clock <= clock + 1 /\ clock + 1 \in Int
      BY <1>1
    <3> QED
      BY ONLY <1>1, <1>2, <2>1, <3>1, SpanIsOver
  <2>3. held(e, j) = held(c, j)
    BY <1>7, <1>9, <2>0
  <2>4. CASE j <= c
    <3>1. j \in 0 .. c
      BY <1>3, <2>0, <2>4
    <3> QED
      BY <1>1, <2>0, <2>2, <2>3, <3>1 DEF SlotsCounted, SpentIn
  <2>5. CASE ~ (j <= c)
    <3>1. j * BucketMs > clock
      BY <1>1, <2>0, <2>1, <2>5, BucketBounds
    <3>2. clock \in Int /\ clock <= MaxTime
      BY <1>1
    <3>3. SumFunctionOnSet(spent, j * BucketMs .. clock) = 0
      BY ONLY <1>1, <1>2, <2>1, <3>1, <3>2, SpanIsEmpty
    <3>4. held(c, j) \in Nat
      BY <1>6, <2>0
    <3> HIDE DEF held
    <3> QED
      BY <2>2, <2>3, <3>3, <3>4
  <2> QED
    BY <2>4, <2>5
<1>10. BucketOf(clock)' = e
  BY <1>1 DEF BucketOf
<1>11. SlotsCounted'
  BY <1>1, <1>9, <1>10 DEF SlotsCounted, SpentIn
<1>12. SlotCeiling'
  BY <1>1 DEF SlotCeiling, SpentIn
<1>13. IsSlots(data, clock, expiry)' /\ (InWindow(data, BucketOf(clock)) <= Limit)'
  BY <1>1, <1>5, <1>8, <1>10
<1> QED
  BY <1>1, <1>11, <1>12, <1>13 DEF SlotInv

LEMMA SlotStep ==
  ASSUME SlotInv, SpentInv', [Next]_vars
  PROVE  SlotInv'
<1>1. CASE own \/ kind # "slidingWindow"
  BY <1>1, SetupStays DEF SlotInv
<1>2. CASE ~ own /\ kind = "slidingWindow"
  <2>1. KeyInv
    BY DEF SlotInv, SpentInv
  <2>2. CASE Idles
    BY <2>2 DEF Idles, SlotInv, SlotsCounted, SlotCeiling, SpentIn
  <2> QED
    BY <1>2, <2>1, <2>2, KeySteps, SlotsOfRun, SlotsLater
<1> QED
  BY <1>1, <1>2

CeilingInv ==
  /\ kind \in Kinds
  /\ SpendInv
  /\ SpentInv
  /\ RateInv /\ WindowInv /\ LogInv /\ SlotInv

LEMMA CeilingHolds ==
  ASSUME CeilingInv
  PROVE  Ceiling
<1> SUFFICES ASSUME ~ own PROVE Ceiling
  BY DEF Ceiling
<1>1. CASE kind = "fixedWindow"
  BY <1>1 DEF CeilingInv, WindowInv, WindowCeiling, LastOf, Ceiling
<1>2. CASE kind = "gcra"
  BY <1>2 DEF CeilingInv, RateInv, ByRate, RateCeiling, Unit, Rate, Ceiling
<1>3. CASE kind = "tokenBucket"
  BY <1>3 DEF CeilingInv, RateInv, ByRate, RateCeiling, Unit, Rate, Ceiling
<1>4. CASE kind = "slidingWindow"
  BY <1>4 DEF CeilingInv, SlotInv, SlotCeiling, FirstBucket, EndOf, Ceiling
<1>5. CASE kind = "slidingWindowLog"
  BY <1>5 DEF CeilingInv, LogInv, LogCeiling, Ceiling
<1> QED
  BY <1>1, <1>2, <1>3, <1>4, <1>5 DEF CeilingInv, Kinds

LEMMA CeilingStep ==
  ASSUME CeilingInv, [Next]_vars
  PROVE  CeilingInv'
<1>1. kind' = kind
  BY SetupStays
<1>2. SpendInv'
  BY SpendStep DEF CeilingInv
<1>3. SpentInv'
  BY SpentStep DEF CeilingInv
<1>4. RateInv' /\ WindowInv' /\ LogInv' /\ SlotInv'
  BY <1>2, <1>3, RateStep, WindowStep, LogStep, SlotStep DEF CeilingInv
<1> QED
  BY <1>1, <1>2, <1>3, <1>4 DEF CeilingInv

LEMMA SpendInit ==
  ASSUME Init
  PROVE  SpendInv
BY Constants DEF Init, SpendInv, KeptInv, KeyInv, InReach, NoCall, Instants, IsArrival,
                 IsBucket, KeepsArrival, KeepsBucket

LEMMA CeilingInit ==
  ASSUME Init
  PROVE  CeilingInv
<1> DEFINE sum(i, j) == SumFunctionOnSet(spent, i .. j)
<1>1. /\ kind \in Kinds /\ clock = 1 /\ data = {} /\ expiry = 0
      /\ spent = [i \in Instants |-> 0] /\ KeyAt(clock) = {}
      /\ MaxTime \in Nat \ {0} /\ Limit \in Nat
      /\ WindowMs \in Nat \ {0} /\ BucketMs \in Nat \ {0} /\ Buckets \in Nat \ {0}
  BY BucketsFill, Windows DEF Init, KeyAt
<1>2. SpendInv
  BY SpendInit
<1>3. SpentByNow /\ SpentInv
  BY <1>1, <1>2 DEF SpentByNow, SpentInv, SpendInv, KeptInv
<1>4. ASSUME NEW i \in Nat, NEW j \in Int, j <= MaxTime
      PROVE  sum(i, j) = 0
  <2>1. i .. j \subseteq Instants
    BY <1>3, <1>4, SpanIsSummable DEF SpentByNow
  <2>2. IsFiniteSet(i .. j) /\ \A k \in i .. j : spent[k] = 0
    BY <1>1, <2>1, FS_Interval
  <2> QED
    BY ONLY <2>2, SumOfZeros
<1> HIDE DEF sum
<1>5. Unit \in Nat /\ Rate \in Nat /\ Unit * Limit \in Nat /\ Unit * 0 = 0
  BY <1>2, RatesAre
<1>6. ~ own /\ ByRate => Paced /\ RateCeiling
  <2> SUFFICES ASSUME ~ own, ByRate PROVE Paced /\ RateCeiling
    OBVIOUS
  <2>1. Free \in Nat /\ Free <= Unit * Limit
    BY <1>2, FreeIsBounded DEF FreeBounded
  <2>2. ASSUME NEW i \in 0 .. 1
        PROVE  Unit * sum(i, 1) + Free <= Unit * Limit + Rate * (1 - i)
    <3>1. sum(i, 1) = 0
      BY <1>1, <1>4
    <3>2. Rate * (1 - i) \in Nat
      BY <1>5
    <3> QED
      BY <1>5, <2>1, <3>1, <3>2
  <2>3. ASSUME NEW i \in Instants, NEW j \in i .. MaxTime
        PROVE  Unit * sum(i, j) <= Unit * Limit + Rate * (j - i)
    <3>1. sum(i, j) = 0
      BY <1>1, <1>4 DEF Instants
    <3>2. j - i \in Nat
      BY <1>1 DEF Instants
    <3>3. Rate * (j - i) \in Nat
      BY <1>5, <3>2
    <3> QED
      BY <1>5, <3>1, <3>3
  <2> QED
    BY <1>1, <2>2, <2>3 DEF Paced, RateCeiling, SpentIn, sum
<1>7. expiry \in Int /\ IsWindow(data, clock, expiry) /\ WindowCounted /\ WindowCeiling
  <2>1. WindowOf(clock) \in Nat /\ Counted({}, WindowOf(clock)) = 0
    BY <1>1, WindowOfInstant DEF Counted
  <2>2. sum(WindowOf(clock), clock) = 0
    BY <1>1, <1>4, <2>1
  <2>3. ASSUME NEW k \in 0 .. (MaxTime \div WindowMs)
        PROVE  sum(k * WindowMs, LastOf(k)) = 0
    <3>1. k \in Nat
      BY <1>1
    <3> QED
      BY <1>4, <3>1, LastOfWindow
  <2>4. WindowCounted
    BY <1>1, <2>1, <2>2 DEF WindowCounted, SpentIn, sum
  <2>5. WindowCeiling
    BY <1>1, <2>3 DEF WindowCeiling, SpentIn, sum
  <2> QED
    BY <1>1, <2>4, <2>5 DEF IsWindow
<1>8. IsLog(data, clock, expiry) /\ LogCounted /\ LogCeiling
  <2>1. IsLog({}, clock, expiry)
    <3>1. Recent({}, clock) = {}
      BY DEF Recent
    <3> QED
      BY <1>1, <3>1, FS_EmptySet DEF IsLog
  <2>2. ASSUME NEW i \in 0 .. clock
        PROVE  sum(i, clock) = 0 /\ Cardinality(Since({}, i)) = 0
    <3>1. Since({}, i) = {}
      BY DEF Since
    <3>2. sum(i, clock) = 0
      BY <1>1, <1>4
    <3> QED
      BY <3>1, <3>2, FS_EmptySet
  <2>3. ASSUME NEW i \in Instants
        PROVE  sum(AtLeast(0, i - WindowMs + 1), i) = 0
    <3>1. i \in Int /\ i <= MaxTime /\ i - WindowMs + 1 \in Int
      BY <1>1 DEF Instants
    <3>2. AtLeast(0, i - WindowMs + 1) \in Nat
      BY <3>1, AtLeastNought
    <3> QED
      BY <1>4, <3>1, <3>2
  <2> QED
    BY <1>1, <2>1, <2>2, <2>3 DEF LogCounted, LogCeiling, SpentIn, sum
<1>9. IsSlots(data, clock, expiry) /\ InWindow(data, BucketOf(clock)) <= Limit
        /\ SlotsCounted /\ SlotCeiling
  <2>1. IsSlots({}, clock, expiry)
    BY FS_EmptySet DEF IsSlots
  <2>2. BucketOf(clock) \in Nat
    BY <1>1, BucketOfInstant
  <2>3. \A j, c : CountOf({}, j) = 0
    BY CountOfNone
  <2>4. ASSUME NEW i \in Int, NEW c \in Int, i >= c - Buckets + 1
        PROVE  SumFunctionOnSet(Counts({}, c), i .. c) = 0
    <3>1. \A j \in i .. c : Counts({}, c)[j] = 0
      BY <1>1, <2>3, <2>4 DEF Counts
    <3>2. IsFiniteSet(i .. c)
      BY FS_Interval
    <3> QED
      BY ONLY <3>1, <3>2, SumOfZeros
  <2>5. InWindow({}, BucketOf(clock)) = 0
    <3> DEFINE c == BucketOf(clock)
    <3>1. c \in Int /\ c - Buckets + 1 \in Int /\ c - Buckets + 1 >= c - Buckets + 1
      BY <1>1, <2>2
    <3> HIDE DEF c
    <3>2. SumFunctionOnSet(Counts({}, c), (c - Buckets + 1) .. c) = 0
      BY <2>4, <3>1
    <3> QED
      BY <3>1, <3>2, WindowIsSpan DEF c
  <2>6. ASSUME NEW j \in 0 .. BucketOf(clock), j >= BucketOf(clock) - Buckets + 1
        PROVE  /\ sum(j * BucketMs, clock) = 0
               /\ SumFunctionOnSet(Counts(data, BucketOf(clock)), j .. BucketOf(clock)) = 0
    <3>1. j \in Int /\ BucketOf(clock) \in Int /\ j * BucketMs \in Nat
      BY <1>1, <2>2
    <3>2. sum(j * BucketMs, clock) = 0
      BY <1>1, <1>4, <3>1
    <3>3. SumFunctionOnSet(Counts({}, BucketOf(clock)), j .. BucketOf(clock)) = 0
      BY <2>4, <2>6, <3>1
    <3> QED
      BY <1>1, <3>2, <3>3
  <2>7. SlotsCounted
    BY <2>6 DEF SlotsCounted, SpentIn, sum
  <2>8. ASSUME NEW c \in 0 .. (MaxTime \div BucketMs)
        PROVE  sum(FirstBucket(c) * BucketMs, EndOf(c)) = 0
    <3>1. c \in Nat /\ c - Buckets + 1 \in Int
      BY <1>1
    <3>2. FirstBucket(c) \in Nat
      BY <3>1, AtLeastNought DEF FirstBucket
    <3>3. FirstBucket(c) * BucketMs \in Nat
      BY <1>1, <3>2
    <3> QED
      BY <1>4, <3>1, <3>3, EndOfBucket
  <2>9. SlotCeiling
    BY <1>1, <2>8 DEF SlotCeiling, SpentIn, sum
  <2> QED
    BY <1>1, <2>1, <2>5, <2>7, <2>9
<1> QED
  BY <1>1, <1>2, <1>3, <1>6, <1>7, <1>8, <1>9
     DEF CeilingInv, RateInv, WindowInv, LogInv, SlotInv

\* On the server's clock no strategy admits more than its ceiling: not in a window,
\* a trailing window or any span of time, whatever the limit, the rate, the costs and
\* the callers, and although keys expire and slots are reused.
THEOREM RedisKeepsTheCeiling == Spec => []Ceiling
<1>1. Init => CeilingInv
  BY CeilingInit
<1>2. CeilingInv /\ [Next]_vars => CeilingInv'
  BY CeilingStep
<1>3. CeilingInv => Ceiling
  BY CeilingHolds
<1> QED
  BY <1>1, <1>2, <1>3, PTL DEF Spec

-----------------------------------------------------------------------------
(* The advice of a reply; fixedWindow gives it truly.                      *)

\* What the reply to a call promises about the scripts that follow it when nothing
\* else runs in between: the parts of the four properties of the advice.
After(k, d, now, lives, cost, i) ==
  LET v == Script(k, d, now, cost)
      end == IF v.px > 0 THEN now + v.px ELSE lives
  IN IF i < end THEN v.data ELSE {}

Spendable(k, d, now, lives, cost) ==
  LET left == Script(k, d, now, cost).remaining
      then == After(k, d, now, lives, cost, now)
  IN /\ left \in 0 .. Limit
     /\ Script(k, then, now, left).allowed
     /\ ~ Script(k, then, now, left + 1).allowed

NotBefore(k, d, now, lives, cost) ==
  \A i \in now .. (now + Script(k, d, now, cost).retryAfter - 1) :
    ~ Script(k, After(k, d, now, lives, cost, i), i, cost).allowed

InTime(k, d, now, lives, cost) ==
  LET v == Script(k, d, now, cost)
      i == now + v.retryAfter
  IN cost <= Limit => Script(k, After(k, d, now, lives, cost, i), i, cost).allowed \/ v.allowed

Replenished(k, d, now, lives, cost) ==
  LET i == Script(k, d, now, cost).resetAt
  IN Script(k, After(k, d, now, lives, cost, i), i, Limit).allowed

-----------------------------------------------------------------------------
(* fixedWindow.                                                            *)

LEMMA WindowAnswers ==
  ASSUME NEW now \in Nat, NEW d, Counted(d, WindowOf(now)) \in 0 .. Limit, NEW cost \in Nat
  PROVE  LET v     == FixedWindow(d, now, cost)
             start == WindowOf(now)
             count == Counted(d, start)
         IN /\ v.allowed <=> count + cost <= Limit
            /\ v.remaining = Limit - (count + IF v.allowed THEN cost ELSE 0)
            /\ v.resetAt = start + WindowMs
            /\ v.retryAfter = IF v.allowed THEN 0 ELSE (start + WindowMs) - now
<1> DEFINE v     == FixedWindow(d, now, cost)
           start == WindowOf(now)
           count == Counted(d, start)
<1>1. count \in 0 .. Limit /\ Limit \in Nat
  BY Windows
<1>2. CASE count + cost <= Limit
  <2>1. Limit - (count + cost) \in Nat
    BY <1>1, <1>2
  <2>2. AtLeast(0, Limit - (count + cost)) = Limit - (count + cost)
    BY <2>1, AtLeastZero
  <2> QED
    BY <1>2, <2>2 DEF FixedWindow, Allow, WindowOf
<1>3. CASE ~ (count + cost <= Limit)
  <2>1. Limit - count \in Nat /\ Limit - (count + 0) = Limit - count
    BY <1>1
  <2>2. AtLeast(0, Limit - count) = Limit - count
    BY <2>1, AtLeastZero
  <2>3. /\ ~ v.allowed /\ v.remaining = Limit - count
        /\ v.resetAt = start + WindowMs /\ v.retryAfter = (start + WindowMs) - now
    BY <1>3, <2>2 DEF FixedWindow, Deny, WindowOf
  <2> HIDE DEF v, start, count
  <2> QED
    BY <1>3, <2>1, <2>3 DEF v, start, count
<1> QED
  BY <1>2, <1>3

\* In a later window, or once the key is due to expire, nothing is counted.
LEMMA WindowIsOver ==
  ASSUME NEW now \in Nat, NEW lives \in Int, NEW d, IsWindow(d, now, lives),
         NEW i \in Nat, i >= lives \/ i >= WindowOf(now) + WindowMs
  PROVE  Counted(d, WindowOf(i)) = 0
<1>1. CASE d = {}
  BY <1>1 DEF Counted
<1>2. ASSUME NEW s \in Int, NEW n \in 0 .. Limit,
             s <= now, s + WindowMs <= lives, d = {[start |-> s, count |-> n]}
      PROVE  Counted(d, WindowOf(i)) = 0
  <2> DEFINE q == i \div WindowMs
  <2>1. /\ q \in Nat /\ WindowOf(i) = q * WindowMs /\ i < q * WindowMs + WindowMs
        /\ WindowOf(now) \in Nat /\ now < WindowOf(now) + WindowMs
        /\ WindowMs \in Nat \ {0} /\ now \div WindowMs \in Nat
        /\ WindowOf(now) = (now \div WindowMs) * WindowMs
    BY WindowOfInstant, Windows DEF WindowOf
  <2> HIDE DEF q
  <2>2. s # q * WindowMs
    <3> SUFFICES ASSUME s = q * WindowMs PROVE FALSE
      OBVIOUS
    <3>1. i < s + WindowMs
      BY <2>1
    <3>2. i >= WindowOf(now) + WindowMs
      BY <1>2, <2>1, <3>1
    <3>3. s > WindowOf(now)
      BY <2>1, <3>1, <3>2
    <3>4. q > now \div WindowMs
      BY <2>1, <3>3
    <3>5. q >= (now \div WindowMs) + 1
      BY <2>1, <3>4
    <3>6. q * WindowMs >= ((now \div WindowMs) + 1) * WindowMs
      BY <2>1, <3>5
    <3>7. ((now \div WindowMs) + 1) * WindowMs = WindowOf(now) + WindowMs
      BY <2>1
    <3> QED
      BY <1>2, <2>1, <3>6, <3>7
  <2> QED
    BY <1>2, <2>1, <2>2, CountedInKey
<1> QED
  BY <1>1, <1>2 DEF IsWindow

LEMMA SameWindow ==
  ASSUME NEW now \in Nat, NEW i \in Nat, now <= i, i < WindowOf(now) + WindowMs
  PROVE  WindowOf(i) = WindowOf(now)
<1>1. /\ i \div WindowMs \in Nat /\ now \div WindowMs \in Nat /\ WindowMs \in Nat
      /\ (i \div WindowMs) * WindowMs <= i /\ i < (i \div WindowMs) * WindowMs + WindowMs
      /\ (now \div WindowMs) * WindowMs <= now
      /\ i < (now \div WindowMs) * WindowMs + WindowMs
  BY WindowOfInstant, Windows DEF WindowOf
<1>2. (now \div WindowMs) * WindowMs <= i
  BY <1>1
<1>3. i \div WindowMs = now \div WindowMs
  BY ONLY <1>1, <1>2, i \in Nat, WindowIsUnique
<1> QED
  BY <1>3 DEF WindowOf

\* The count a later script finds.
LEMMA WindowLaterCounts ==
  ASSUME NEW now \in Nat, NEW lives \in Int, NEW d, IsWindow(d, now, lives),
         NEW i \in Nat, now <= i
  PROVE  Counted(IF i < lives THEN d ELSE {}, WindowOf(i))
           = IF i < WindowOf(now) + WindowMs THEN Counted(d, WindowOf(now)) ELSE 0
<1>1. Counted({}, WindowOf(i)) = 0
  BY DEF Counted
<1>2. WindowOf(now) \in Nat /\ WindowMs \in Nat
  BY WindowOfInstant, Windows
<1>3. CASE i < WindowOf(now) + WindowMs
  <2>1. WindowOf(i) = WindowOf(now)
    BY <1>3, SameWindow
  <2>2. i >= lives => Counted(d, WindowOf(i)) = 0
    BY WindowIsOver
  <2> QED
    BY <1>1, <1>3, <2>1, <2>2
<1>4. CASE ~ (i < WindowOf(now) + WindowMs)
  <2>1. Counted(d, WindowOf(i)) = 0
    BY <1>2, <1>4, WindowIsOver
  <2> QED
    BY <1>1, <1>4, <2>1
<1> QED
  BY <1>3, <1>4

LEMMA WindowAdvice ==
  ASSUME NEW now \in Nat, NEW lives \in Int, NEW d, IsWindow(d, now, lives), NEW cost \in Nat
  PROVE  /\ Spendable("fixedWindow", d, now, lives, cost)
         /\ NotBefore("fixedWindow", d, now, lives, cost)
         /\ InTime("fixedWindow", d, now, lives, cost)
         /\ Replenished("fixedWindow", d, now, lives, cost)
<1> DEFINE v     == FixedWindow(d, now, cost)
           end   == IF v.px > 0 THEN now + v.px ELSE lives
           key(i) == IF i < end THEN v.data ELSE {}
           start == WindowOf(now)
           count == Counted(d, start)
           n     == IF v.allowed THEN cost ELSE 0
<1>1. \A e, i, c : Script("fixedWindow", e, i, c) = FixedWindow(e, i, c)
  BY DEF Script
<1>2. /\ start \in Nat /\ start <= now /\ now < start + WindowMs
      /\ WindowMs \in Nat /\ Limit \in Nat /\ count \in 0 .. Limit
  BY WindowOfInstant, Windows, CountedIsBounded
<1>3. /\ v.allowed <=> count + cost <= Limit
      /\ v.remaining = Limit - (count + n)
      /\ v.resetAt = start + WindowMs
      /\ v.retryAfter = IF v.allowed THEN 0 ELSE (start + WindowMs) - now
  BY <1>2, WindowAnswers
<1>4. end \in Int /\ IsWindow(v.data, now, end) /\ Counted(v.data, start) = count + n
  BY WindowSpends
<1>5. \A i : After("fixedWindow", d, now, lives, cost, i) = key(i)
  BY <1>1 DEF After
<1>6. v.remaining \in 0 .. Limit /\ n \in Nat /\ count + n <= Limit
  BY <1>2, <1>3
<1> HIDE DEF v, n, start, count, end
<1>7. ASSUME NEW i \in Nat, now <= i
      PROVE  Counted(key(i), WindowOf(i)) = IF i < start + WindowMs THEN count + n ELSE 0
  BY <1>4, <1>7, WindowLaterCounts DEF start
<1>8. ASSUME NEW i \in Nat, now <= i, NEW c \in Nat
      PROVE  FixedWindow(key(i), i, c).allowed
               <=> (IF i < start + WindowMs THEN count + n ELSE 0) + c <= Limit
  <2>1. Counted(key(i), WindowOf(i)) \in 0 .. Limit
    BY <1>2, <1>6, <1>7, <1>8
  <2> QED
    BY <1>7, <1>8, <2>1, WindowAnswers
<1> HIDE DEF key
<1>9. Spendable("fixedWindow", d, now, lives, cost)
  <2>1. FixedWindow(key(now), now, v.remaining).allowed
    BY <1>2, <1>3, <1>6, <1>8
  <2>2. v.remaining + 1 \in Nat
    BY <1>6
  <2>3. ~ FixedWindow(key(now), now, v.remaining + 1).allowed
    BY <1>2, <1>3, <1>6, <1>8, <2>2
  <2> QED
    BY <1>1, <1>5, <1>6, <2>1, <2>3 DEF Spendable, v
<1>10. NotBefore("fixedWindow", d, now, lives, cost)
  <2>1. ASSUME NEW i \in now .. (now + v.retryAfter - 1)
        PROVE  ~ FixedWindow(key(i), i, cost).allowed
    <3>1. ~ v.allowed /\ v.retryAfter = (start + WindowMs) - now /\ n = 0
      <4>1. v.allowed => v.retryAfter = 0
        BY <1>3
      <4> QED
        BY <1>3, <2>1, <4>1 DEF n
    <3>2. i \in Nat /\ now <= i /\ i < start + WindowMs
      BY <1>2, <2>1, <3>1
    <3> QED
      BY <1>2, <1>3, <1>8, <3>1, <3>2
  <2> QED
    BY <1>1, <1>5, <2>1 DEF NotBefore, v
<1>11. InTime("fixedWindow", d, now, lives, cost)
  <2>1. ASSUME cost <= Limit, ~ v.allowed
        PROVE  FixedWindow(key(now + v.retryAfter), now + v.retryAfter, cost).allowed
    <3>1. now + v.retryAfter = start + WindowMs
      BY <1>2, <1>3, <2>1
    <3>2. now + v.retryAfter \in Nat /\ now <= now + v.retryAfter
      BY <1>2, <3>1
    <3>3. ~ (now + v.retryAfter < start + WindowMs)
      BY <1>2, <3>1
    <3> QED
      BY <1>8, <2>1, <3>2, <3>3
  <2> QED
    BY <1>1, <1>5, <2>1 DEF InTime, v
<1>12. Replenished("fixedWindow", d, now, lives, cost)
  <2>1. v.resetAt \in Nat /\ now <= v.resetAt /\ ~ (v.resetAt < start + WindowMs)
    BY <1>2, <1>3
  <2>2. FixedWindow(key(v.resetAt), v.resetAt, Limit).allowed
    BY <1>2, <1>8, <2>1
  <2> QED
    BY <1>1, <1>5, <2>2 DEF Replenished, v
<1> QED
  BY <1>9, <1>10, <1>11, <1>12

-----------------------------------------------------------------------------
(* slidingWindowLog: its advice is true.                                   *)

LEMMA LeastOf ==
  ASSUME NEW T \in SUBSET Nat, T # {}
  PROVE  \E m \in T : \A x \in T : m <= x
<1>1. PICK m \in T : \A x \in T : ~ (<<x, m>> \in OpToRel(<, Nat))
  BY NatLessThanWellFounded, WFMin
<1>2. ASSUME NEW x \in T PROVE m <= x
  <2>1. x \in Nat /\ m \in Nat
    OBVIOUS
  <2>2. ~ (<<x, m>> \in {ss \in Nat \X Nat : ss[1] < ss[2]})
    BY <1>1 DEF OpToRel
  <2> QED
    BY <2>1, <2>2
<1> QED
  BY <1>2

\* A log of k or more members has a k-th smallest score, and it is what ZRANGE
\* answers with.
LEMMA ScoreOfRank ==
  ASSUME NEW log, IsFiniteSet(log), NEW low \in Int, NEW high \in Int,
         \A e \in log : e.score \in Int /\ low < e.score /\ e.score <= high,
         NEW k \in 1 .. Cardinality(log)
  PROVE  LET s == NthScore(log, k)
         IN /\ s \in {e.score : e \in log}
            /\ Cardinality({e \in log : e.score < s}) < k
            /\ Cardinality({e \in log : e.score <= s}) >= k
<1> DEFINE Upto(i)   == {e \in log : e.score <= i}
           Enough    == {m \in Nat : Cardinality(Upto(low + m)) >= k}
<1>1. Cardinality(log) \in Nat /\ k \in Nat /\ k >= 1 /\ k <= Cardinality(log)
  BY FS_CardinalityType
<1>2. log # {}
  BY <1>1, FS_EmptySet
<1>3. high - low \in Enough
  <2>1. high - low \in Nat
    BY <1>2
  <2>2. low + (high - low) = high
    OBVIOUS
  <2>3. Upto(low + (high - low)) = log
    BY <2>2
  <2> HIDE DEF Upto
  <2> QED
    BY <1>1, <2>1, <2>3
<1>4. PICK m \in Enough : \A x \in Enough : m <= x
  <2>1. Enough \in SUBSET Nat /\ Enough # {}
    BY <1>3
  <2> HIDE DEF Enough
  <2> QED
    BY <2>1, LeastOf
<1>5. m \in Nat /\ Cardinality(Upto(low + m)) >= k
  OBVIOUS
<1>6. m # 0
  <2>1. Upto(low + 0) = {}
    OBVIOUS
  <2>2. Cardinality(Upto(low + 0)) = 0
    BY <2>1, FS_EmptySet
  <2> QED
    BY <1>1, <1>5, <2>2
<1>7. Cardinality(Upto(low + (m - 1))) < k
  <2>1. m - 1 \in Nat /\ ~ (m <= m - 1)
    BY <1>5, <1>6
  <2>2. ~ (Cardinality(Upto(low + (m - 1))) >= k)
    BY <1>4, <2>1
  <2>3. Upto(low + (m - 1)) \subseteq log
    OBVIOUS
  <2>4. Cardinality(Upto(low + (m - 1))) \in Nat
    BY <2>3, FS_Subset, FS_CardinalityType
  <2> HIDE DEF Upto
  <2> QED
    BY <1>1, <2>2, <2>4
<1> DEFINE s == low + m
<1>8. {e \in log : e.score < s} = Upto(low + (m - 1))
  BY <1>5
<1>9. {e \in log : e.score < s} # {e \in log : e.score <= s}
  <2>1. {e \in log : e.score <= s} = Upto(low + m)
    OBVIOUS
  <2>2. Cardinality(Upto(low + m)) # Cardinality(Upto(low + (m - 1)))
    <3>1. Upto(low + m) \subseteq log
      OBVIOUS
    <3>2. Cardinality(Upto(low + m)) \in Nat
      BY <3>1, FS_Subset, FS_CardinalityType
    <3>3. Upto(low + (m - 1)) \subseteq log
      OBVIOUS
    <3>4. Cardinality(Upto(low + (m - 1))) \in Nat
      BY <3>3, FS_Subset, FS_CardinalityType
    <3> HIDE DEF Upto
    <3> QED
      BY <1>1, <1>5, <1>7, <3>2, <3>4
  <2> HIDE DEF Upto
  <2> QED
    BY <1>8, <2>1, <2>2
<1>10. \E e \in log : e.score = s
  <2>1. s \in Int
    BY <1>5
  <2> HIDE DEF s
  <2> QED
    BY <1>9, <2>1
<1>11. s \in {e.score : e \in log}
  BY <1>10
<1>12. /\ Cardinality({e \in log : e.score < s}) < k
       /\ Cardinality({e \in log : e.score <= s}) >= k
  BY <1>5, <1>7, <1>8
<1> HIDE DEF s
<1> QED
  BY <1>11, <1>12 DEF NthScore

LEMMA LogIsFinite ==
  ASSUME NEW now \in Nat, NEW lives \in Int, NEW d, IsLog(d, now, lives)
  PROVE  LET log == Recent(d, now)
         IN /\ IsFiniteSet(log) /\ Cardinality(log) \in 0 .. Limit
            /\ \A e \in log : /\ e.score \in Int /\ now - WindowMs < e.score /\ e.score <= now
                              /\ e.score + WindowMs <= lives
<1> DEFINE log == Recent(d, now)
<1>1. log \subseteq d
  BY DEF Recent
<1>2. IsFiniteSet(log) /\ Cardinality(log) \in Nat /\ Limit \in Nat /\ Cardinality(log) <= Limit
  BY <1>1, FS_Subset, FS_CardinalityType, Windows DEF IsLog
<1>3. \A e \in log : /\ e.score \in Int /\ now - WindowMs < e.score /\ e.score <= now
                     /\ e.score + WindowMs <= lives
  BY Windows DEF IsLog, Recent
<1> HIDE DEF log
<1> QED
  BY <1>2, <1>3 DEF log

\* When a denied cost may come back, as the script computes it.
RetryOfLog(log, now, cost) ==
  LET count == Cardinality(log)
      k     == Min({count, AtLeast(1, count + cost - Limit)})
  IN IF count = 0 THEN WindowMs ELSE AtLeast(1, NthScore(log, k) + WindowMs - now)

LEMMA LogAnswers ==
  ASSUME NEW now \in Nat, NEW d, Cardinality(Recent(d, now)) \in 0 .. Limit, NEW cost \in Nat
  PROVE  LET v     == SlidingWindowLog(d, now, cost)
             log   == Recent(d, now)
             count == Cardinality(log)
         IN /\ v.allowed <=> count + cost <= Limit
            /\ v.remaining = Limit - (count + IF v.allowed THEN cost ELSE 0)
            /\ v.retryAfter = IF v.allowed THEN 0 ELSE RetryOfLog(log, now, cost)
            /\ ~ v.allowed => v.data = log /\ v.px = 0
            /\ v.allowed => v.data = Added(log, now, cost) /\ v.px = WindowMs
<1> DEFINE v     == SlidingWindowLog(d, now, cost)
           log   == Recent(d, now)
           count == Cardinality(log)
<1>1. count \in 0 .. Limit /\ Limit \in Nat
  BY Windows
<1>2. CASE count + cost <= Limit
  <2>1. Limit - (count + cost) \in Nat
    BY <1>1, <1>2
  <2>2. AtLeast(0, Limit - (count + cost)) = Limit - (count + cost)
    BY <2>1, AtLeastZero
  <2>3. /\ v.allowed /\ v.remaining = Limit - (count + cost) /\ v.retryAfter = 0
        /\ v.data = Added(log, now, cost) /\ v.px = WindowMs
    BY <1>2, <2>2 DEF SlidingWindowLog, Allow
  <2> HIDE DEF v, log, count
  <2> QED
    BY <1>2, <2>3 DEF v, log, count
<1>3. CASE ~ (count + cost <= Limit)
  <2>1. Limit - count \in Nat /\ Limit - (count + 0) = Limit - count
    BY <1>1
  <2>2. AtLeast(0, Limit - count) = Limit - count
    BY <2>1, AtLeastZero
  <2>3. /\ ~ v.allowed /\ v.remaining = Limit - count /\ v.data = log /\ v.px = 0
        /\ v.retryAfter = RetryOfLog(log, now, cost)
    BY <1>3, <2>2 DEF SlidingWindowLog, Deny, RetryOfLog
  <2> HIDE DEF v, log, count
  <2> QED
    BY <1>3, <2>1, <2>3 DEF v, log, count
<1> QED
  BY <1>2, <1>3

\* What a later script finds of the log: what is not a window old.
LEMMA LogLaterHolds ==
  ASSUME NEW now \in Nat, NEW lives \in Int, NEW d, IsLog(d, now, lives),
         NEW i \in Nat, now <= i
  PROVE  Recent(IF i < lives THEN d ELSE {}, i)
           = {e \in Recent(d, now) : e.score > i - WindowMs}
<1>1. \A e \in d : e.score \in Int /\ e.score + WindowMs <= lives
  BY DEF IsLog
<1>2. WindowMs \in Nat
  BY Windows
<1>3. CASE i < lives
  BY <1>1, <1>2, <1>3 DEF Recent
<1>4. CASE ~ (i < lives)
  <2>1. \A e \in d : ~ (e.score > i - WindowMs)
    BY <1>1, <1>2, <1>4
  <2> QED
    BY <1>4, <2>1 DEF Recent
<1> QED
  BY <1>3, <1>4

\* The advice to a denied cost, from the ranks of the scores.
LEMMA RetryOfLogIsExact ==
  ASSUME NEW now \in Nat, NEW log, IsFiniteSet(log), Cardinality(log) \in 0 .. Limit,
         \A e \in log : e.score \in Int /\ now - WindowMs < e.score /\ e.score <= now,
         NEW cost \in Nat, ~ (Cardinality(log) + cost <= Limit)
  PROVE  LET retry   == RetryOfLog(log, now, cost)
             left(i) == {e \in log : e.score > i - WindowMs}
         IN /\ retry \in Nat
            /\ \A i \in now .. (now + retry - 1) :
                 ~ (Cardinality(left(i)) + cost <= Limit)
            /\ cost <= Limit => Cardinality(left(now + retry)) + cost <= Limit
<1> DEFINE retry   == RetryOfLog(log, now, cost)
           left(i) == {e \in log : e.score > i - WindowMs}
           count   == Cardinality(log)
           over    == count + cost - Limit
           k       == Min({count, AtLeast(1, over)})
           s       == NthScore(log, k)
<1>1. WindowMs \in Nat \ {0} /\ Limit \in Nat /\ count \in Nat /\ count <= Limit
  BY Windows
<1>2. over \in Nat /\ over >= 1
  BY <1>1
<1>3. \A i : IsFiniteSet(left(i)) /\ Cardinality(left(i)) \in Nat
  <2> SUFFICES ASSUME NEW i PROVE IsFiniteSet(left(i)) /\ Cardinality(left(i)) \in Nat
    OBVIOUS
  <2>1. left(i) \subseteq log
    OBVIOUS
  <2> HIDE DEF left
  <2> QED
    BY <2>1, FS_Subset, FS_CardinalityType
<1>4. CASE count = 0
  <2>1. retry = WindowMs
    BY <1>4 DEF RetryOfLog
  <2>2. cost > Limit
    BY <1>1, <1>4
  <2>3. ASSUME NEW i PROVE ~ (Cardinality(left(i)) + cost <= Limit)
    <3>1. Cardinality(left(i)) \in Nat
      BY <1>3
    <3> HIDE DEF left
    <3> QED
      BY <1>1, <2>2, <3>1
  <2>4. ~ (cost <= Limit) /\ retry \in Nat
    BY <1>1, <2>1, <2>2
  <2> HIDE DEF retry, left
  <2> QED
    BY <2>3, <2>4 DEF retry, left
<1>5. CASE count # 0
  <2>1. AtLeast(1, over) = over
    <3> HIDE DEF over
    <3>0. over \in Int /\ 1 \in Int
      BY <1>2
    <3>1. Max({1, over}) \in {1, over} /\ Max({1, over}) >= over /\ Max({1, over}) >= 1
      BY ONLY <3>0, MaxOfTwo
    <3> QED
      BY <1>2, <3>1 DEF AtLeast
  <2>2. k \in {count, over} /\ k <= count /\ k <= over
    <3>1. k = Min({count, over})
      BY <2>1
    <3> HIDE DEF k, count, over
    <3>2. count \in Int /\ over \in Int
      BY <1>1, <1>2
    <3> QED
      BY ONLY <3>1, <3>2, MinOfTwo
  <2>3. k \in 1 .. count
    BY <1>1, <1>2, <1>5, <2>2
  <2> DEFINE before == {e \in log : e.score < s}
             upto   == {e \in log : e.score <= s}
  <2>4. /\ s \in {e.score : e \in log}
        /\ Cardinality(before) < k
        /\ Cardinality(upto) >= k
    <3> HIDE DEF k
    <3>1. now \in Int /\ now - WindowMs \in Int
      BY <1>1
    <3> QED
      BY <2>3, <3>1, ScoreOfRank
  <2>5. s \in Int /\ now - WindowMs < s
    BY <2>4
  <2>6. retry = (s + WindowMs) - now /\ retry \in Nat
    <3>0. retry = AtLeast(1, s + WindowMs - now)
      BY <1>5 DEF RetryOfLog
    <3> DEFINE wait == s + WindowMs - now
    <3> HIDE DEF s, retry
    <3>1. wait \in Nat /\ wait >= 1 /\ wait = (s + WindowMs) - now /\ 1 \in Int /\ wait \in Int
      BY <1>1, <2>5
    <3> HIDE DEF wait
    <3>2. Max({1, wait}) \in {1, wait} /\ Max({1, wait}) >= wait
      BY ONLY <3>1, MaxOfTwo
    <3>3. retry = Max({1, wait})
      BY <3>0 DEF AtLeast, wait
    <3> QED
      BY <3>1, <3>2, <3>3
  <2>7. /\ IsFiniteSet(before) /\ Cardinality(before) \in Nat
        /\ IsFiniteSet(upto) /\ Cardinality(upto) \in Nat
    <3>1. before \subseteq log /\ upto \subseteq log
      OBVIOUS
    <3> HIDE DEF before, upto
    <3> QED
      BY <3>1, FS_Subset, FS_CardinalityType
  <2>8. Cardinality(log \ before) = count - Cardinality(before)
    <3>1. log \cap before = before
      OBVIOUS
    <3> HIDE DEF before
    <3> QED
      BY <3>1, FS_Difference
  <2>9. Cardinality(log \ upto) = count - Cardinality(upto)
    <3>1. log \cap upto = upto
      OBVIOUS
    <3> HIDE DEF upto
    <3> QED
      BY <3>1, FS_Difference
  <2>10. ASSUME NEW i \in now .. (now + retry - 1)
         PROVE  ~ (Cardinality(left(i)) + cost <= Limit)
    <3>1. i \in Int /\ i - WindowMs < s
      <4> HIDE DEF s, retry
      <4> QED
        BY <1>1, <2>5, <2>6, <2>10
    <3>2. log \ before \subseteq left(i)
      <4> HIDE DEF s
      <4> QED
        BY <1>1, <2>5, <3>1
    <3>3. Cardinality(log \ before) <= Cardinality(left(i))
      <4> HIDE DEF left, before
      <4> QED
        BY <1>3, <3>2, FS_Subset
    <3> HIDE DEF left, before, k, s
    <3> QED
      BY <1>1, <1>3, <2>2, <2>3, <2>4, <2>7, <2>8, <3>3
  <2>11. ASSUME cost <= Limit
         PROVE  Cardinality(left(now + retry)) + cost <= Limit
    <3>1. (now + retry) - WindowMs = s
      <4> HIDE DEF s, retry
      <4> QED
        BY <1>1, <2>5, <2>6
    <3>2. left(now + retry) = log \ upto
      <4> HIDE DEF s, retry
      <4> QED
        BY <2>5, <3>1
    <3>3. k = over
      <4> HIDE DEF k
      <4> QED
        BY <1>1, <2>2, <2>11
    <3>4. over = count + cost - Limit
      OBVIOUS
    <3> DEFINE held == Cardinality(upto)
               rest == Cardinality(log \ upto)
    <3>5. held \in Nat /\ held >= count + cost - Limit /\ rest = count - held
      BY <2>4, <2>7, <2>9, <3>3, <3>4
    <3>6. count \in Nat /\ cost \in Nat /\ Limit \in Nat
      BY <1>1
    <3> HIDE DEF left, upto, k, s, over, count, retry, held, rest
    <3>7. rest + cost <= Limit
      BY ONLY <3>5, <3>6
    <3> QED
      BY <3>2, <3>7 DEF rest
  <2> HIDE DEF retry, left
  <2> QED
    BY <2>6, <2>10, <2>11 DEF retry, left
<1> QED
  BY <1>4, <1>5

LEMMA LogAdvice ==
  ASSUME NEW now \in Nat, NEW lives \in Int, NEW d, IsLog(d, now, lives), NEW cost \in Nat
  PROVE  /\ Spendable("slidingWindowLog", d, now, lives, cost)
         /\ NotBefore("slidingWindowLog", d, now, lives, cost)
         /\ InTime("slidingWindowLog", d, now, lives, cost)
<1> DEFINE v     == SlidingWindowLog(d, now, cost)
           end   == IF v.px > 0 THEN now + v.px ELSE lives
           key(i) == IF i < end THEN v.data ELSE {}
           log   == Recent(d, now)
           count == Cardinality(log)
           n     == IF v.allowed THEN cost ELSE 0
           left(i) == {e \in Recent(v.data, now) : e.score > i - WindowMs}
<1>1. \A e, i, c : Script("slidingWindowLog", e, i, c) = SlidingWindowLog(e, i, c)
  BY DEF Script
<1>2. /\ IsFiniteSet(log) /\ count \in 0 .. Limit
      /\ \A e \in log : e.score \in Int /\ now - WindowMs < e.score /\ e.score <= now
      /\ WindowMs \in Nat \ {0} /\ Limit \in Nat
  BY LogIsFinite, Windows
<1>3. /\ v.allowed <=> count + cost <= Limit
      /\ v.remaining = Limit - (count + n)
      /\ v.retryAfter = IF v.allowed THEN 0 ELSE RetryOfLog(log, now, cost)
      /\ ~ v.allowed => v.data = log /\ v.px = 0
  BY <1>2, LogAnswers
<1>4. /\ end \in Int /\ IsLog(v.data, now, end)
      /\ \A i \in Int :
           i > now - WindowMs /\ i <= now =>
             Cardinality(Since(v.data, i)) = Cardinality(Since(d, i)) + n
  BY LogSpends
<1>5. \A i : After("slidingWindowLog", d, now, lives, cost, i) = key(i)
  BY <1>1 DEF After
<1>6. v.remaining \in 0 .. Limit /\ n \in Nat /\ count + n <= Limit
  BY <1>2, <1>3
<1> HIDE DEF v, n, count, end, log
<1>7. Cardinality(Recent(v.data, now)) = count + n
  <2> DEFINE first == now - WindowMs + 1
  <2>1. first \in Int /\ first > now - WindowMs /\ first <= now
    BY <1>2
  <2>2. \A i \in Int : i >= first <=> i > now - WindowMs
    BY <1>2
  <2>3. \A e \in d : e.score \in Int
    BY DEF IsLog
  <2>4. \A e \in v.data : e.score \in Int
    BY <1>4 DEF IsLog
  <2> HIDE DEF first
  <2>5. Since(d, first) = Recent(d, now)
    BY <2>2, <2>3 DEF Since, Recent
  <2>6. Since(v.data, first) = Recent(v.data, now)
    BY <2>2, <2>4 DEF Since, Recent
  <2> QED
    BY <1>4, <2>1, <2>5, <2>6 DEF count, log
<1>8. ASSUME NEW i \in Nat, now <= i
      PROVE  Recent(key(i), i) = left(i) /\ Cardinality(left(i)) \in 0 .. Limit
  <2>1. Recent(key(i), i) = left(i)
    BY <1>4, <1>8, LogLaterHolds
  <2>2. left(i) \subseteq Recent(v.data, now)
    OBVIOUS
  <2>3. IsFiniteSet(Recent(v.data, now)) /\ Cardinality(Recent(v.data, now)) \in 0 .. Limit
    BY <1>4, LogIsFinite
  <2> HIDE DEF left
  <2>4. Cardinality(left(i)) \in Nat /\ Cardinality(left(i)) <= Cardinality(Recent(v.data, now))
    BY <2>2, <2>3, FS_Subset, FS_CardinalityType
  <2>5. Cardinality(left(i)) \in 0 .. Limit
    BY ONLY <1>2, <2>3, <2>4
  <2> QED
    BY <2>1, <2>5
<1> HIDE DEF key, left
<1>9. ASSUME NEW i \in Nat, now <= i, NEW c \in Nat
      PROVE  SlidingWindowLog(key(i), i, c).allowed <=> Cardinality(left(i)) + c <= Limit
  <2>1. Recent(key(i), i) = left(i) /\ Cardinality(Recent(key(i), i)) \in 0 .. Limit
    BY <1>8, <1>9
  <2> QED
    BY <2>1, LogAnswers
<1>10. Spendable("slidingWindowLog", d, now, lives, cost)
  <2>1. left(now) = Recent(v.data, now)
    BY DEF left, Recent
  <2>2. Cardinality(left(now)) = count + n
    BY <1>7, <2>1
  <2>3. SlidingWindowLog(key(now), now, v.remaining).allowed
    BY <1>2, <1>3, <1>6, <1>9, <2>2
  <2>4. v.remaining + 1 \in Nat
    BY <1>6
  <2>5. ~ SlidingWindowLog(key(now), now, v.remaining + 1).allowed
    BY <1>2, <1>3, <1>6, <1>9, <2>2, <2>4
  <2> QED
    BY <1>1, <1>5, <1>6, <2>3, <2>5 DEF Spendable, v
<1>11. ASSUME ~ v.allowed
       PROVE  /\ v.retryAfter \in Nat
              /\ \A i \in now .. (now + v.retryAfter - 1) :
                   ~ SlidingWindowLog(key(i), i, cost).allowed
              /\ cost <= Limit =>
                   SlidingWindowLog(key(now + v.retryAfter), now + v.retryAfter, cost).allowed
  <2> DEFINE retry == RetryOfLog(log, now, cost)
             rest(i) == {e \in log : e.score > i - WindowMs}
  <2>1. v.retryAfter = retry
    BY <1>3, <1>11
  <2>2. ~ (Cardinality(log) + cost <= Limit) /\ Cardinality(log) \in 0 .. Limit
    BY <1>2, <1>3, <1>11 DEF count
  <2>3. /\ retry \in Nat
        /\ \A i \in now .. (now + retry - 1) : ~ (Cardinality(rest(i)) + cost <= Limit)
        /\ cost <= Limit => Cardinality(rest(now + retry)) + cost <= Limit
    BY <1>2, <2>2, RetryOfLogIsExact
  <2>4. \A i : left(i) = rest(i)
    <3>1. v.data = log /\ Recent(log, now) = log
      BY <1>3, <1>11 DEF log, Recent
    <3> QED
      BY <3>1 DEF left
  <2> HIDE DEF retry, rest
  <2>5. ASSUME NEW i \in now .. (now + retry - 1)
        PROVE  ~ SlidingWindowLog(key(i), i, cost).allowed
    <3>1. i \in Nat /\ now <= i
      BY <2>3, <2>5
    <3> QED
      BY <1>9, <2>3, <2>4, <2>5, <3>1
  <2>6. ASSUME cost <= Limit
        PROVE  SlidingWindowLog(key(now + retry), now + retry, cost).allowed
    <3>1. now + retry \in Nat /\ now <= now + retry
      BY <2>3
    <3> QED
      BY <1>9, <2>3, <2>4, <2>6, <3>1
  <2> QED
    BY <2>1, <2>3, <2>5, <2>6
<1>12. NotBefore("slidingWindowLog", d, now, lives, cost)
  <2>1. ASSUME NEW i \in now .. (now + v.retryAfter - 1)
        PROVE  ~ SlidingWindowLog(key(i), i, cost).allowed
    <3>1. v.allowed => v.retryAfter = 0
      BY <1>3
    <3>2. ~ v.allowed
      BY <2>1, <3>1
    <3> QED
      BY <1>11, <2>1, <3>2
  <2> QED
    BY <1>1, <1>5, <2>1 DEF NotBefore, v
<1>13. InTime("slidingWindowLog", d, now, lives, cost)
  BY <1>1, <1>5, <1>11 DEF InTime, v
<1> QED
  BY <1>10, <1>12, <1>13

-----------------------------------------------------------------------------
(* slidingWindow: its advice is true.                                      *)

\* What the oldest bucket weighs, and the script's estimate: both scaled by BucketMs.
Weight(now) == BucketMs - (now - BucketOf(now) * BucketMs)

Estimate(d, now) ==
  InWindow(d, BucketOf(now)) * BucketMs + CountOf(d, BucketOf(now) - Buckets) * Weight(now)

LEMMA EstimateIsNat ==
  ASSUME NEW now \in Nat, NEW lives \in Int, NEW d, IsSlots(d, now, lives)
  PROVE  /\ InWindow(d, BucketOf(now)) \in Nat
         /\ CountOf(d, BucketOf(now) - Buckets) \in Nat
         /\ Weight(now) \in 1 .. BucketMs
         /\ Estimate(d, now) \in Nat
<1> DEFINE c      == BucketOf(now)
           full   == InWindow(d, c)
           oldest == CountOf(d, c - Buckets)
           weight == Weight(now)
<1>1. /\ c \in Nat /\ BucketMs \in Nat \ {0} /\ Buckets \in Nat \ {0}
      /\ c * BucketMs <= now /\ now < c * BucketMs + BucketMs /\ c * BucketMs \in Nat
  BY BucketOfInstant, BucketsFill
<1>2. IsFiniteSet(d) /\ \A h \in d : h.count \in Nat
  BY DEF IsSlots
<1>3. full \in Nat
  <2> HIDE DEF c
  <2>1. c - Buckets + 1 \in Int /\ c \in Int /\ c - Buckets + 1 >= c - Buckets + 1
    BY <1>1
  <2>2. SumFunctionOnSet(Counts(d, c), (c - Buckets + 1) .. c) \in Nat
    BY ONLY <1>2, <2>1, CountsAreSummable
  <2> QED
    BY <2>1, <2>2, WindowIsSpan
<1>4. oldest \in Nat
  BY <1>2, CountIsNat
<1>5. weight \in 1 .. BucketMs
  BY <1>1 DEF Weight
<1> HIDE DEF full, oldest, weight, c
<1>6. full * BucketMs + oldest * weight \in Nat
  <2>1. full * BucketMs \in Nat /\ oldest * weight \in Nat
    BY <1>1, <1>3, <1>4, <1>5
  <2> QED
    BY <2>1
<1> QED
  BY <1>3, <1>4, <1>5, <1>6 DEF Estimate, full, oldest, weight, c

\* When a denied cost may come back, as the script computes it.
RetryOfSlots(d, now, cost) ==
  LET oldest == CountOf(d, BucketOf(now) - Buckets)
      excess == Estimate(d, now) + (cost - Limit) * BucketMs
  IN AtLeast(1, IF oldest > 0 /\ excess <= oldest * Weight(now)
                THEN CeilDiv(excess, oldest)
                ELSE (BucketOf(now) + 1) * BucketMs - now)

LEMMA SlotsAnswer ==
  ASSUME NEW now \in Nat, NEW d, Estimate(d, now) \in Nat,
         Estimate(d, now) <= Limit * BucketMs, NEW cost \in Nat
  PROVE  LET v == SlidingWindow(d, now, cost)
             n == IF v.allowed THEN cost ELSE 0
         IN /\ v.allowed <=> Estimate(d, now) + cost * BucketMs <= Limit * BucketMs
            /\ v.remaining
                 = AtLeast(0, (Limit * BucketMs - (Estimate(d, now) + n * BucketMs)) \div BucketMs)
            /\ v.resetAt = (BucketOf(now) + 1) * BucketMs + WindowMs
            /\ v.retryAfter = IF v.allowed THEN 0 ELSE RetryOfSlots(d, now, cost)
            /\ ~ v.allowed => v.data = d /\ v.px = 0
            /\ v.allowed => v.data = Written(d, BucketOf(now), cost) /\ v.px = Lifetime
<1> DEFINE v      == SlidingWindow(d, now, cost)
           n      == IF v.allowed THEN cost ELSE 0
           c      == BucketOf(now)
           excess == Estimate(d, now) + (cost - Limit) * BucketMs
           reset  == (c + 1) * BucketMs + WindowMs
           spare  == (- excess) \div BucketMs
           left   == (Limit * BucketMs - Estimate(d, now)) \div BucketMs
           new    == Written(d, c, cost)
           retry  == RetryOfSlots(d, now, cost)
<1>1. v = IF excess <= 0 THEN Allow(spare, reset, new, Lifetime)
          ELSE Deny(left, reset, retry, d)
  BY DEF SlidingWindow, Estimate, BucketOf, InWindow, Weight, Written, RetryOfSlots
<1>2. /\ cost * BucketMs \in Nat /\ Limit * BucketMs \in Nat
      /\ (cost - Limit) * BucketMs = cost * BucketMs - Limit * BucketMs
      /\ BucketMs \in Nat /\ 0 * BucketMs = 0
  BY BucketsFill, Windows
<1>3. /\ excess <= 0 <=> Estimate(d, now) + cost * BucketMs <= Limit * BucketMs
      /\ - excess = Limit * BucketMs - (Estimate(d, now) + cost * BucketMs)
      /\ Estimate(d, now) + 0 * BucketMs = Estimate(d, now)
  BY <1>2
<1> HIDE DEF v, excess, reset, new, retry
<1>4. CASE excess <= 0
  <2>1. /\ v.allowed /\ v.remaining = AtLeast(0, spare) /\ v.resetAt = reset
        /\ v.retryAfter = 0 /\ v.data = new /\ v.px = Lifetime
    BY <1>1, <1>4 DEF Allow
  <2>2. spare = (Limit * BucketMs - (Estimate(d, now) + n * BucketMs)) \div BucketMs
    BY <1>3, <2>1
  <2> HIDE DEF spare, n
  <2> QED
    BY <1>3, <1>4, <2>1, <2>2 DEF v, reset, new, n
<1>5. CASE ~ (excess <= 0)
  <2>1. /\ ~ v.allowed /\ v.remaining = AtLeast(0, left) /\ v.resetAt = reset
        /\ v.retryAfter = retry /\ v.data = d /\ v.px = 0
    BY <1>1, <1>5 DEF Deny
  <2>2. left = (Limit * BucketMs - (Estimate(d, now) + n * BucketMs)) \div BucketMs
    BY <1>3, <2>1
  <2> HIDE DEF left, n
  <2> QED
    BY <1>3, <1>5, <2>1, <2>2 DEF v, reset, retry, n
<1> QED
  BY <1>4, <1>5

\* An admission adds its cost to the estimate.
LEMMA EstimateSpends ==
  ASSUME NEW now \in Nat, NEW lives \in Int, NEW d, IsSlots(d, now, lives), NEW cost \in Nat,
         Estimate(d, now) <= Limit * BucketMs
  PROVE  LET v   == SlidingWindow(d, now, cost)
             end == IF v.px > 0 THEN now + v.px ELSE lives
         IN /\ InWindow(d, BucketOf(now)) <= Limit
            /\ end \in Int /\ IsSlots(v.data, now, end)
            /\ Estimate(v.data, now)
                 = Estimate(d, now) + (IF v.allowed THEN cost ELSE 0) * BucketMs
            /\ Estimate(v.data, now) <= Limit * BucketMs
<1> DEFINE v    == SlidingWindow(d, now, cost)
           n    == IF v.allowed THEN cost ELSE 0
           c    == BucketOf(now)
           end  == IF v.px > 0 THEN now + v.px ELSE lives
           full == InWindow(d, c)
           oldest == CountOf(d, c - Buckets)
           weight == Weight(now)
<1>1. /\ c \in Nat /\ BucketMs \in Nat \ {0} /\ Buckets \in Nat \ {0} /\ Limit \in Nat
      /\ n \in Nat /\ IsFiniteSet(d)
      /\ \A h \in d : h.index \in Nat /\ h.count \in Nat /\ h.index <= c
  BY BucketOfInstant, BucketsFill, Windows DEF IsSlots
<1>2. full \in Nat /\ oldest \in Nat /\ weight \in Nat /\ Estimate(d, now) \in Nat
  BY EstimateIsNat
<1>3. Estimate(d, now) = full * BucketMs + oldest * weight
  BY DEF Estimate
<1>4. full <= Limit
  <2> HIDE DEF full, oldest, weight
  <2>1. full * BucketMs <= Limit * BucketMs
    <3>1. oldest * weight \in Nat /\ full * BucketMs \in Nat /\ Limit * BucketMs \in Nat
      BY <1>1, <1>2
    <3> QED
      BY <1>2, <1>3, <3>1
  <2> QED
    BY <1>1, <1>2, <2>1
<1>5. /\ end \in Int /\ IsSlots(v.data, now, end)
      /\ \A i \in Int :
           i >= c - Buckets + 1 /\ i <= c =>
             SumFunctionOnSet(Counts(v.data, c), i .. c) = SumFunctionOnSet(Counts(d, c), i .. c) + n
  BY <1>4, SlotsSpend
<1>6. /\ v.allowed <=> Estimate(d, now) + cost * BucketMs <= Limit * BucketMs
      /\ ~ v.allowed => v.data = d
      /\ v.allowed => v.data = Written(d, c, cost)
  BY <1>2, SlotsAnswer
<1> HIDE DEF v, n, c, end
<1>7. InWindow(v.data, c) = full + n
  <2>1. c - Buckets + 1 \in Int /\ c - Buckets + 1 >= c - Buckets + 1 /\ c - Buckets + 1 <= c
    BY <1>1
  <2>2. SumFunctionOnSet(Counts(v.data, c), (c - Buckets + 1) .. c)
          = SumFunctionOnSet(Counts(d, c), (c - Buckets + 1) .. c) + n
    BY <1>5, <2>1
  <2> QED
    BY <1>1, <2>2, WindowIsSpan
<1>8. CountOf(v.data, c - Buckets) = oldest
  <2>1. CASE ~ v.allowed
    BY <1>6, <2>1
  <2>2. CASE v.allowed
    <3>1. c - Buckets \in Int /\ c - Buckets < c /\ c - Buckets >= c - Buckets
      BY <1>1
    <3> QED
      BY <1>1, <1>6, <2>2, <3>1, CountOfWritten
  <2> QED
    BY <2>1, <2>2
<1>9. Estimate(v.data, now) = (full + n) * BucketMs + oldest * weight
  BY <1>7, <1>8 DEF Estimate, c
<1>10. Estimate(v.data, now) = Estimate(d, now) + n * BucketMs
  <2> HIDE DEF full, oldest, weight
  <2>1. (full + n) * BucketMs = full * BucketMs + n * BucketMs
    BY <1>1, <1>2
  <2>2. full * BucketMs \in Nat /\ n * BucketMs \in Nat /\ oldest * weight \in Nat
    BY <1>1, <1>2
  <2> QED
    BY <1>3, <1>9, <2>1, <2>2
<1>11. Estimate(v.data, now) <= Limit * BucketMs
  <2>1. CASE v.allowed
    BY <1>6, <1>10, <2>1 DEF n
  <2>2. CASE ~ v.allowed
    BY <1>6, <2>2
  <2> QED
    BY <2>1, <2>2
<1> HIDE DEF full
<1> QED
  BY <1>4, <1>5, <1>10, <1>11 DEF v, n, c, end, full

\* Within a bucket the same counts are found, whether or not the key has expired.
LEMMA SameBucket ==
  ASSUME NEW now \in Nat, NEW lives \in Int, NEW d, IsSlots(d, now, lives),
         NEW i \in Nat, now <= i, i < BucketOf(now) * BucketMs + BucketMs
  PROVE  LET e == IF i < lives THEN d ELSE {}
             c == BucketOf(now)
         IN /\ BucketOf(i) = c
            /\ IsSlots(e, i, lives)
            /\ InWindow(e, c) = InWindow(d, c)
            /\ CountOf(e, c - Buckets) = CountOf(d, c - Buckets)
<1> DEFINE e == IF i < lives THEN d ELSE {}
           c == BucketOf(now)
<1>1. c \in Nat /\ c * BucketMs <= now /\ c * BucketMs \in Nat /\ Buckets \in Nat
  BY BucketOfInstant, BucketsFill
<1>2. BucketOf(i) = c
  <2>1. BucketOf(i) \in Nat /\ c * BucketMs <= i
    BY <1>1, BucketOfInstant
  <2> HIDE DEF c
  <2>2. c <= BucketOf(i)
    BY <1>1, <2>1, BucketBounds
  <2>3. BucketOf(i) <= c
    BY <1>1, BucketBounds DEF c
  <2> QED
    BY <1>1, <2>1, <2>2, <2>3
<1>3. IsSlots(d, i, lives)
  BY <1>2 DEF IsSlots
<1>4. IsSlots(e, i, lives)
  BY <1>3, FS_EmptySet DEF IsSlots
<1>5. \A j \in Int : j >= c - Buckets => CountOf(e, j) = CountOf(d, j)
  BY <1>2, <1>3, DeadSlots
<1> HIDE DEF e, c
<1>6. InWindow(e, c) = InWindow(d, c)
  <2>1. Counts(e, c) = Counts(d, c)
    BY <1>1, <1>5 DEF Counts
  <2> QED
    BY <2>1 DEF InWindow
<1>7. CountOf(e, c - Buckets) = CountOf(d, c - Buckets)
  BY <1>1, <1>5
<1> QED
  BY <1>2, <1>4, <1>6, <1>7 DEF e, c

\* Once the whole window has passed since the last bucket that was written, nothing
\* is left.
LEMMA SlotsAreOver ==
  ASSUME NEW d, NEW c \in Nat, \A h \in d : h.index \in Nat /\ h.index <= c,
         NEW i \in Nat, BucketOf(i) > c + Buckets
  PROVE  Estimate(d, i) = 0
<1> DEFINE b == BucketOf(i)
<1>1. b \in Nat /\ Buckets \in Nat /\ b * BucketMs \in Nat /\ BucketMs \in Nat
  BY BucketOfInstant, BucketsFill
<1> HIDE DEF b
<1>2. \A j \in Int : j >= b - Buckets => CountOf(d, j) = 0
  <2> SUFFICES ASSUME NEW j \in Int, j >= b - Buckets PROVE CountOf(d, j) = 0
    OBVIOUS
  <2>1. \A h \in d : h.index # j
    BY <1>1 DEF b
  <2> QED
    BY <2>1, CountOfNone
<1>3. InWindow(d, b) = 0
  <2>1. \A j \in (b - Buckets + 1) .. b : Counts(d, b)[j] = 0
    BY <1>1, <1>2 DEF Counts
  <2>2. IsFiniteSet((b - Buckets + 1) .. b)
    BY <1>1, FS_Interval
  <2>3. SumFunctionOnSet(Counts(d, b), (b - Buckets + 1) .. b) = 0
    BY ONLY <2>1, <2>2, SumOfZeros
  <2>4. b \in Int
    BY <1>1
  <2> QED
    BY <2>3, <2>4, WindowIsSpan
<1>4. CountOf(d, b - Buckets) = 0
  BY <1>1, <1>2
<1>5. Weight(i) \in Int
  BY <1>1 DEF Weight, b
<1>6. 0 * BucketMs = 0 /\ 0 * Weight(i) = 0
  BY <1>1, <1>5
<1> QED
  BY <1>3, <1>4, <1>6 DEF Estimate, b

\* The advice to a denied cost: while the oldest bucket weighs, its weight is falling.
LEMMA RetryOfSlotsIsNeeded ==
  ASSUME NEW oldest \in Nat, NEW weight \in Nat \ {0}, NEW excess \in Nat \ {0},
         NEW past \in Nat,
         past <= AtLeast(1, IF oldest > 0 /\ excess <= oldest * weight
                            THEN CeilDiv(excess, oldest) ELSE weight) - 1
  PROVE  past < weight /\ oldest * past < excess
<1> DEFINE soon == oldest > 0 /\ excess <= oldest * weight
           ceil == CeilDiv(excess, oldest)
           wait == IF soon THEN ceil ELSE weight
<1>1. ASSUME soon
      PROVE  ceil \in Nat \ {0} /\ ceil <= weight /\ oldest * (ceil - 1) < excess
  <2>1. oldest \in Nat \ {0} /\ excess \in Int
    BY <1>1
  <2>2. ceil \in Int /\ excess <= ceil * oldest /\ (ceil - 1) * oldest < excess
    BY <2>1, CeilDivIsEnough, CeilDivIsLeast
  <2> HIDE DEF ceil
  <2>3. oldest * (ceil - 1) = (ceil - 1) * oldest
    BY <2>2
  <2>4. ceil >= 1
    <3>1. CASE ceil <= 0
      <4>1. ceil * oldest <= 0
        BY <2>1, <2>2, <3>1
      <4> QED
        BY <2>1, <2>2, <4>1
    <3> QED
      BY <2>2, <3>1
  <2>5. ceil <= weight
    <3>1. CASE weight <= ceil - 1
      <4>1. oldest * weight <= oldest * (ceil - 1)
        BY <2>2, <3>1, TimesIsMonotone
      <4>2. oldest * weight \in Int /\ oldest * (ceil - 1) \in Int
        BY <2>2
      <4> QED
        BY <1>1, <2>1, <2>2, <2>3, <4>1, <4>2
    <3> QED
      BY <2>2, <3>1
  <2> QED
    BY <2>2, <2>3, <2>4, <2>5
<1>2. wait \in Nat \ {0} /\ wait <= weight
  BY <1>1
<1>3. AtLeast(1, wait) = wait
  <2> HIDE DEF wait
  <2>1. wait \in Int /\ 1 \in Int
    BY <1>2
  <2>2. Max({1, wait}) \in {1, wait} /\ Max({1, wait}) >= wait
    BY ONLY <2>1, MaxOfTwo
  <2> QED
    BY <1>2, <2>2 DEF AtLeast
<1>4. past <= wait - 1
  BY <1>3
<1> HIDE DEF wait
<1>5. past < weight
  BY <1>2, <1>4
<1>6. oldest * past < excess
  <2>1. oldest * past \in Int /\ oldest * weight \in Int
    OBVIOUS
  <2>2. CASE soon
    <3>1. wait = ceil
      BY <2>2 DEF wait
    <3>2. ceil \in Nat \ {0} /\ oldest * (ceil - 1) < excess
      BY <1>1, <2>2
    <3> HIDE DEF ceil
    <3>3. oldest * past <= oldest * (ceil - 1) /\ oldest * (ceil - 1) \in Int
      BY <1>4, <3>1, <3>2, TimesIsMonotone
    <3> QED
      BY <2>1, <3>2, <3>3
  <2>3. CASE oldest = 0
    BY <2>3
  <2>4. CASE oldest > 0 /\ ~ soon
    <3>1. oldest * past <= oldest * weight
      BY <1>5, TimesIsMonotone
    <3> QED
      BY <2>1, <2>4, <3>1
  <2> QED
    BY <2>2, <2>3, <2>4
<1> QED
  BY <1>5, <1>6

LEMMA SlotsAdvice ==
  ASSUME NEW now \in Nat, NEW lives \in Int, NEW d, IsSlots(d, now, lives),
         Estimate(d, now) <= Limit * BucketMs, NEW cost \in Nat
  PROVE  /\ Spendable("slidingWindow", d, now, lives, cost)
         /\ NotBefore("slidingWindow", d, now, lives, cost)
         /\ Replenished("slidingWindow", d, now, lives, cost)
<1> DEFINE v     == SlidingWindow(d, now, cost)
           end   == IF v.px > 0 THEN now + v.px ELSE lives
           key(i) == IF i < end THEN v.data ELSE {}
           c     == BucketOf(now)
           n     == IF v.allowed THEN cost ELSE 0
           est   == Estimate(v.data, now)
           full  == InWindow(d, c)
           oldest == CountOf(d, c - Buckets)
           weight == Weight(now)
<1>1. \A e, i, k : Script("slidingWindow", e, i, k) = SlidingWindow(e, i, k)
  BY DEF Script
<1>2. /\ c \in Nat /\ BucketMs \in Nat \ {0} /\ Buckets \in Nat \ {0} /\ Limit \in Nat
      /\ c * BucketMs \in Nat /\ c * BucketMs <= now /\ now < c * BucketMs + BucketMs
      /\ Limit * BucketMs \in Nat /\ Limit * BucketMs = BucketMs * Limit
      /\ Buckets * BucketMs = WindowMs
      /\ n \in Nat
  BY BucketOfInstant, BucketsFill, Windows
<1>3. /\ full \in Nat /\ oldest \in Nat /\ weight \in Nat \ {0} /\ Estimate(d, now) \in Nat
      /\ Estimate(d, now) = full * BucketMs + oldest * weight
      /\ weight = (c * BucketMs + BucketMs) - now
  <2>1. weight = (c * BucketMs + BucketMs) - now
    BY <1>2 DEF Weight
  <2> QED
    BY <2>1, EstimateIsNat DEF Estimate
<1>4. /\ end \in Int /\ IsSlots(v.data, now, end)
      /\ est = Estimate(d, now) + n * BucketMs
      /\ est <= Limit * BucketMs
  BY EstimateSpends
<1>5. /\ v.allowed <=> Estimate(d, now) + cost * BucketMs <= Limit * BucketMs
      /\ v.remaining = AtLeast(0, (Limit * BucketMs - est) \div BucketMs)
      /\ v.resetAt = (c + 1) * BucketMs + WindowMs
      /\ v.retryAfter = IF v.allowed THEN 0 ELSE RetryOfSlots(d, now, cost)
      /\ ~ v.allowed => v.data = d /\ v.px = 0
  BY <1>3, <1>4, SlotsAnswer
<1>6. \A i : After("slidingWindow", d, now, lives, cost, i) = key(i)
  BY <1>1 DEF After
<1>7. est \in Nat
  BY <1>4, EstimateIsNat
<1> HIDE DEF v, n, c, end, est, full, oldest, weight
<1>8. ASSUME NEW i \in Nat, now <= i, i < c * BucketMs + BucketMs
      PROVE  /\ BucketOf(i) = c
             /\ IsSlots(key(i), i, end)
             /\ InWindow(key(i), c) = InWindow(v.data, c)
             /\ CountOf(key(i), c - Buckets) = CountOf(v.data, c - Buckets)
  BY <1>4, <1>8, SameBucket DEF c
<1> HIDE DEF key
<1>9. Estimate(key(now), now) = est
  BY <1>2, <1>8 DEF Estimate, est, c
<1>10. Spendable("slidingWindow", d, now, lives, cost)
  <2> DEFINE room == Limit * BucketMs - est
  <2>1. room \in Nat /\ room <= BucketMs * Limit
    BY <1>2, <1>4, <1>7
  <2>2. v.remaining = AtLeast(0, room \div BucketMs)
    BY <1>5
  <2> HIDE DEF room
  <2>3. /\ v.remaining \in 0 .. Limit
        /\ BucketMs * v.remaining <= room /\ room < BucketMs * (v.remaining + 1)
    BY <1>2, <2>1, <2>2, UnitsThatFit
  <2>4. /\ v.remaining \in Nat /\ v.remaining + 1 \in Nat
        /\ v.remaining * BucketMs = BucketMs * v.remaining
        /\ (v.remaining + 1) * BucketMs = BucketMs * (v.remaining + 1)
        /\ v.remaining * BucketMs \in Nat /\ (v.remaining + 1) * BucketMs \in Nat
    BY <1>2, <2>3
  <2>5. ASSUME NEW k \in Nat
        PROVE  SlidingWindow(key(now), now, k).allowed <=> est + k * BucketMs <= Limit * BucketMs
    BY <1>4, <1>7, <1>9, SlotsAnswer
  <2>6. SlidingWindow(key(now), now, v.remaining).allowed
    BY <1>2, <1>7, <2>3, <2>4, <2>5 DEF room
  <2>7. ~ SlidingWindow(key(now), now, v.remaining + 1).allowed
    BY <1>2, <1>7, <2>3, <2>4, <2>5 DEF room
  <2> QED
    BY <1>1, <1>6, <2>3, <2>6, <2>7 DEF Spendable, v
<1>11. NotBefore("slidingWindow", d, now, lives, cost)
  <2>1. ASSUME NEW i \in now .. (now + v.retryAfter - 1)
        PROVE  ~ SlidingWindow(key(i), i, cost).allowed
    <3> DEFINE past   == i - now
               excess == Estimate(d, now) + (cost - Limit) * BucketMs
    <3>1. ~ v.allowed /\ v.data = d
      <4>1. v.allowed => v.retryAfter = 0
        BY <1>5
      <4> QED
        BY <1>5, <2>1, <4>1
    <3>2. (cost - Limit) * BucketMs = cost * BucketMs - Limit * BucketMs
            /\ cost * BucketMs \in Nat
      BY <1>2
    <3>3. excess \in Nat \ {0}
      BY <1>2, <1>3, <1>5, <3>1, <3>2
    <3>4. v.retryAfter = AtLeast(1, IF oldest > 0 /\ excess <= oldest * weight
                                    THEN CeilDiv(excess, oldest) ELSE weight)
      <4>1. (c + 1) * BucketMs - now = weight
        BY <1>2, <1>3
      <4>2. v.retryAfter = RetryOfSlots(d, now, cost)
        BY <1>5, <3>1
      <4> QED
        BY <4>1, <4>2 DEF RetryOfSlots, oldest, weight, c
    <3>5. v.retryAfter \in Int
      <4>1. (oldest * weight \in Int /\ CeilDiv(excess, oldest) \in Int) \/ oldest = 0
        BY <1>3, <3>3, CeilDivIsEnough
      <4> HIDE DEF excess
      <4>2. (IF oldest > 0 /\ excess <= oldest * weight
             THEN CeilDiv(excess, oldest) ELSE weight) \in Int
        BY <1>3, <4>1
      <4> QED
        BY <3>4, <4>2, AtLeastOne
    <3>6. past \in Nat /\ i \in Nat /\ now <= i /\ i = now + past /\ past <= v.retryAfter - 1
      BY <2>1, <3>5
    <3> HIDE DEF past, excess
    <3>7. past < weight /\ oldest * past < excess
      BY <1>3, <3>3, <3>4, <3>6, RetryOfSlotsIsNeeded
    <3>8. i < c * BucketMs + BucketMs
      BY <1>2, <1>3, <3>6, <3>7
    <3>9. /\ BucketOf(i) = c /\ InWindow(key(i), c) = full
          /\ CountOf(key(i), c - Buckets) = oldest
          /\ IsSlots(key(i), i, end)
      BY <1>8, <3>1, <3>6, <3>8 DEF full, oldest
    <3>10. Weight(i) = weight - past
      BY <1>2, <1>3, <3>6, <3>9 DEF Weight
    <3>11. oldest * (weight - past) = oldest * weight - oldest * past
             /\ oldest * weight \in Nat /\ oldest * past \in Nat /\ full * BucketMs \in Nat
      BY <1>2, <1>3, <3>6
    <3>12. Estimate(key(i), i) = Estimate(d, now) - oldest * past
      BY <1>3, <3>9, <3>10, <3>11 DEF Estimate
    <3>13. Estimate(key(i), i) \in Nat
      BY <1>4, <3>6, <3>9, EstimateIsNat
    <3>14. Estimate(key(i), i) <= Limit * BucketMs
      BY <1>2, <1>3, <3>11, <3>12
    <3>15. ~ (Estimate(key(i), i) + cost * BucketMs <= Limit * BucketMs)
      BY <1>2, <1>3, <3>2, <3>7, <3>11, <3>12 DEF excess
    <3> QED
      BY <3>6, <3>13, <3>14, <3>15, SlotsAnswer
  <2> QED
    BY <1>1, <1>6, <2>1 DEF NotBefore, v
<1>12. Replenished("slidingWindow", d, now, lives, cost)
  <2> DEFINE i == v.resetAt
             last == c + 1 + Buckets
  <2>1. i = last * BucketMs /\ last \in Nat
    <3>1. (c + 1) * BucketMs + Buckets * BucketMs = last * BucketMs
      BY <1>2
    <3> QED
      BY <1>2, <1>5, <3>1
  <2>2. i \in Nat
    BY <1>2, <2>1
  <2> HIDE DEF i
  <2>3. BucketOf(i) > c + Buckets
    <3> HIDE DEF last
    <3>1. last * BucketMs <= i
      BY <2>1, <2>2
    <3>2. last \in Nat /\ BucketOf(i) \in Nat
      BY <2>1, <2>2, BucketOfInstant
    <3>3. last <= BucketOf(i)
      BY ONLY <2>2, <3>1, <3>2, BucketBounds
    <3> QED
      BY <1>2, <3>2, <3>3 DEF last
  <2>4. \A h \in key(i) : h.index \in Nat /\ h.index <= c
    BY <1>4 DEF IsSlots, key, c
  <2>5. Estimate(key(i), i) = 0
    BY <1>2, <2>2, <2>3, <2>4, SlotsAreOver
  <2>6. SlidingWindow(key(i), i, Limit).allowed
    BY <1>2, <2>2, <2>5, SlotsAnswer
  <2> QED
    BY <1>1, <1>6, <2>6 DEF Replenished, v, i
<1> QED
  BY <1>10, <1>11, <1>12

-----------------------------------------------------------------------------
(* A full allowance comes back, and a key that expires takes nothing with it.*)

LEMMA GcraReplenishes ==
  ASSUME NEW d, IsArrival(d), NEW now \in Int, NEW cost \in Nat,
         NEW e, e \in {Gcra(d, now, cost).data, {}}
  PROVE  Gcra(e, Gcra(d, now, cost).resetAt, Limit).allowed
<1> DEFINE v    == Gcra(d, now, cost)
           tat  == ArrivalTime(d, now)
           then == tat + PeriodMs * cost
           i    == v.resetAt
<1>1. tat \in Int /\ then \in Int /\ \A n \in d : n <= tat /\ n \in Int
  <2>1. tat \in Int /\ \A n \in d : n <= tat
    BY ArrivalTimeIsLatest
  <2>2. \A n \in d : n \in Int
    BY DEF IsArrival
  <2>3. PeriodMs * cost \in Int
    BY Constants
  <2> QED
    BY <2>1, <2>2, <2>3
<1>2. \E t \in Int : i = CeilDiv(t, Cells) /\ \A n \in v.data : n \in Int /\ n <= t
  <2>1. CASE now * Cells < AllowAt(d, now, cost)
    <3>1. v.data = d
      BY <2>1, GcraDenies
    <3>2. v.resetAt = CeilDiv(tat, Cells)
      BY <2>1 DEF Gcra, Deny, AllowAt
    <3> QED
      BY <1>1, <3>1, <3>2
  <2>2. CASE ~ (now * Cells < AllowAt(d, now, cost))
    <3>1. v.data = {then}
      BY <2>2, GcraAllows
    <3>2. v.resetAt = CeilDiv(then, Cells)
      BY <2>2 DEF Gcra, Allow, AllowAt
    <3> HIDE DEF then, v
    <3> QED
      BY <1>1, <3>1, <3>2
  <2> QED
    BY <2>1, <2>2
<1>3. IsArrival(e)
  <2>1. CASE now * Cells < AllowAt(d, now, cost)
    BY <2>1, GcraDenies DEF IsArrival
  <2>2. CASE ~ (now * Cells < AllowAt(d, now, cost))
    BY <1>1, <2>2, GcraAllows DEF IsArrival
  <2> QED
    BY <2>1, <2>2
<1> HIDE DEF v
<1>4. i \in Int /\ i * Cells \in Int /\ \A n \in e : n <= i * Cells
  <2>1. PICK t \in Int : i = CeilDiv(t, Cells) /\ \A n \in v.data : n \in Int /\ n <= t
    BY <1>2
  <2>2. CeilDiv(t, Cells) \in Int /\ t <= CeilDiv(t, Cells) * Cells
    BY Constants, CeilDivIsEnough
  <2> HIDE DEF i
  <2>3. i \in Int /\ t <= i * Cells /\ i * Cells \in Int
    BY <2>1, <2>2, Constants
  <2>4. \A n \in e : n \in Int /\ n <= t
    BY <2>1 DEF v
  <2> QED
    BY <2>3, <2>4
<1> HIDE DEF i
<1>5. ArrivalTime(e, i) = i * Cells
  BY <1>3, <1>4, ArrivalTimeIsLatest
<1>6. PeriodMs * Limit <= Room(e, i)
  <2>1. PeriodMs * Limit \in Int /\ i * Cells - i * Cells = 0
    BY <1>4, Constants
  <2> QED
    BY <1>5, <2>1 DEF Room
<1>7. Limit \in Int
  BY Constants
<1> QED
  BY <1>3, <1>4, <1>6, <1>7, GcraAdmitsWhatFits DEF i, v

LEMMA TokensGrow ==
  ASSUME NEW d, NEW now \in Int, IsBucket(d, now), NEW past \in Nat,
         Tokens(d, now) + past * RefillTokens >= Limit * RefillMs
  PROVE  Tokens(d, now + past) = Limit * RefillMs /\ IsBucket(d, now + past)
<1>1. CASE d = {}
  BY <1>1 DEF Tokens, IsBucket
<1>2. ASSUME NEW n \in Int, NEW l \in Int, l <= now, d = {[tokens |-> n, last |-> l]}
      PROVE  Tokens(d, now + past) = Limit * RefillMs /\ IsBucket(d, now + past)
  <2> DEFINE full == Limit * RefillMs
             then == n + ((now + past) - l) * RefillTokens
             here == n + (now - l) * RefillTokens
  <2>1. full \in Int /\ past * RefillTokens \in Nat /\ here \in Int
    BY Constants
  <2>2. then = here + past * RefillTokens /\ then \in Int
    BY Constants
  <2>3. l <= now + past /\ now + past \in Int
    BY <1>2
  <2>4. Tokens(d, now + past) \in {full, then} /\ Tokens(d, now + past) <= full
          /\ Tokens(d, now + past) <= then
    BY <1>2, <2>3, TokensOfKey
  <2>5. Tokens(d, now) <= here /\ Tokens(d, now) \in Int
    BY <1>2, TokensOfKey, TokensAreInt
  <2>6. IsBucket(d, now + past)
    BY <1>2, <2>3 DEF IsBucket
  <2> HIDE DEF full, then, here
  <2>7. full <= Tokens(d, now) + past * RefillTokens
    BY DEF full
  <2>8. then >= full
    BY <2>1, <2>2, <2>5, <2>7
  <2>9. Tokens(d, now + past) = full
    BY <2>1, <2>2, <2>4, <2>8
  <2> QED
    BY <2>6, <2>9 DEF full
<1> QED
  BY <1>1, <1>2 DEF IsBucket

LEMMA BucketReplenishes ==
  ASSUME NEW d, NEW now \in Int, IsBucket(d, now), \A h \in d : h.tokens >= 0,
         NEW cost \in Nat, NEW e, e \in {TokenBucket(d, now, cost).data, {}}
  PROVE  TokenBucket(e, TokenBucket(d, now, cost).resetAt, Limit).allowed
<1> DEFINE v    == TokenBucket(d, now, cost)
           full == Limit * RefillMs
           left == Tokens(d, now) - cost * RefillMs
           gap  == full - Tokens(v.data, now)
           wait == CeilDiv(gap, RefillTokens)
<1>1. /\ Tokens(d, now) \in Nat /\ Tokens(d, now) <= full
      /\ full \in Nat /\ cost * RefillMs \in Nat /\ RefillMs * Limit = full
  BY TokensInBucket, Constants
<1>2. IsBucket(v.data, now) /\ v.resetAt = now + wait /\ Tokens(v.data, now) \in 0 .. full
  <2>1. CASE left >= 0
    <3>1. v.data = {[tokens |-> left, last |-> now]}
      BY <2>1, BucketAllows
    <3>2. left \in Nat /\ left <= full
      BY <1>1, <2>1
    <3>3. IsBucket(v.data, now)
      BY <3>1, <3>2 DEF IsBucket
    <3>4. Tokens(v.data, now) = left
      BY <3>1, <3>2, TokensOfFresh
    <3>5. v.resetAt = now + CeilDiv(full - left, RefillTokens)
      BY <2>1 DEF TokenBucket, Allow
    <3> HIDE DEF left, v, full
    <3> QED
      BY <1>1, <3>2, <3>3, <3>4, <3>5
  <2>2. CASE ~ (left >= 0)
    <3>1. v.data = d
      BY <2>2, BucketDenies
    <3>2. v.resetAt = now + CeilDiv(full - Tokens(d, now), RefillTokens)
      BY <2>2 DEF TokenBucket, Deny
    <3> HIDE DEF v, full
    <3> QED
      BY <1>1, <3>1, <3>2
  <2> QED
    BY <2>1, <2>2
<1>3. wait \in Nat /\ gap <= wait * RefillTokens /\ gap \in Nat
  <2>1. gap \in Nat
    BY <1>1, <1>2
  <2> HIDE DEF gap
  <2>2. wait \in Int /\ gap <= wait * RefillTokens
    BY <2>1, CeilDivIsEnough, Constants
  <2> HIDE DEF wait
  <2>3. wait >= 0
    BY <2>1, <2>2, Constants
  <2> QED
    BY <2>1, <2>2, <2>3
<1> HIDE DEF v, wait
<1>4. Tokens(v.data, now + wait) = full /\ IsBucket(v.data, now + wait)
  <2>1. wait * RefillTokens \in Int
    BY <1>3, Constants
  <2>2. Tokens(v.data, now) + wait * RefillTokens >= full
    BY <1>1, <1>2, <1>3, <2>1
  <2> QED
    BY <1>2, <1>3, <2>2, TokensGrow
<1>5. Tokens(e, now + wait) = full /\ IsBucket(e, now + wait)
  <2>1. CASE e = {}
    BY <2>1 DEF Tokens, IsBucket
  <2> QED
    BY <1>4, <2>1 DEF v
<1>6. TokenBucket(e, now + wait, Limit).allowed
  <2>1. now + wait \in Int /\ Limit \in Int /\ RefillMs * Limit <= Tokens(e, now + wait)
    BY <1>1, <1>3, <1>5, Constants
  <2> QED
    BY <1>5, <2>1, BucketAdmitsWhatFits
<1> QED
  BY <1>2, <1>6 DEF v

\* A key and a missing one are answered alike.
Alike(k, d, now, cost) ==
  LET kept == Script(k, d, now, cost)
      gone == Script(k, {}, now, cost)
  IN kept.allowed = gone.allowed /\ kept.remaining = gone.remaining

LEMMA GcraForgets ==
  ASSUME NEW d, IsArrival(d), NEW now \in Int, \A n \in d : n <= now * Cells, NEW cost
  PROVE  Alike("gcra", d, now, cost)
<1> DEFINE same(e) == Gcra(e, now, cost)
<1>1. ArrivalTime(d, now) = now * Cells /\ ArrivalTime({}, now) = now * Cells
  <2>1. now * Cells \in Int /\ IsArrival({})
    BY Constants DEF IsArrival
  <2> QED
    BY <2>1, ArrivalTimeIsLatest
<1>2. AllowAt(d, now, cost) = AllowAt({}, now, cost)
  BY <1>1 DEF AllowAt
<1>3. same(d).allowed = same({}).allowed /\ same(d).remaining = same({}).remaining
  BY <1>1 DEF Gcra, Allow, Deny
<1> QED
  BY <1>3 DEF Alike, Script

LEMMA BucketForgets ==
  ASSUME NEW d, NEW now \in Int, IsBucket(d, now), NEW lives \in Int, lives <= now,
         \A h \in d : h.tokens >= 0 /\ Limit * RefillMs <= (lives - h.last) * RefillTokens,
         NEW cost
  PROVE  Alike("tokenBucket", d, now, cost)
<1>1. Tokens(d, now) = Tokens({}, now)
  <2>1. Tokens({}, now) = Limit * RefillMs /\ Limit * RefillMs \in Int
    BY Constants DEF Tokens
  <2>2. ASSUME NEW n \in Int, NEW l \in Int, l <= now, d = {[tokens |-> n, last |-> l]}
        PROVE  Tokens(d, now) = Limit * RefillMs
    <3>1. n >= 0 /\ Limit * RefillMs <= (lives - l) * RefillTokens
      BY <2>2
    <3>2. (lives - l) * RefillTokens <= (now - l) * RefillTokens
            /\ (lives - l) * RefillTokens \in Int /\ (now - l) * RefillTokens \in Int
      BY <2>2, Constants
    <3>3. Limit * RefillMs <= n + (now - l) * RefillTokens /\ n + (now - l) * RefillTokens \in Int
      BY <2>1, <3>1, <3>2
    <3>4. /\ Tokens(d, now) \in {Limit * RefillMs, n + (now - l) * RefillTokens}
          /\ Tokens(d, now) <= Limit * RefillMs
      BY <2>2, TokensOfKey
    <3> QED
      BY <2>1, <3>3, <3>4
  <2> QED
    BY <2>1, <2>2 DEF IsBucket
<1> HIDE DEF Alike
<1>2. TokenBucket(d, now, cost).allowed = TokenBucket({}, now, cost).allowed
        /\ TokenBucket(d, now, cost).remaining = TokenBucket({}, now, cost).remaining
  BY <1>1 DEF TokenBucket, Allow, Deny
<1> QED
  BY <1>2 DEF Alike, Script

LEMMA WindowForgets ==
  ASSUME NEW now \in Nat, NEW lives \in Int, lives <= now, NEW d, IsWindow(d, now, lives),
         NEW cost
  PROVE  Alike("fixedWindow", d, now, cost)
<1>1. Counted(d, WindowOf(now)) = 0 /\ Counted({}, WindowOf(now)) = 0
  BY WindowIsOver DEF Counted
<1>2. FixedWindow(d, now, cost).allowed = FixedWindow({}, now, cost).allowed
        /\ FixedWindow(d, now, cost).remaining = FixedWindow({}, now, cost).remaining
  BY <1>1 DEF FixedWindow, WindowOf, Allow, Deny
<1> QED
  BY <1>2 DEF Alike, Script

LEMMA LogForgets ==
  ASSUME NEW now \in Nat, NEW lives \in Int, lives <= now, NEW d, IsLog(d, now, lives),
         NEW cost
  PROVE  Alike("slidingWindowLog", d, now, cost)
<1>1. Recent(d, now) = Recent({}, now)
  <2>1. \A e \in d : e.score \in Int /\ e.score + WindowMs <= lives
    BY DEF IsLog
  <2>2. \A e \in d : ~ (e.score > now - WindowMs)
    BY <2>1, Windows
  <2> QED
    BY <2>2 DEF Recent
<1>2. SlidingWindowLog(d, now, cost) = SlidingWindowLog({}, now, cost)
  BY <1>1 DEF SlidingWindowLog
<1> QED
  BY <1>2 DEF Alike, Script

LEMMA SlotsForget ==
  ASSUME NEW now \in Nat, NEW lives \in Int, lives <= now, NEW d, IsSlots(d, now, lives),
         NEW cost
  PROVE  Alike("slidingWindow", d, now, cost)
<1> DEFINE c == BucketOf(now)
<1>1. InWindow({}, c) = InWindow(d, c) /\ CountOf({}, c - Buckets) = CountOf(d, c - Buckets)
  <2>1. now <= now /\ now < c * BucketMs + BucketMs /\ ~ (now < lives)
    BY BucketOfInstant
  <2>2. /\ InWindow(IF now < lives THEN d ELSE {}, c) = InWindow(d, c)
        /\ CountOf(IF now < lives THEN d ELSE {}, c - Buckets) = CountOf(d, c - Buckets)
    BY <2>1, SameBucket
  <2> QED
    BY <2>1, <2>2
<1>2. SlidingWindow(d, now, cost).allowed = SlidingWindow({}, now, cost).allowed
        /\ SlidingWindow(d, now, cost).remaining = SlidingWindow({}, now, cost).remaining
  BY <1>1 DEF SlidingWindow, BucketOf, InWindow, Allow, Deny
<1> QED
  BY <1>2 DEF Alike, Script

\* On the server's clock the estimate never exceeds the limit: it falls as the oldest
\* bucket slides out, and at the start of a bucket what was full becomes the oldest.
EstimateBound == ~ own /\ kind = "slidingWindow" => Estimate(data, clock) <= Limit * BucketMs

ScriptInv == CeilingInv /\ EstimateBound

LEMMA EstimateFalls ==
  ASSUME NEW now \in Nat, NEW lives \in Int, NEW d, IsSlots(d, now, lives)
  PROVE  Estimate(d, now + 1) <= Estimate(d, now)
<1> DEFINE c    == BucketOf(now)
           full == InWindow(d, c)
           oldest == CountOf(d, c - Buckets)
           weight == Weight(now)
<1>1. /\ c \in Nat /\ BucketMs \in Nat \ {0} /\ Buckets \in Nat \ {0}
      /\ c * BucketMs \in Nat /\ c * BucketMs <= now /\ now < c * BucketMs + BucketMs
      /\ IsFiniteSet(d)
      /\ \A h \in d : h.index \in Nat /\ h.count \in Nat /\ h.index <= c
  BY BucketOfInstant, BucketsFill DEF IsSlots
<1>2. /\ full \in Nat /\ oldest \in Nat /\ weight \in Nat \ {0}
      /\ Estimate(d, now) = full * BucketMs + oldest * weight
      /\ weight = (c * BucketMs + BucketMs) - now
      /\ full * BucketMs \in Nat /\ oldest * weight \in Nat
  <2>1. weight = (c * BucketMs + BucketMs) - now
    BY <1>1 DEF Weight
  <2>2. full \in Nat /\ oldest \in Nat /\ weight \in Nat \ {0}
    BY EstimateIsNat
  <2> HIDE DEF full, oldest, weight
  <2>3. full * BucketMs \in Nat /\ oldest * weight \in Nat
    BY <1>1, <2>2
  <2> QED
    BY <2>1, <2>2, <2>3 DEF Estimate, full, oldest, weight
<1>3. CASE now + 1 < c * BucketMs + BucketMs
  <2>1. BucketOf(now + 1) = c
    BY <1>3, SameBucket
  <2>2. Weight(now + 1) = weight - 1
    BY <1>1, <1>2, <2>1 DEF Weight
  <2>3. Estimate(d, now + 1) = full * BucketMs + oldest * (weight - 1)
    BY <2>1, <2>2 DEF Estimate
  <2> HIDE DEF full, oldest, weight
  <2>4. oldest * (weight - 1) = oldest * weight - oldest
    BY <1>2
  <2> QED
    BY <1>2, <2>3, <2>4
<1>4. CASE ~ (now + 1 < c * BucketMs + BucketMs)
  <2>1. now + 1 = c * BucketMs + BucketMs /\ (c + 1) * BucketMs = c * BucketMs + BucketMs
    <3> HIDE DEF c
    <3>1. (c + 1) * BucketMs = c * BucketMs + BucketMs
      BY <1>1
    <3> QED
      BY <1>1, <1>4, <3>1
  <2>2. BucketOf(now + 1) = c + 1
    <3>0. now + 1 \in Nat /\ c + 1 \in Nat /\ (c + 1) * BucketMs <= now + 1
            /\ now + 1 < (c + 1) * BucketMs + BucketMs
      BY <1>1, <2>1
    <3>1. BucketOf(now + 1) \in Nat /\ c + 1 <= BucketOf(now + 1) /\ BucketOf(now + 1) <= c + 1
      BY ONLY <3>0, BucketBounds, BucketOfInstant
    <3> QED
      BY <1>1, <3>1
  <2>3. Weight(now + 1) = BucketMs
    BY <1>1, <2>1, <2>2 DEF Weight
  <2> DEFINE first == (c + 1) - Buckets
             f     == Counts(d, c)
             rest  == SumFunctionOnSet(f, (first + 1) .. c)
             x     == CountOf(d, first)
  <2>4. (c + 1) - Buckets + 1 = first + 1 /\ first \in Int /\ c \in Int /\ c + 1 \in Int
          /\ first + 1 \in Int /\ first + 1 <= c + 1
          /\ first = c - Buckets + 1 /\ first <= c
    BY <1>1
  <2>5. InWindow(d, c + 1) = rest
    <3>1. InWindow(d, c + 1)
            = SumFunctionOnSet(Counts(d, c + 1), ((c + 1) - Buckets + 1) .. (c + 1))
      BY <2>4, WindowIsSpan
    <3>2. SumFunctionOnSet(Counts(d, c + 1), (first + 1) .. (c + 1))
            = SumFunctionOnSet(Counts(d, c), (first + 1) .. c)
      <4> HIDE DEF first, c
      <4>1. \A h \in d : h.index \in Nat /\ h.count \in Nat /\ h.index <= c
        BY <1>1
      <4>2. c \in Nat /\ first + 1 >= (c + 1) - Buckets + 1
        BY <1>1, <2>4
      <4> QED
        BY ONLY <1>1, <2>4, <4>1, <4>2, NextBucket
    <3> QED
      BY <2>4, <3>1, <3>2
  <2>6. full = x + rest /\ x \in Nat /\ rest \in Nat
    <3> HIDE DEF c, first
    <3>1. \A h \in d : h.count \in Nat
      BY <1>1
    <3>2. /\ \A j \in first .. c : f[j] = CountOf(d, j)
          /\ Summable(f, first .. c)
      BY ONLY <1>1, <2>4, <3>1, CountsAreSummable
    <3>3. first \in first .. c /\ (first .. c) \ {first} = (first + 1) .. c
      BY <2>4
    <3>4. SumFunctionOnSet(f, first .. c) = f[first] + SumFunctionOnSet(f, (first .. c) \ {first})
      <4> DEFINE S == first .. c
      <4>1. Summable(f, S) /\ first \in S
        BY <3>2, <3>3
      <4> HIDE DEF S, f
      <4>2. SumFunctionOnSet(f, S) = f[first] + SumFunctionOnSet(f, S \ {first})
        BY ONLY <4>1, SumWithout
      <4> QED
        BY <4>2 DEF S
    <3>5. InWindow(d, c) = SumFunctionOnSet(Counts(d, c), first .. c)
      BY <2>4, WindowIsSpan
    <3>6. x \in Nat
      BY <1>1, <3>1, CountIsNat
    <3>7. rest \in Nat
      <4>1. first + 1 >= c - Buckets + 1
        BY <2>4
      <4> QED
        BY ONLY <1>1, <2>4, <3>1, <4>1, CountsAreSummable
    <3> QED
      BY <3>2, <3>3, <3>4, <3>5, <3>6, <3>7
  <2>7. Estimate(d, now + 1) = rest * BucketMs + x * BucketMs
    BY <2>2, <2>3, <2>5 DEF Estimate
  <2> HIDE DEF full, oldest, weight, x, rest
  <2>8. (x + rest) * BucketMs = x * BucketMs + rest * BucketMs
          /\ x * BucketMs \in Nat /\ rest * BucketMs \in Nat
    BY <1>1, <2>6
  <2>9. Estimate(d, now + 1) = full * BucketMs
    BY <2>6, <2>7, <2>8
  <2> QED
    BY <1>2, <2>9
<1> QED
  BY <1>3, <1>4

-----------------------------------------------------------------------------
(* What the scripts keep makes all five of them true to their replies.     *)

\* What makes the advice of a script true.
SoundKey ==
  /\ kind \in Kinds
  /\ RateKey
  /\ kind = "fixedWindow" => expiry \in Int /\ IsWindow(data, clock, expiry)
  /\ kind = "slidingWindowLog" => expiry \in Int /\ IsLog(data, clock, expiry)
  /\ kind = "slidingWindow" =>
       expiry \in Int /\ IsSlots(data, clock, expiry) /\ Estimate(data, clock) <= Limit * BucketMs

LEMMA ServerKeeps ==
  ASSUME ScriptInv, ~ own
  PROVE  SoundKey
<1>1. RateKey
  BY DEF ScriptInv, CeilingInv, SpentInv, SpendInv, KeptInv, KeyInv, RateKey
<1> QED
  BY <1>1 DEF ScriptInv, EstimateBound, CeilingInv, WindowInv, LogInv, SlotInv, SoundKey

\* The slots that the next script finds.
LEMMA SlotsOfKey ==
  ASSUME SoundKey, kind = "slidingWindow"
  PROVE  LET d == KeyAt(clock)
         IN /\ clock \in Nat /\ expiry \in Int
            /\ IsSlots(data, clock, expiry)
            /\ IsSlots(d, clock, expiry)
            /\ Estimate(d, clock) <= Limit * BucketMs
<1> DEFINE c == BucketOf(clock)
<1>1. /\ clock \in Nat /\ expiry \in Int /\ IsSlots(data, clock, expiry)
      /\ Estimate(data, clock) <= Limit * BucketMs
  BY DEF SoundKey, RateKey, Instants
<1>2. clock <= clock /\ clock < c * BucketMs + BucketMs
  BY <1>1, BucketOfInstant
<1>3. /\ IsSlots(KeyAt(clock), clock, expiry)
      /\ InWindow(KeyAt(clock), c) = InWindow(data, c)
      /\ CountOf(KeyAt(clock), c - Buckets) = CountOf(data, c - Buckets)
  BY <1>1, <1>2, SameBucket DEF KeyAt
<1>4. Estimate(KeyAt(clock), clock) = Estimate(data, clock)
  BY <1>3 DEF Estimate
<1> QED
  BY <1>1, <1>3, <1>4

LEMMA ScriptStep ==
  ASSUME ScriptInv, [Next]_vars
  PROVE  ScriptInv'
<1>1. CeilingInv'
  BY CeilingStep DEF ScriptInv
<1>2. UNCHANGED <<kind, own>>
  BY SetupStays
<1>3. ASSUME ~ own, kind = "slidingWindow"
      PROVE  Estimate(data, clock)' <= Limit * BucketMs
  <2>1. /\ clock \in Nat /\ expiry \in Int
        /\ IsSlots(data, clock, expiry) /\ IsSlots(KeyAt(clock), clock, expiry)
        /\ Estimate(KeyAt(clock), clock) <= Limit * BucketMs
        /\ Estimate(data, clock) <= Limit * BucketMs
        /\ call \in [Tasks -> [now : Instants, cost : Nat]]
        /\ KeyInv
    BY <1>3, ServerKeeps, SlotsOfKey DEF ScriptInv, EstimateBound, CeilingInv, SpentInv, KeyInv
  <2>2. ASSUME NEW t \in Tasks, Ran(t)
        PROVE  Estimate(data, clock)' <= Limit * BucketMs
    <3>1. call[t].cost \in Nat
      BY <2>1
    <3>2. data' = SlidingWindow(KeyAt(clock), clock, call[t].cost).data /\ clock' = clock
      BY <1>3, <2>2 DEF Ran, Script
    <3>3. Estimate(SlidingWindow(KeyAt(clock), clock, call[t].cost).data, clock)
            <= Limit * BucketMs
      BY <2>1, <3>1, EstimateSpends
    <3> QED
      BY <3>2, <3>3
  <2>3. CASE Passes
    <3>1. clock' = clock + 1 /\ data' = data
      BY <2>3 DEF Passes
    <3>2. Estimate(data, clock + 1) <= Estimate(data, clock)
      BY <2>1, EstimateFalls
    <3>3. IsSlots(data', clock', expiry') /\ clock' \in Nat
      BY <1>1, <1>2, <1>3 DEF CeilingInv, SlotInv, SpentInv, KeyInv, Instants
    <3>4. Estimate(data', clock') \in Nat /\ Estimate(data, clock) \in Nat
      <4>1. expiry' \in Int
        BY <1>1, <1>2, <1>3 DEF CeilingInv, SlotInv
      <4> QED
        BY <2>1, <3>3, <4>1, EstimateIsNat
    <3>5. Limit * BucketMs \in Nat
      BY Windows, BucketsFill
    <3> QED
      BY <2>1, <3>1, <3>2, <3>4, <3>5
  <2>4. CASE Idles
    BY <2>1, <2>4 DEF Idles
  <2>5. (\E t \in Tasks : Ran(t)) \/ Passes \/ Idles
    BY <1>3, <2>1, KeySteps
  <2> QED
    BY <2>2, <2>3, <2>4, <2>5
<1>4. EstimateBound'
  BY <1>2, <1>3 DEF EstimateBound
<1> QED
  BY <1>1, <1>4 DEF ScriptInv

LEMMA ScriptInit ==
  ASSUME Init
  PROVE  ScriptInv
<1>1. CeilingInv
  BY CeilingInit
<1>2. Estimate(data, clock) = 0
  <2>1. data = {} /\ clock = 1 /\ clock \in Nat
    BY DEF Init
  <2> DEFINE c == BucketOf(1)
  <2>2. c \in Nat /\ Buckets \in Nat /\ BucketMs \in Nat /\ Weight(1) \in Int
    BY BucketOfInstant, BucketsFill DEF Weight
  <2> HIDE DEF c
  <2>3. \A j : CountOf({}, j) = 0
    BY CountOfNone
  <2>4. InWindow({}, c) = 0
    <3>1. \A j \in (c - Buckets + 1) .. c : Counts({}, c)[j] = 0
      BY <2>2, <2>3 DEF Counts
    <3>2. IsFiniteSet((c - Buckets + 1) .. c)
      BY <2>2, FS_Interval
    <3>3. SumFunctionOnSet(Counts({}, c), (c - Buckets + 1) .. c) = 0
      BY ONLY <3>1, <3>2, SumOfZeros
    <3>4. c \in Int
      BY <2>2
    <3> QED
      BY <3>3, <3>4, WindowIsSpan
  <2>5. 0 * BucketMs = 0 /\ 0 * Weight(1) = 0
    BY <2>2
  <2> QED
    BY <2>1, <2>3, <2>4, <2>5 DEF Estimate, c
<1>3. EstimateBound
  <2>1. Limit * BucketMs \in Nat
    BY Windows, BucketsFill
  <2> QED
    BY <1>2, <2>1 DEF EstimateBound
<1> QED
  BY <1>1, <1>3 DEF ScriptInv

LEMMA LaterRuns ==
  ASSUME NEW cost, NEW i, NEW c \in Costs \cup 0 .. Limit + 1
  PROVE  Later(cost, i)[c]
           = Script(kind, After(kind, KeyAt(clock), clock, expiry, cost, i), i, c)
BY DEF Later, Reply, After

LEMMA WindowsAdvise ==
  ASSUME SoundKey, kind \in {"fixedWindow", "slidingWindow", "slidingWindowLog"},
         NEW cost \in Nat
  PROVE  LET d == KeyAt(clock)
         IN /\ Spendable(kind, d, clock, expiry, cost)
            /\ NotBefore(kind, d, clock, expiry, cost)
            /\ kind # "slidingWindow" => InTime(kind, d, clock, expiry, cost)
            /\ kind # "slidingWindowLog" => Replenished(kind, d, clock, expiry, cost)
<1> DEFINE d == KeyAt(clock)
<1>1. clock \in Nat /\ d \in {data, {}}
  BY DEF SoundKey, RateKey, Instants, KeyAt
<1>2. CASE kind = "fixedWindow"
  <2>1. expiry \in Int /\ IsWindow(d, clock, expiry)
    BY <1>1, <1>2 DEF SoundKey, IsWindow
  <2> QED
    BY <1>1, <1>2, <2>1, WindowAdvice
<1>3. CASE kind = "slidingWindowLog"
  <2>1. expiry \in Int /\ IsLog(data, clock, expiry)
    BY <1>3 DEF SoundKey
  <2>2. IsLog(d, clock, expiry)
    BY <1>1, <2>1, EmptyLog
  <2> QED
    BY <1>1, <1>3, <2>1, <2>2, LogAdvice
<1>4. CASE kind = "slidingWindow"
  <2>1. /\ expiry \in Int /\ IsSlots(d, clock, expiry)
        /\ Estimate(d, clock) <= Limit * BucketMs
    BY <1>4, SlotsOfKey
  <2> QED
    BY <1>1, <1>4, <2>1, SlotsAdvice
<1> QED
  BY <1>2, <1>3, <1>4

LEMMA ScriptsRemain == SoundKey => RemainingIsSpendable
<1> SUFFICES ASSUME SoundKey PROVE RemainingIsSpendable
  OBVIOUS
<1>1. RateKey /\ kind \in Kinds
  BY DEF SoundKey
<1>2. CASE kind \in {"gcra", "tokenBucket"}
  BY <1>1, <1>2, RemainingIsExact
<1>3. CASE kind \in {"fixedWindow", "slidingWindow", "slidingWindowLog"}
  <2> SUFFICES ASSUME NEW cost \in Costs
               PROVE  LET then == Later(cost, clock)
                          left == Reply(cost).remaining
                      IN then[left].allowed /\ ~ then[left + 1].allowed
    BY DEF RemainingIsSpendable
  <2> DEFINE left == Reply(cost).remaining
             key  == After(kind, KeyAt(clock), clock, expiry, cost, clock)
  <2>1. /\ left \in 0 .. Limit
        /\ Script(kind, key, clock, left).allowed
        /\ ~ Script(kind, key, clock, left + 1).allowed
    BY <1>3, WindowsAdvise DEF Spendable, Reply
  <2> HIDE DEF left, key
  <2>2. left \in 0 .. Limit + 1 /\ left + 1 \in 0 .. Limit + 1
    BY <2>1, Constants
  <2>3. Later(cost, clock)[left].allowed /\ ~ Later(cost, clock)[left + 1].allowed
    BY <2>1, <2>2, LaterRuns DEF key
  <2> QED
    BY <2>3 DEF left
<1> QED
  BY <1>1, <1>2, <1>3 DEF Kinds

LEMMA ScriptsAreNeeded == SoundKey => RetryIsNeeded
<1> SUFFICES ASSUME SoundKey PROVE RetryIsNeeded
  OBVIOUS
<1>1. RateKey /\ kind \in Kinds
  BY DEF SoundKey
<1>2. CASE kind \in {"gcra", "tokenBucket"}
  BY <1>1, <1>2, AdviceIsNeeded
<1>3. CASE kind \in {"fixedWindow", "slidingWindow", "slidingWindowLog"}
  <2> SUFFICES ASSUME NEW cost \in Costs,
                      NEW i \in clock .. (clock + Reply(cost).retryAfter - 1)
               PROVE  ~ Later(cost, i)[cost].allowed
    BY DEF RetryIsNeeded
  <2>1. NotBefore(kind, KeyAt(clock), clock, expiry, cost)
    BY <1>3, WindowsAdvise
  <2> QED
    BY <2>1, LaterRuns DEF NotBefore, Reply
<1> QED
  BY <1>1, <1>2, <1>3 DEF Kinds

LEMMA ScriptsAreEnough == SoundKey => RetryIsEnough
<1> SUFFICES ASSUME SoundKey PROVE RetryIsEnough
  OBVIOUS
<1>1. RateKey /\ kind \in Kinds
  BY DEF SoundKey
<1>2. CASE kind \in {"gcra", "tokenBucket"}
  BY <1>1, <1>2, AdviceIsEnough DEF RateKey
<1>3. CASE kind \in {"fixedWindow", "slidingWindow", "slidingWindowLog"}
  <2> SUFFICES ASSUME NEW cost \in Costs \cap 0 .. Limit, kind # "slidingWindow"
               PROVE  Later(cost, clock + Reply(cost).retryAfter)[cost].allowed
                        \/ Reply(cost).allowed
    BY DEF RetryIsEnough
  <2>1. cost \in Nat /\ cost <= Limit
    BY Constants
  <2>2. InTime(kind, KeyAt(clock), clock, expiry, cost)
    BY <1>3, <2>1, WindowsAdvise
  <2> QED
    BY <2>1, <2>2, LaterRuns DEF InTime, Reply
<1> QED
  BY <1>1, <1>2, <1>3 DEF Kinds

\* Of gcra this needs no more than an arrival time.
LEMMA GcraIsFull ==
  ASSUME kind = "gcra", IsArrival(data), clock \in Instants
  PROVE  ResetIsFull
<1> SUFFICES ASSUME NEW cost \in Costs
             PROVE  Later(cost, Reply(cost).resetAt)[Limit].allowed
  BY DEF ResetIsFull
<1> DEFINE d == KeyAt(clock)
           i == Reply(cost).resetAt
           e == After(kind, d, clock, expiry, cost, i)
<1>1. clock \in Int /\ cost \in Nat /\ IsArrival(d)
  BY DEF Instants, KeyAt, IsArrival
<1>2. Later(cost, i)[Limit] = Script(kind, e, i, Limit)
  <2>1. Limit \in 0 .. Limit + 1
    BY Constants
  <2> QED
    BY <2>1, LaterRuns
<1>3. e \in {Gcra(d, clock, cost).data, {}} /\ i = Gcra(d, clock, cost).resetAt
  BY DEF After, Script, Reply
<1> HIDE DEF e, i, d
<1>4. Gcra(e, i, Limit).allowed
  BY <1>1, <1>3, GcraReplenishes
<1> QED
  BY <1>2, <1>4 DEF Script, i

LEMMA ScriptsReplenish == SoundKey => ResetIsFull
<1> SUFFICES ASSUME SoundKey, kind # "slidingWindowLog", NEW cost \in Costs
             PROVE  Later(cost, Reply(cost).resetAt)[Limit].allowed
  BY DEF ResetIsFull
<1> DEFINE d == KeyAt(clock)
           i == Reply(cost).resetAt
           e == After(kind, d, clock, expiry, cost, i)
<1>1. RateKey /\ kind \in Kinds /\ clock \in Int /\ cost \in Nat /\ d \in {data, {}}
  BY DEF SoundKey, RateKey, Instants, KeyAt
<1>2. Later(cost, i)[Limit] = Script(kind, e, i, Limit)
  <2>1. Limit \in 0 .. Limit + 1
    BY Constants
  <2> QED
    BY <2>1, LaterRuns
<1>3. e \in {Script(kind, d, clock, cost).data, {}}
  BY DEF After
<1>4. CASE kind = "gcra"
  BY <1>1, <1>4, GcraIsFull DEF RateKey, ResetIsFull
<1>5. CASE kind = "tokenBucket"
  <2>1. IsBucket(d, clock) /\ \A h \in d : h.tokens >= 0
    BY <1>1, <1>5 DEF RateKey, IsBucket, KeepsBucket
  <2>2. e \in {TokenBucket(d, clock, cost).data, {}} /\ i = TokenBucket(d, clock, cost).resetAt
    BY <1>3, <1>5 DEF Script, Reply
  <2> HIDE DEF e, i, d
  <2>3. TokenBucket(e, i, Limit).allowed
    BY <1>1, <2>1, <2>2, BucketReplenishes
  <2> QED
    BY <1>2, <1>5, <2>3 DEF Script, i
<1>6. CASE kind \in {"fixedWindow", "slidingWindow"}
  <2>1. Replenished(kind, d, clock, expiry, cost)
    BY <1>1, <1>6, WindowsAdvise
  <2> QED
    BY <1>2, <2>1 DEF Replenished, Reply
<1> QED
  BY <1>1, <1>4, <1>5, <1>6 DEF Kinds

LEMMA ScriptsForget == SoundKey => ExpiryForgetsNothing
<1> SUFFICES ASSUME SoundKey, clock >= expiry, NEW cost \in Costs
             PROVE  Alike(kind, data, clock, cost)
  BY DEF ExpiryForgetsNothing, Alike
<1>1. RateKey /\ kind \in Kinds /\ clock \in Nat
  BY DEF SoundKey, RateKey, Instants
<1>2. CASE kind = "gcra"
  <2>1. IsArrival(data) /\ expiry \in Int /\ \A n \in data : n <= expiry * Cells
    BY <1>1, <1>2 DEF RateKey, KeepsArrival
  <2>2. \A n \in data : n \in Int
    BY <2>1 DEF IsArrival
  <2>3. expiry * Cells <= clock * Cells /\ expiry * Cells \in Int /\ clock * Cells \in Int
    BY <1>1, <2>1, Constants
  <2>4. \A n \in data : n <= clock * Cells
    BY <2>1, <2>2, <2>3
  <2> QED
    BY <1>1, <1>2, <2>1, <2>4, GcraForgets
<1>3. CASE kind = "tokenBucket"
  <2>1. /\ IsBucket(data, clock) /\ expiry \in Int
        /\ \A h \in data :
             h.tokens >= 0 /\ Limit * RefillMs <= (expiry - h.last) * RefillTokens
    BY <1>1, <1>3 DEF RateKey, KeepsBucket
  <2> QED
    BY <1>1, <1>3, <2>1, BucketForgets
<1>4. CASE kind = "fixedWindow"
  <2>1. expiry \in Int /\ IsWindow(data, clock, expiry)
    BY <1>4 DEF SoundKey
  <2> QED
    BY <1>1, <1>4, <2>1, WindowForgets
<1>5. CASE kind = "slidingWindowLog"
  <2>1. expiry \in Int /\ IsLog(data, clock, expiry)
    BY <1>5 DEF SoundKey
  <2> QED
    BY <1>1, <1>5, <2>1, LogForgets
<1>6. CASE kind = "slidingWindow"
  <2>1. expiry \in Int /\ IsSlots(data, clock, expiry)
    BY <1>6 DEF SoundKey
  <2> QED
    BY <1>1, <1>6, <2>1, SlotsForget
<1> QED
  BY <1>1, <1>2, <1>3, <1>4, <1>5, <1>6 DEF Kinds

-----------------------------------------------------------------------------
(* The fields of a reply stay in their types, with clocks of the callers too. *)

\* What the verdict of a script is made of.
IsVerdict(v) ==
  v.remaining \in 0 .. Limit /\ v.resetAt \in Nat /\ v.retryAfter \in Nat /\ v.px \in Int

\* What a key may hold, whatever clock its writers went by.
Held(k, d) ==
  /\ k = "fixedWindow" =>
       d = {} \/ \E s \in Int, n \in 0 .. Limit : d = {[start |-> s, count |-> n]}
  /\ k = "gcra" => IsArrival(d)
  /\ k = "tokenBucket" =>
       d = {} \/ \E n \in Nat, l \in Int : d = {[tokens |-> n, last |-> l]}
  /\ k = "slidingWindow" => IsFiniteSet(d) /\ \A h \in d : h.count \in Nat
  /\ k = "slidingWindowLog" =>
       /\ IsFiniteSet(d) /\ Cardinality(d) \in 0 .. Limit
       /\ \A e \in d : e.score \in Instants

LEMMA RoomIsBounded ==
  ASSUME NEW room \in Int, NEW unit \in Nat \ {0}, room <= unit * Limit
  PROVE  AtLeast(0, room \div unit) \in 0 .. Limit
<1> DEFINE k == room \div unit
<1>1. Limit \in Nat
  BY Constants
<1>2. CASE room >= 0
  BY <1>2, UnitsThatFit
<1>3. CASE ~ (room >= 0)
  <2>1. k \in Int /\ k <= 0 /\ 0 \in Int
    BY <1>3
  <2> HIDE DEF k
  <2>2. Max({0, k}) \in {0, k} /\ Max({0, k}) >= 0
    BY ONLY <2>1, MaxOfTwo
  <2>3. AtLeast(0, k) = 0
    BY <2>1, <2>2 DEF AtLeast
  <2> QED
    BY <1>1, <2>3 DEF k
<1> QED
  BY <1>2, <1>3

LEMMA CeilDivIsNat ==
  ASSUME NEW a \in Nat, NEW b \in Nat \ {0}
  PROVE  CeilDiv(a, b) \in Nat
<1> DEFINE k == (- a) \div b
<1>1. k \in Int /\ k <= 0
  OBVIOUS
<1> QED
  BY <1>1 DEF CeilDiv

LEMMA WindowVerdict ==
  ASSUME NEW now \in Nat, NEW d, Held("fixedWindow", d), NEW cost \in Nat
  PROVE  LET v == FixedWindow(d, now, cost) IN IsVerdict(v) /\ Held("fixedWindow", v.data)
<1> DEFINE v     == FixedWindow(d, now, cost)
           start == WindowOf(now)
           count == Counted(d, start)
<1>1. /\ start \in Nat /\ start <= now /\ now < start + WindowMs
      /\ WindowMs \in Nat /\ Limit \in Nat
  BY WindowOfInstant, Windows
<1>2. d = {} \/ \E s \in Int, n \in 0 .. Limit : d = {[start |-> s, count |-> n]}
  BY DEF Held
<1>3. count \in 0 .. Limit
  <2>1. CASE d = {}
    BY <1>1, <2>1 DEF Counted
  <2>2. CASE \E s \in Int, n \in 0 .. Limit : d = {[start |-> s, count |-> n]}
    <3>1. PICK s \in Int, n \in 0 .. Limit : d = {[start |-> s, count |-> n]}
      BY <2>2
    <3>2. count = IF s = start THEN n ELSE 0
      BY <3>1, CountedInKey
    <3> QED
      BY <1>1, <3>2
  <2> QED
    BY <1>2, <2>1, <2>2
<1>4. /\ v.allowed <=> count + cost <= Limit
      /\ v.remaining = Limit - (count + IF v.allowed THEN cost ELSE 0)
      /\ v.resetAt = start + WindowMs
      /\ v.retryAfter = IF v.allowed THEN 0 ELSE (start + WindowMs) - now
  BY <1>3, WindowAnswers
<1>5. CASE count + cost <= Limit
  <2>1. /\ v.data = {[start |-> start, count |-> count + cost]}
        /\ v.px = AtLeast(1, (start + WindowMs) - now)
    <3> DEFINE new  == {[start |-> start, count |-> count + cost]}
               px   == AtLeast(1, (start + WindowMs) - now)
               left == Limit - (count + cost)
    <3>1. v = Allow(left, start + WindowMs, new, px)
      BY <1>5 DEF FixedWindow, WindowOf
    <3> HIDE DEF v, new, px, left
    <3> QED
      BY <3>1 DEF Allow, new, px
  <2> HIDE DEF v, start, count
  <2>2. (start + WindowMs) - now \in Int /\ count + cost \in 0 .. Limit /\ start \in Int
    BY <1>1, <1>3, <1>5
  <2>3. v.px \in Int
    BY <2>1, <2>2, AtLeastOne
  <2>4. Held("fixedWindow", v.data)
    BY <2>1, <2>2 DEF Held
  <2>5. v.remaining \in 0 .. Limit /\ v.resetAt \in Nat /\ v.retryAfter \in Nat
    BY <1>1, <1>3, <1>4, <1>5
  <2> QED
    BY <2>3, <2>4, <2>5 DEF IsVerdict, v
<1>6. CASE ~ (count + cost <= Limit)
  <2>1. v.data = d /\ v.px = 0
    BY <1>6 DEF FixedWindow, Deny, WindowOf
  <2> HIDE DEF v, start, count
  <2>2. v.remaining \in 0 .. Limit /\ v.resetAt \in Nat /\ v.retryAfter \in Nat
    BY <1>1, <1>3, <1>4, <1>6
  <2> QED
    BY <2>1, <2>2 DEF IsVerdict, v
<1> QED
  BY <1>5, <1>6

LEMMA GcraVerdict ==
  ASSUME NEW now \in Nat, NEW d, Held("gcra", d), NEW cost \in Nat
  PROVE  LET v == Gcra(d, now, cost) IN IsVerdict(v) /\ Held("gcra", v.data)
<1> DEFINE v    == Gcra(d, now, cost)
           at   == now * Cells
           tat  == ArrivalTime(d, now)
           then == tat + PeriodMs * cost
<1>1. /\ tat \in Int /\ at \in Nat /\ at <= tat /\ IsArrival(d)
      /\ PeriodMs * cost \in Nat /\ PeriodMs * Limit \in Nat
      /\ Limit \in Nat /\ PeriodMs \in Nat \ {0} /\ Cells \in Nat \ {0}
  <2>1. IsArrival(d) /\ now \in Int
    BY DEF Held
  <2>2. tat \in Int /\ at <= tat
    BY <2>1, ArrivalTimeIsLatest
  <2> QED
    BY <2>1, <2>2, Constants
<1>2. tat \in Nat /\ then \in Nat /\ at <= then
  BY <1>1
<1>3. CASE at < AllowAt(d, now, cost)
  <2>1. /\ v.retryAfter = CeilDiv(AllowAt(d, now, cost) - at, Cells)
        /\ v.data = d /\ v.px = 0
        /\ v.remaining = AtLeast(0, (PeriodMs * Limit - (tat - at)) \div PeriodMs)
    BY <1>3, GcraDenies
  <2>2. v.resetAt = CeilDiv(tat, Cells)
    BY <1>3 DEF Gcra, Deny, AllowAt
  <2>3. AllowAt(d, now, cost) - at \in Nat
    <3>1. AllowAt(d, now, cost) = then - PeriodMs * Limit
      BY DEF AllowAt
    <3> HIDE DEF at, tat, then
    <3> QED
      BY <1>1, <1>2, <1>3, <3>1
  <2> DEFINE room == PeriodMs * Limit - (tat - at)
  <2>4. room \in Int /\ room <= PeriodMs * Limit
    <3> HIDE DEF at, tat
    <3> QED
      BY <1>1
  <2> HIDE DEF v, at, tat, then, room
  <2>5. AtLeast(0, room \div PeriodMs) \in 0 .. Limit
    BY <1>1, <2>4, RoomIsBounded
  <2>6. v.remaining \in 0 .. Limit
    BY <2>1, <2>5 DEF room
  <2>7. v.resetAt \in Nat /\ v.retryAfter \in Nat
    BY <1>1, <1>2, <2>1, <2>2, <2>3, CeilDivIsNat
  <2> QED
    BY <2>1, <2>6, <2>7 DEF IsVerdict, v
<1>4. CASE ~ (at < AllowAt(d, now, cost))
  <2>1. /\ v.retryAfter = 0 /\ v.data = {then}
        /\ v.px = AtLeast(1, CeilDiv(then - at, Cells))
        /\ v.remaining = AtLeast(0, (PeriodMs * Limit - (then - at)) \div PeriodMs)
    BY <1>4, GcraAllows
  <2>2. v.resetAt = CeilDiv(then, Cells)
    BY <1>4 DEF Gcra, Allow, AllowAt
  <2> DEFINE room == PeriodMs * Limit - (then - at)
  <2> HIDE DEF v, at, tat, then, room
  <2>3. room \in Int /\ room <= PeriodMs * Limit /\ then - at \in Nat
    BY <1>1, <1>2 DEF room
  <2>4. AtLeast(0, room \div PeriodMs) \in 0 .. Limit
    BY <1>1, <2>3, RoomIsBounded
  <2>5. v.remaining \in 0 .. Limit
    BY <2>1, <2>4 DEF room
  <2>6. v.resetAt \in Nat /\ CeilDiv(then - at, Cells) \in Int
    BY <1>1, <1>2, <2>2, <2>3, CeilDivIsNat
  <2>7. v.px \in Int
    BY <2>1, <2>6, AtLeastOne
  <2>8. Held("gcra", v.data)
    BY <1>2, <2>1 DEF Held, IsArrival
  <2> QED
    BY <2>1, <2>5, <2>6, <2>7, <2>8 DEF IsVerdict, v
<1> QED
  BY <1>3, <1>4

\* A bucket holds no debt and no more than its capacity, on any clock.
LEMMA TokensHeld ==
  ASSUME NEW now \in Int, NEW d, Held("tokenBucket", d)
  PROVE  Tokens(d, now) \in Nat /\ Tokens(d, now) <= Limit * RefillMs
<1> DEFINE full   == Limit * RefillMs
           tokens == Tokens(d, now)
<1>0. full \in Nat /\ RefillTokens \in Nat \ {0}
  BY Constants
<1>1. d = {} \/ \E n \in Nat, l \in Int : d = {[tokens |-> n, last |-> l]}
  BY DEF Held
<1>2. CASE d = {}
  BY <1>0, <1>2 DEF Tokens
<1>3. CASE \E n \in Nat, l \in Int : d = {[tokens |-> n, last |-> l]}
  <2>1. PICK n \in Nat, l \in Int : d = {[tokens |-> n, last |-> l]}
    BY <1>3
  <2>2. The(d) = [tokens |-> n, last |-> l] /\ d # {}
    BY <2>1 DEF The
  <2> DEFINE since == AtLeast(0, now - l)
             grown == n + since * RefillTokens
  <2>3. tokens = Min({full, grown})
    BY <2>2 DEF Tokens
  <2>4. since \in Nat
    <3>1. 0 \in Int /\ now - l \in Int
      OBVIOUS
    <3>2. Max({0, now - l}) \in {0, now - l} /\ Max({0, now - l}) >= 0
      BY ONLY <3>1, MaxOfTwo
    <3> QED
      BY <3>1, <3>2 DEF AtLeast
  <2> HIDE DEF since, full, tokens
  <2>5. grown \in Nat
    BY <1>0, <2>4
  <2> HIDE DEF grown
  <2>6. full \in Int /\ grown \in Int
    BY <1>0, <2>5
  <2>7. Min({full, grown}) \in {full, grown} /\ Min({full, grown}) <= full
    BY ONLY <2>6, MinOfTwo
  <2>8. full \in Nat
    BY <1>0
  <2>9. tokens \in Nat /\ tokens <= full
    BY ONLY <2>3, <2>5, <2>7, <2>8
  <2> QED
    BY <2>9 DEF tokens, full
<1> QED
  BY <1>1, <1>2, <1>3

LEMMA BucketVerdict ==
  ASSUME NEW now \in Nat, NEW d, Held("tokenBucket", d), NEW cost \in Nat
  PROVE  LET v == TokenBucket(d, now, cost) IN IsVerdict(v) /\ Held("tokenBucket", v.data)
<1> DEFINE v      == TokenBucket(d, now, cost)
           full   == Limit * RefillMs
           tokens == Tokens(d, now)
           left   == tokens - cost * RefillMs
<1>1. /\ Limit \in Nat /\ RefillMs \in Nat \ {0} /\ RefillTokens \in Nat \ {0}
      /\ full \in Nat /\ cost * RefillMs \in Nat /\ full = RefillMs * Limit
  BY Constants
<1>2. tokens \in Nat /\ tokens <= full
  BY TokensHeld
<1>3. CASE left >= 0
  <2>1. /\ v.data = {[tokens |-> left, last |-> now]}
        /\ v.px = AtLeast(1, CeilDiv(full, RefillTokens))
        /\ v.retryAfter = 0 /\ v.remaining = AtLeast(0, left \div RefillMs)
    BY <1>3, BucketAllows
  <2>2. v.resetAt = now + CeilDiv(full - left, RefillTokens)
    BY <1>3 DEF TokenBucket, Allow
  <2>3. left \in Nat /\ full - left \in Nat /\ left <= RefillMs * Limit
    <3> HIDE DEF tokens, full
    <3> QED
      BY <1>1, <1>2, <1>3
  <2> HIDE DEF v, full, tokens, left
  <2>4. v.remaining \in 0 .. Limit
    <3>1. left \in Int /\ RefillMs \in Nat \ {0}
      BY <1>1, <2>3
    <3>2. AtLeast(0, left \div RefillMs) \in 0 .. Limit
      BY ONLY <2>3, <3>1, RoomIsBounded
    <3> QED
      BY <2>1, <3>2
  <2>5. CeilDiv(full - left, RefillTokens) \in Nat /\ CeilDiv(full, RefillTokens) \in Nat
    BY <1>1, <2>3, CeilDivIsNat
  <2>6. v.resetAt \in Nat /\ v.px \in Int
    BY <2>1, <2>2, <2>5, AtLeastOne
  <2>7. Held("tokenBucket", v.data)
    BY <2>1, <2>3 DEF Held
  <2> QED
    BY <2>1, <2>4, <2>6, <2>7 DEF IsVerdict, v
<1>4. CASE ~ (left >= 0)
  <2>1. /\ v.retryAfter = CeilDiv(- left, RefillTokens)
        /\ v.data = d /\ v.px = 0 /\ v.remaining = AtLeast(0, tokens \div RefillMs)
    BY <1>4, BucketDenies
  <2>2. v.resetAt = now + CeilDiv(full - tokens, RefillTokens)
    BY <1>4 DEF TokenBucket, Deny
  <2>3. - left \in Nat /\ full - tokens \in Nat /\ tokens <= RefillMs * Limit
    <3> HIDE DEF tokens, full
    <3> QED
      BY <1>1, <1>2, <1>4
  <2> HIDE DEF v, full, tokens, left
  <2>4. v.remaining \in 0 .. Limit
    <3>1. tokens \in Int /\ RefillMs \in Nat \ {0}
      BY <1>1, <1>2
    <3>2. AtLeast(0, tokens \div RefillMs) \in 0 .. Limit
      BY ONLY <2>3, <3>1, RoomIsBounded
    <3> QED
      BY <2>1, <3>2
  <2>5. CeilDiv(full - tokens, RefillTokens) \in Nat /\ v.retryAfter \in Nat
    BY <1>1, <2>1, <2>3, CeilDivIsNat
  <2>6. v.resetAt \in Nat
    BY <2>2, <2>5
  <2> QED
    BY <2>1, <2>4, <2>5, <2>6 DEF IsVerdict, v
<1> QED
  BY <1>3, <1>4

LEMMA SlotsVerdict ==
  ASSUME NEW now \in Nat, NEW d, Held("slidingWindow", d), NEW cost \in Nat
  PROVE  LET v == SlidingWindow(d, now, cost) IN IsVerdict(v) /\ Held("slidingWindow", v.data)
<1> DEFINE v      == SlidingWindow(d, now, cost)
           c      == BucketOf(now)
           full   == InWindow(d, c)
           oldest == CountOf(d, c - Buckets)
           weight == Weight(now)
           excess == Estimate(d, now) + (cost - Limit) * BucketMs
           spare  == (- excess) \div BucketMs
           left   == (Limit * BucketMs - Estimate(d, now)) \div BucketMs
           reset  == (c + 1) * BucketMs + WindowMs
           new    == Written(d, c, cost)
           retry  == RetryOfSlots(d, now, cost)
<1>1. /\ c \in Nat /\ BucketMs \in Nat \ {0} /\ Buckets \in Nat \ {0}
      /\ c * BucketMs <= now /\ now < c * BucketMs + BucketMs /\ c * BucketMs \in Nat
      /\ Limit \in Nat /\ WindowMs \in Nat
  BY BucketOfInstant, BucketsFill, Windows
<1>2. IsFiniteSet(d) /\ \A h \in d : h.count \in Nat
  BY DEF Held
<1>3. full \in Nat
  <2> HIDE DEF c
  <2>1. c - Buckets + 1 \in Int /\ c \in Int /\ c - Buckets + 1 >= c - Buckets + 1
    BY <1>1
  <2>2. SumFunctionOnSet(Counts(d, c), (c - Buckets + 1) .. c) \in Nat
    BY ONLY <1>2, <2>1, CountsAreSummable
  <2> QED
    BY <2>1, <2>2, WindowIsSpan
<1>4. oldest \in Nat /\ CountOf(d, c) \in Nat
  BY <1>2, CountIsNat
<1>5. weight \in 1 .. BucketMs
  BY <1>1 DEF Weight
<1>6. Estimate(d, now) \in Nat
  <2> HIDE DEF full, oldest, weight, c
  <2>1. full * BucketMs \in Nat /\ oldest * weight \in Nat
    BY <1>1, <1>3, <1>4, <1>5
  <2>2. Estimate(d, now) = full * BucketMs + oldest * weight
    BY DEF Estimate, full, oldest, weight, c
  <2> QED
    BY <2>1, <2>2
<1>7. /\ - excess \in Int /\ - excess <= BucketMs * Limit
      /\ Limit * BucketMs - Estimate(d, now) \in Int
      /\ Limit * BucketMs - Estimate(d, now) <= BucketMs * Limit
      /\ excess \in Int
  <2>1. /\ cost * BucketMs \in Nat /\ Limit * BucketMs \in Nat
        /\ (cost - Limit) * BucketMs = cost * BucketMs - Limit * BucketMs
        /\ Limit * BucketMs = BucketMs * Limit
    BY <1>1
  <2> QED
    BY <1>6, <2>1
<1>8. v = IF excess <= 0 THEN Allow(spare, reset, new, Lifetime)
          ELSE Deny(left, reset, retry, d)
  BY DEF SlidingWindow, Estimate, BucketOf, InWindow, Weight, Written, RetryOfSlots
<1>9. reset \in Nat /\ Lifetime \in Int
  BY <1>1, BucketsFill
<1>10. retry \in Nat
  <2>1. retry = AtLeast(1, IF oldest > 0 /\ excess <= oldest * weight
                           THEN CeilDiv(excess, oldest)
                           ELSE (c + 1) * BucketMs - now)
    BY DEF RetryOfSlots
  <2>2. (c + 1) * BucketMs - now \in Int
    BY <1>1
  <2> HIDE DEF oldest, excess, weight, retry, c
  <2>3. oldest > 0 => CeilDiv(excess, oldest) \in Int
    BY <1>4, <1>7, CeilDivIsEnough
  <2> DEFINE wait == IF oldest > 0 /\ excess <= oldest * weight
                     THEN CeilDiv(excess, oldest)
                     ELSE (c + 1) * BucketMs - now
  <2>4. wait \in Int /\ retry = AtLeast(1, wait)
    BY <2>1, <2>2, <2>3
  <2> HIDE DEF wait
  <2> QED
    BY <2>4, AtLeastOne
<1>11. AtLeast(0, spare) \in 0 .. Limit /\ AtLeast(0, left) \in 0 .. Limit
  <2> DEFINE under == - excess
             over  == Limit * BucketMs - Estimate(d, now)
  <2>1. /\ under \in Int /\ under <= BucketMs * Limit
        /\ over \in Int /\ over <= BucketMs * Limit
    BY <1>7
  <2>2. spare = under \div BucketMs /\ left = over \div BucketMs
    OBVIOUS
  <2> HIDE DEF under, over, spare, left
  <2>3. BucketMs \in Nat \ {0}
    BY <1>1
  <2>4. /\ AtLeast(0, under \div BucketMs) \in 0 .. Limit
        /\ AtLeast(0, over \div BucketMs) \in 0 .. Limit
    BY ONLY <2>1, <2>3, RoomIsBounded
  <2> QED
    BY <2>2, <2>4
<1>12. Held("slidingWindow", new)
  <2> DEFINE kept == {h \in d : Slot(h.index) # Slot(c)}
             slot == [index |-> c, count |-> CountOf(d, c) + cost]
  <2>1. kept \subseteq d /\ new = kept \cup {slot} /\ slot.count = CountOf(d, c) + cost
    BY DEF Written
  <2>2. IsFiniteSet(kept)
    <3> HIDE DEF kept
    <3> QED
      BY <1>2, <2>1, FS_Subset
  <2> HIDE DEF kept, slot, new
  <2>3. IsFiniteSet(new)
    <3>1. IsFiniteSet({slot})
      BY FS_Singleton
    <3> QED
      BY <2>1, <2>2, <3>1, FS_Union
  <2>4. slot.count \in Nat
    BY <1>4, <2>1
  <2>5. \A h \in new : h.count \in Nat
    BY <1>2, <2>1, <2>4
  <2> QED
    BY <2>3, <2>5 DEF Held
<1> HIDE DEF v, excess, spare, left, reset, new, retry
<1>13. CASE excess <= 0
  <2>1. /\ v.remaining = AtLeast(0, spare) /\ v.resetAt = reset
        /\ v.retryAfter = 0 /\ v.data = new /\ v.px = Lifetime
    BY <1>8, <1>13 DEF Allow
  <2> QED
    BY <1>9, <1>11, <1>12, <2>1 DEF IsVerdict, v
<1>14. CASE ~ (excess <= 0)
  <2>1. /\ v.remaining = AtLeast(0, left) /\ v.resetAt = reset
        /\ v.retryAfter = retry /\ v.data = d /\ v.px = 0
    BY <1>8, <1>14 DEF Deny
  <2> QED
    BY <1>9, <1>10, <1>11, <2>1 DEF IsVerdict, v
<1> QED
  BY <1>13, <1>14

LEMMA ScoreIsInstant ==
  ASSUME NEW log, IsFiniteSet(log), \A e \in log : e.score \in Instants,
         NEW k \in 1 .. Cardinality(log)
  PROVE  NthScore(log, k) \in Instants
<1>1. /\ -1 \in Int /\ MaxTime \in Int
      /\ \A e \in log : e.score \in Int /\ -1 < e.score /\ e.score <= MaxTime
  BY DEF Instants
<1>2. NthScore(log, k) \in {e.score : e \in log}
  BY <1>1, ScoreOfRank
<1> QED
  BY <1>2

LEMMA LogVerdict ==
  ASSUME NEW now \in Instants, NEW d, Held("slidingWindowLog", d), NEW cost \in Nat
  PROVE  LET v == SlidingWindowLog(d, now, cost)
         IN IsVerdict(v) /\ Held("slidingWindowLog", v.data)
<1> DEFINE v     == SlidingWindowLog(d, now, cost)
           log   == Recent(d, now)
           count == Cardinality(log)
           added == Added(log, now, cost)
           new   == {[score |-> now, n |-> count + i] : i \in 1 .. cost}
           first(l) == IF l = {} THEN now ELSE NthScore(l, 1)
<1>1. /\ IsFiniteSet(d) /\ Cardinality(d) \in 0 .. Limit
      /\ \A e \in d : e.score \in Instants
  BY DEF Held
<1>2. WindowMs \in Nat \ {0} /\ Limit \in Nat /\ now \in Nat
  BY Windows DEF Instants
<1>3. /\ IsFiniteSet(log) /\ count \in 0 .. Limit
      /\ \A e \in log : e.score \in Instants
  <2>1. log \subseteq d
    BY DEF Recent
  <2>2. IsFiniteSet(log) /\ Cardinality(log) \in Nat /\ Cardinality(log) <= Cardinality(d)
    <3> HIDE DEF log
    <3> QED
      BY <1>1, <2>1, FS_Subset, FS_CardinalityType
  <2> QED
    BY <1>1, <1>2, <2>1, <2>2
<1>4. /\ IsFiniteSet(new) /\ Cardinality(new) = cost
      /\ added = log \cup new /\ \A e \in new : e.score = now
  <2>1. now \in Int /\ count \in Nat
    BY <1>2, <1>3
  <2> HIDE DEF count
  <2>2. IsFiniteSet(new) /\ Cardinality(new) = cost
    BY <2>1, AddedAreNew
  <2> QED
    BY <2>2 DEF Added, count
<1> HIDE DEF new
<1>5. /\ IsFiniteSet(added) /\ \A e \in added : e.score \in Instants
      /\ Cardinality(added) \in Nat /\ Cardinality(added) <= count + cost
  <2>1. /\ IsFiniteSet(log \cup new)
        /\ Cardinality(log \cup new) = count + cost - Cardinality(log \cap new)
    <3> HIDE DEF log
    <3> QED
      BY <1>3, <1>4, FS_Union
  <2>2. IsFiniteSet(log \cap new) /\ Cardinality(log \cap new) \in Nat
    <3> HIDE DEF log
    <3> QED
      BY <1>3, FS_Subset, FS_CardinalityType
  <2>3. Cardinality(added) \in Nat
    BY <1>4, <2>1, FS_CardinalityType
  <2> HIDE DEF log, added
  <2> QED
    BY <1>2, <1>3, <1>4, <2>1, <2>2, <2>3
<1> HIDE DEF log, count, added
<1>6. ASSUME NEW l, IsFiniteSet(l), \A e \in l : e.score \in Instants
      PROVE  first(l) \in Instants
  <2>1. CASE l = {}
    BY <2>1
  <2>2. CASE l # {}
    <3>1. 1 \in 1 .. Cardinality(l)
      BY <1>6, <2>2, FS_EmptySet, FS_CardinalityType
    <3> QED
      BY <1>6, <2>2, <3>1, ScoreIsInstant
  <2> QED
    BY <2>1, <2>2
<1>7. first(added) + WindowMs \in Nat /\ first(log) + WindowMs \in Nat
  <2>1. first(added) \in Instants /\ first(log) \in Instants
    BY <1>3, <1>5, <1>6
  <2> HIDE DEF first
  <2> QED
    BY <1>2, <2>1 DEF Instants
<1>8. RetryOfLog(log, now, cost) \in Nat
  <2> DEFINE over == count + cost - Limit
             k    == Min({count, AtLeast(1, over)})
             wait == NthScore(log, k) + WindowMs - now
  <2>1. RetryOfLog(log, now, cost) = IF count = 0 THEN WindowMs ELSE AtLeast(1, wait)
    BY DEF RetryOfLog, count
  <2>2. ASSUME count # 0 PROVE wait \in Int
    <3>1. over \in Int /\ count \in Int /\ count >= 1
      BY <1>2, <1>3, <2>2
    <3> HIDE DEF over
    <3>2. AtLeast(1, over) \in Int /\ AtLeast(1, over) > 0
      BY <3>1, AtLeastOne
    <3>3. k \in {count, AtLeast(1, over)} /\ k <= count
      BY ONLY <3>1, <3>2, MinOfTwo
    <3>4. k \in 1 .. count
      BY <3>1, <3>2, <3>3
    <3> HIDE DEF k
    <3>5. NthScore(log, k) \in Instants
      BY <1>3, <3>4, ScoreIsInstant DEF count
    <3> QED
      BY <1>2, <3>5 DEF Instants
  <2>3. CASE count = 0
    BY <1>2, <2>1, <2>3
  <2>4. CASE count # 0
    <3> HIDE DEF wait
    <3> QED
      BY <2>1, <2>2, <2>4, AtLeastOne
  <2> QED
    BY <2>3, <2>4
<1>9. /\ v.allowed <=> count + cost <= Limit
      /\ v.remaining = Limit - (count + IF v.allowed THEN cost ELSE 0)
      /\ v.retryAfter = IF v.allowed THEN 0 ELSE RetryOfLog(log, now, cost)
      /\ ~ v.allowed => v.data = log /\ v.px = 0
      /\ v.allowed => v.data = added /\ v.px = WindowMs
  <2>1. Cardinality(Recent(d, now)) \in 0 .. Limit
    BY <1>3 DEF count, log
  <2> QED
    BY <1>2, <2>1, LogAnswers DEF count, log, added
<1>10. v.resetAt \in {first(added) + WindowMs, first(log) + WindowMs}
  BY DEF SlidingWindowLog, Allow, Deny, log, count, added
<1>11. v.remaining \in 0 .. Limit
  <2> HIDE DEF v
  <2> QED
    BY <1>2, <1>3, <1>9
<1>12. v.px \in Int /\ v.retryAfter \in Nat /\ v.resetAt \in Nat
  <2> HIDE DEF v, first
  <2> QED
    BY <1>2, <1>7, <1>8, <1>9, <1>10
<1>13. Held("slidingWindowLog", v.data)
  <2> HIDE DEF v
  <2>1. CASE count + cost <= Limit
    <3>1. Cardinality(added) \in 0 .. Limit
      BY <1>2, <1>3, <1>5, <2>1
    <3> QED
      BY <1>5, <1>9, <2>1, <3>1 DEF Held
  <2>2. CASE ~ (count + cost <= Limit)
    BY <1>3, <1>9, <2>2 DEF Held, count
  <2> QED
    BY <2>1, <2>2
<1> QED
  BY <1>11, <1>12, <1>13 DEF IsVerdict

\* What the scripts compute, where a call can reach them.
LEMMA ScriptVerdict ==
  ASSUME kind \in Kinds, Held(kind, data), NEW now \in Instants, NEW cost \in Nat
  PROVE  LET v == Script(kind, KeyAt(clock), now, cost)
         IN IsVerdict(v) /\ Held(kind, v.data)
<1> DEFINE d == KeyAt(clock)
<1>1. Held(kind, d) /\ now \in Nat
  <2>1. Held(kind, {})
    BY FS_EmptySet, Constants DEF Held, IsArrival
  <2>2. d \in {data, {}}
    BY DEF KeyAt
  <2> QED
    BY <2>1, <2>2 DEF Instants
<1> HIDE DEF d
<1>2. CASE kind = "fixedWindow"
  BY <1>1, <1>2, WindowVerdict DEF Script, d
<1>3. CASE kind = "gcra"
  BY <1>1, <1>3, GcraVerdict DEF Script, d
<1>4. CASE kind = "tokenBucket"
  BY <1>1, <1>4, BucketVerdict DEF Script, d
<1>5. CASE kind = "slidingWindow"
  BY <1>1, <1>5, SlotsVerdict DEF Script, d
<1>6. CASE kind = "slidingWindowLog"
  BY <1>1, <1>6, LogVerdict DEF Script, d
<1> QED
  BY <1>2, <1>3, <1>4, <1>5, <1>6 DEF Kinds

TypeInv == TypeOK /\ Held(kind, data)

LEMMA TypeOfRun ==
  ASSUME TypeInv, NEW t \in Tasks, Run(t), cached' \in BOOLEAN
  PROVE  TypeInv'
<1> USE DEF setup
<1> DEFINE now     == Now(call[t].now)
           v       == Script(kind, KeyAt(clock), now, call[t].cost)
           charged == IF v.allowed THEN call[t].cost ELSE 0
           told    == [kind |-> IF v.allowed THEN "allow" ELSE "deny",
                       remaining |-> v.remaining, resetAt |-> v.resetAt,
                       retryAfter |-> v.retryAfter]
<1>1. /\ clock \in Instants /\ clock \in Int /\ now \in Instants /\ call[t].cost \in Nat
      /\ kind \in Kinds
  BY DEF TypeInv, TypeOK, Now, Instants
<1>2. IsVerdict(v) /\ Held(kind, v.data)
  <2> HIDE DEF now
  <2> QED
    BY <1>1, ScriptVerdict DEF TypeInv
<1>3. /\ data' = v.data
      /\ expiry' = IF v.px > 0 THEN clock + v.px ELSE expiry
      /\ pc' = [pc EXCEPT ![t] = "replied"]
      /\ answer' = [answer EXCEPT ![t] = told]
      /\ charge' = [charge EXCEPT ![t] = charge[t] + charged]
      /\ spent' = IF own THEN spent ELSE [spent EXCEPT ![now] = spent[now] + charged]
      /\ UNCHANGED <<kind, own, clock, call>>
  BY DEF Run
<1>4. charged \in Nat
  <2> HIDE DEF v
  <2> QED
    BY <1>1
<1>5. told \in [kind : {"none", "allow", "deny"},
                remaining : 0 .. Limit, resetAt : Nat, retryAfter : Nat]
  <2> HIDE DEF v
  <2> QED
    BY <1>2 DEF IsVerdict
<1> HIDE DEF charged, told, v, now
<1>6. expiry' \in Int
  BY <1>1, <1>2, <1>3 DEF IsVerdict, TypeInv, TypeOK
<1>7. /\ pc' \in [Tasks -> {"idle", "evalsha", "eval", "replied"}]
      /\ answer' \in [Tasks -> [kind : {"none", "allow", "deny"},
                                remaining : 0 .. Limit, resetAt : Nat, retryAfter : Nat]]
  BY <1>3, <1>5 DEF TypeInv, TypeOK
<1>8. charge' \in [Tasks -> Nat]
  <2>1. charge \in [Tasks -> Nat]
    BY DEF TypeInv, TypeOK
  <2>2. charge[t] + charged \in Nat
    BY <1>4, <2>1
  <2> QED
    BY <1>3, <2>1, <2>2
<1>9. spent' \in [Instants -> Nat]
  <2>1. spent \in [Instants -> Nat]
    BY DEF TypeInv, TypeOK
  <2>2. spent[now] + charged \in Nat
    BY <1>1, <1>4, <2>1
  <2> QED
    BY <1>3, <2>1, <2>2
<1> QED
  BY <1>2, <1>3, <1>6, <1>7, <1>8, <1>9 DEF TypeInv, TypeOK, Instants

LEMMA TypeOfOver ==
  ASSUME TypeInv, NEW t \in Tasks, Over(t)
  PROVE  TypeInv'
<1>1. NoAnswer \in [kind : {"none", "allow", "deny"},
                    remaining : 0 .. Limit, resetAt : Nat, retryAfter : Nat]
  BY Constants DEF NoAnswer
<1>2. NoCall \in [now : Instants, cost : Nat]
  BY DEF NoCall, Instants
<1> QED
  BY <1>1, <1>2 DEF Over, TypeInv, TypeOK, setup, keyVars, Instants

LEMMA TypeStep == TypeInv /\ [Next]_vars => TypeInv'
<1> SUFFICES ASSUME TypeInv, [Next]_vars PROVE TypeInv'
  OBVIOUS
<1> USE DEF setup, keyVars
<1>1. ASSUME NEW t \in Tasks, NEW cost \in Costs, Check(t, cost) PROVE TypeInv'
  <2>1. PICK now \in Instants : call' = [call EXCEPT ![t] = [now |-> now, cost |-> cost]]
    BY <1>1 DEF Check
  <2>2. [now |-> now, cost |-> cost] \in [now : Instants, cost : Nat]
    OBVIOUS
  <2>3. call' \in [Tasks -> [now : Instants, cost : Nat]]
    BY <2>1, <2>2 DEF TypeInv, TypeOK
  <2>4. pc' \in [Tasks -> {"idle", "evalsha", "eval", "replied"}]
    BY <1>1 DEF Check, TypeInv, TypeOK
  <2>5. UNCHANGED <<setup, clock, cached, answer, charge, keyVars>>
    BY <1>1 DEF Check
  <2> QED
    BY <2>3, <2>4, <2>5 DEF TypeInv, TypeOK, Instants
<1>2. ASSUME NEW t \in Tasks, EvalSha(t) PROVE TypeInv'
  <2>1. CASE Run(t) /\ UNCHANGED cached
    BY <2>1, TypeOfRun DEF TypeInv, TypeOK
  <2>2. CASE ~ (Run(t) /\ UNCHANGED cached)
    <3>1. /\ pc' = [pc EXCEPT ![t] = "eval"]
          /\ UNCHANGED <<setup, clock, cached, call, answer, charge, keyVars>>
      BY <1>2, <2>2 DEF EvalSha
    <3>2. pc' \in [Tasks -> {"idle", "evalsha", "eval", "replied"}]
      BY <3>1 DEF TypeInv, TypeOK
    <3> QED
      BY <3>1, <3>2 DEF TypeInv, TypeOK, Instants
  <2> QED
    BY <2>1, <2>2
<1>3. ASSUME NEW t \in Tasks, Eval(t) PROVE TypeInv'
  BY <1>3, TypeOfRun DEF Eval
<1>4. ASSUME NEW t \in Tasks, Return(t) \/ Fails(t) PROVE TypeInv'
  BY <1>4, TypeOfOver DEF Return, Fails
<1>5. CASE Flush
  BY <1>5 DEF Flush, TypeInv, TypeOK, Instants
<1>6. CASE Tick
  BY <1>6 DEF Tick, TypeInv, TypeOK, Instants
<1>7. CASE UNCHANGED vars
  BY <1>7 DEF vars, TypeInv, TypeOK, Instants
<1> QED
  BY <1>1, <1>2, <1>3, <1>4, <1>5, <1>6, <1>7 DEF Next

LEMMA TypeInit == Init => TypeInv
<1> SUFFICES ASSUME Init PROVE TypeInv
  OBVIOUS
<1>1. Held(kind, data)
  BY FS_EmptySet, Constants DEF Init, Held, IsArrival
<1>2. NoAnswer \in [kind : {"none", "allow", "deny"},
                    remaining : 0 .. Limit, resetAt : Nat, retryAfter : Nat]
  BY Constants DEF NoAnswer
<1>3. NoCall \in [now : Instants, cost : Nat]
  BY DEF NoCall, Instants
<1>4. TypeOK
  <2>1. own => kind \in Explicit
    BY DEF Init
  <2>2. kind \in Strategies /\ cached \in BOOLEAN
    BY DEF Init
  <2>3. clock \in Instants /\ expiry \in Int
    BY DEF Init, Instants
  <2>4. /\ pc = [t \in Tasks |-> "idle"] /\ call = [t \in Tasks |-> NoCall]
        /\ answer = [t \in Tasks |-> NoAnswer] /\ charge = [t \in Tasks |-> 0]
        /\ spent = [i \in Instants |-> 0]
    BY DEF Init
  <2> QED
    BY <1>2, <1>3, <2>1, <2>2, <2>3, <2>4 DEF TypeOK
<1> QED
  BY <1>1, <1>4 DEF TypeInv

\* The fields of every reply stay in their ranges - remaining within the limit, the
\* two times never negative - whatever clock a caller goes by, and although a script
\* may then find in its key what was written later.
THEOREM RedisTypeCorrect == Spec => []TypeOK
<1>1. TypeInv => TypeOK
  BY DEF TypeInv
<1> QED
  BY <1>1, TypeInit, TypeStep, PTL DEF Spec

-----------------------------------------------------------------------------
(* Callers whose clocks lag behind the server's.                           *)

\* An instant a caller passes is never ahead of the server's clock.
NoneAhead == \A drift \in Drifts : drift <= 0

\* When the key expires after a script that ran at an instant and answered v.
Expires(v, at, lives) == IF v.px > 0 THEN at + v.px ELSE lives

LEMMA GcraLags ==
  ASSUME NEW d, IsArrival(d), NEW lives \in Int, NEW at \in Nat, NEW now \in Nat, now <= at,
         \A n \in d : n <= lives * Cells /\ n <= at * Cells + PeriodMs * Limit,
         NEW cost \in Nat
  PROVE  LET v == Gcra(d, now, cost)
             end == Expires(v, at, lives)
         IN /\ IsArrival(v.data) /\ end \in Int
            /\ \A n \in v.data : n <= end * Cells /\ n <= at * Cells + PeriodMs * Limit
<1> DEFINE v    == Gcra(d, now, cost)
           then == ArrivalTime(d, now) + PeriodMs * cost
           wait == CeilDiv(then - now * Cells, Cells)
           px   == AtLeast(1, wait)
           end  == Expires(v, at, lives)
<1>1. CASE now * Cells < AllowAt(d, now, cost)
  <2>1. v.data = d /\ v.px = 0
    BY <1>1, GcraDenies
  <2> HIDE DEF v
  <2>2. end = lives
    BY <2>1 DEF Expires
  <2> HIDE DEF end
  <2> QED
    BY <2>1, <2>2 DEF v, end
<1>2. CASE ~ (now * Cells < AllowAt(d, now, cost))
  <2>1. /\ then \in Int /\ now * Cells \in Int /\ at * Cells \in Int
        /\ PeriodMs * Limit \in Int /\ now * Cells <= at * Cells
        /\ Cells \in Nat \ {0}
    BY ArrivalTimeIsLatest, Constants
  <2>2. then <= now * Cells + PeriodMs * Limit
    <3> DEFINE burst == PeriodMs * Limit
    <3>1. AllowAt(d, now, cost) = then - burst
      BY DEF AllowAt
    <3> HIDE DEF then, burst
    <3> QED
      BY <1>2, <2>1, <3>1 DEF burst
  <2>3. v.data = {then} /\ v.px = px
    BY <1>2, GcraAllows
  <2> HIDE DEF then, v
  <2>4. then - now * Cells \in Int
    BY <2>1
  <2>5. wait \in Int /\ then - now * Cells <= wait * Cells
    BY <2>1, <2>4, CeilDivIsEnough
  <2> HIDE DEF wait
  <2>6. px \in Int /\ px >= wait /\ px > 0
    BY <2>5, AtLeastOne
  <2> HIDE DEF px
  <2>7. end = at + px /\ end \in Int
    BY <2>3, <2>6 DEF Expires
  <2>8. end * Cells = at * Cells + px * Cells
    BY <2>1, <2>6, <2>7, Times
  <2>9. wait * Cells <= px * Cells /\ wait * Cells \in Int /\ px * Cells \in Int
    BY <2>1, <2>5, <2>6
  <2> HIDE DEF end
  <2>10. end * Cells \in Int
    BY <2>1, <2>7
  <2>11. then <= end * Cells /\ then <= at * Cells + PeriodMs * Limit
    BY <2>1, <2>2, <2>5, <2>8, <2>9, <2>10
  <2>12. IsArrival({then})
    BY <2>1 DEF IsArrival
  <2> QED
    BY <2>3, <2>7, <2>11, <2>12 DEF v, end
<1> QED
  BY <1>1, <1>2

LEMMA BucketLags ==
  ASSUME NEW d, NEW at \in Nat, IsBucket(d, at), NEW lives \in Int,
         \A h \in d : h.tokens >= 0 /\ Limit * RefillMs <= (lives - h.last) * RefillTokens,
         NEW now \in Nat, now <= at, NEW cost \in Nat
  PROVE  LET v == TokenBucket(d, now, cost)
             end == Expires(v, at, lives)
         IN /\ IsBucket(v.data, at) /\ end \in Int
            /\ \A h \in v.data :
                 h.tokens >= 0 /\ Limit * RefillMs <= (end - h.last) * RefillTokens
<1> DEFINE v    == TokenBucket(d, now, cost)
           left == Tokens(d, now) - cost * RefillMs
           wait == CeilDiv(Limit * RefillMs, RefillTokens)
           px   == AtLeast(1, wait)
           end  == Expires(v, at, lives)
<1>1. CASE ~ (left >= 0)
  <2>1. v.data = d /\ v.px = 0
    BY <1>1, BucketDenies
  <2> HIDE DEF v
  <2>2. end = lives
    BY <2>1 DEF Expires
  <2> HIDE DEF end
  <2> QED
    BY <2>1, <2>2 DEF v, end
<1>2. CASE left >= 0
  <2>1. Limit * RefillMs \in Int /\ RefillTokens \in Nat \ {0}
    BY Constants
  <2>2. left \in Int
    <3>1. Held("tokenBucket", d)
      <4>1. d = {} \/ \E n \in Int, l \in Int : d = {[tokens |-> n, last |-> l]}
        BY DEF IsBucket
      <4>2. ASSUME NEW n \in Int, NEW l \in Int, d = {[tokens |-> n, last |-> l]}
            PROVE  n \in Nat
        BY <4>2
      <4> QED
        BY <4>1, <4>2 DEF Held
    <3>2. Tokens(d, now) \in Nat
      BY <3>1, TokensHeld
    <3> QED
      BY <3>2, Constants
  <2>3. wait \in Int /\ Limit * RefillMs <= wait * RefillTokens
    BY <2>1, CeilDivIsEnough
  <2> HIDE DEF wait
  <2>4. px \in Int /\ px >= wait /\ px > 0
    BY <2>3, AtLeastOne
  <2>5. v.data = {[tokens |-> left, last |-> now]} /\ v.px = px
    BY <1>2, BucketAllows DEF wait
  <2> HIDE DEF px, left, v
  <2>6. end = at + px /\ end \in Int
    BY <2>4, <2>5 DEF Expires
  <2> HIDE DEF end
  <2>7. end - now \in Int /\ px <= end - now
    BY <2>4, <2>6
  <2>8. /\ wait * RefillTokens <= (end - now) * RefillTokens
        /\ wait * RefillTokens \in Int /\ (end - now) * RefillTokens \in Int
    <3> DEFINE span == end - now
    <3>1. span \in Int /\ wait <= span
      BY <2>3, <2>4, <2>7
    <3> HIDE DEF span
    <3>2. wait * RefillTokens <= span * RefillTokens /\ span * RefillTokens \in Int
      BY <2>1, <2>3, <3>1
    <3> QED
      BY <2>1, <2>3, <3>2 DEF span
  <2>9. Limit * RefillMs <= (end - now) * RefillTokens
    BY <2>1, <2>3, <2>8
  <2>10. IsBucket(v.data, at)
    BY <2>2, <2>5 DEF IsBucket
  <2>11. ASSUME NEW h \in v.data
         PROVE  h.tokens >= 0 /\ Limit * RefillMs <= (end - h.last) * RefillTokens
    <3>1. h.tokens = left /\ h.last = now
      BY <2>5
    <3> QED
      BY <1>2, <2>9, <3>1
  <2> QED
    BY <2>6, <2>10, <2>11 DEF v, end
<1> QED
  BY <1>1, <1>2

LEMMA WindowLags ==
  ASSUME NEW d, NEW at \in Nat, NEW lives \in Int, IsWindow(d, at, lives),
         NEW now \in Nat, now <= at, NEW cost \in Nat
  PROVE  LET v == FixedWindow(d, now, cost)
             end == Expires(v, at, lives)
         IN end \in Int /\ IsWindow(v.data, at, end)
<1> DEFINE v     == FixedWindow(d, now, cost)
           start == WindowOf(now)
           count == Counted(d, start)
           px    == AtLeast(1, (start + WindowMs) - now)
           end   == Expires(v, at, lives)
<1>1. start \in Nat /\ start <= now /\ WindowMs \in Nat /\ Limit \in Nat
  BY WindowOfInstant, Windows
<1>2. count \in 0 .. Limit
  <2>1. CASE d = {}
    BY <1>1, <2>1 DEF Counted
  <2>2. CASE \E s \in Int, n \in 0 .. Limit : d = {[start |-> s, count |-> n]}
    <3>1. PICK s \in Int, n \in 0 .. Limit : d = {[start |-> s, count |-> n]}
      BY <2>2
    <3>2. count = IF s = start THEN n ELSE 0
      BY <3>1, CountedInKey
    <3> QED
      BY <1>1, <3>2
  <2> QED
    BY <2>1, <2>2 DEF IsWindow
<1>3. CASE count + cost <= Limit
  <2> DEFINE new  == {[start |-> start, count |-> count + cost]}
             left == Limit - (count + cost)
  <2>1. v.data = new /\ v.px = px
    <3>1. v = Allow(left, start + WindowMs, new, px)
      BY <1>3 DEF FixedWindow, WindowOf
    <3> HIDE DEF v, new, px, left
    <3> QED
      BY <3>1 DEF Allow
  <2> HIDE DEF v, start, count
  <2>2. (start + WindowMs) - now \in Int
    BY <1>1
  <2>3. px \in Int /\ px >= (start + WindowMs) - now /\ px > 0
    BY <2>2, AtLeastOne
  <2> HIDE DEF px
  <2>4. end = at + px /\ end \in Int
    BY <2>1, <2>3 DEF Expires
  <2>5. start + WindowMs <= end /\ start <= at /\ start \in Int /\ count + cost \in 0 .. Limit
    BY <1>1, <1>2, <1>3, <2>3, <2>4
  <2> HIDE DEF end
  <2>6. IsWindow(v.data, at, end)
    BY <2>1, <2>5 DEF IsWindow
  <2> QED
    BY <2>4, <2>6 DEF v, end
<1>4. CASE ~ (count + cost <= Limit)
  <2>1. v.data = d /\ v.px = 0
    BY <1>4 DEF FixedWindow, Deny, WindowOf
  <2> HIDE DEF v
  <2>2. end = lives
    BY <2>1 DEF Expires
  <2> HIDE DEF end
  <2> QED
    BY <2>1, <2>2 DEF v, end
<1> QED
  BY <1>3, <1>4

LEMMA LogLags ==
  ASSUME NEW d, NEW at \in Nat, NEW lives \in Int, IsLog(d, at, lives),
         NEW now \in Nat, now < at, NEW cost \in Nat
  PROVE  LET v == SlidingWindowLog(d, now, cost)
             end == Expires(v, at, lives)
         IN end \in Int /\ IsLog(v.data, at, end)
<1> DEFINE v     == SlidingWindowLog(d, now, cost)
           log   == Recent(d, now)
           count == Cardinality(log)
           new   == {[score |-> now, n |-> count + i] : i \in 1 .. cost}
           end   == Expires(v, at, lives)
<1>1. /\ WindowMs \in Nat \ {0} /\ Limit \in Nat /\ IsFiniteSet(d)
      /\ Cardinality(Recent(d, at)) <= Limit
      /\ \A e \in d : /\ e.score \in Int /\ e.n \in Int
                      /\ e.score <= at /\ e.score + WindowMs <= lives
                      /\ e.score = at => e.n <= Cardinality(Recent(d, at))
  BY Windows DEF IsLog
<1>2. /\ log \subseteq d /\ IsFiniteSet(log) /\ count \in Nat
      /\ Recent(d, at) = {e \in log : e.score > at - WindowMs}
  <2>1. log \subseteq d
    BY DEF Recent
  <2>2. Recent(d, at) = {e \in log : e.score > at - WindowMs}
    BY <1>1 DEF Recent
  <2> HIDE DEF log
  <2>3. IsFiniteSet(log) /\ Cardinality(log) \in Nat
    BY <1>1, <2>1, FS_Subset, FS_CardinalityType
  <2> QED
    BY <2>1, <2>2, <2>3
<1>3. IsFiniteSet(new) /\ Cardinality(new) = cost
  <2>1. now \in Int
    OBVIOUS
  <2> HIDE DEF count
  <2> QED
    BY <1>2, <2>1, AddedAreNew
<1>4. /\ count + cost <= Limit => v.data = log \cup new /\ v.px = WindowMs
      /\ ~ (count + cost <= Limit) => v.data = log /\ v.px = 0
  BY DEF SlidingWindowLog, Allow, Deny, Added
<1>5. \A e \in new : e.score = now /\ e.n \in Int
  BY <1>2
<1> HIDE DEF v, log, count, new
<1>6. CASE count + cost <= Limit
  <2> DEFINE kept == Recent(log \cup new, at)
  <2>1. end = at + WindowMs /\ end \in Int
    BY <1>1, <1>4, <1>6 DEF Expires
  <2>2. IsFiniteSet(log \cup new) /\ Cardinality(log \cup new) <= count + cost
    <3>1. /\ IsFiniteSet(log \cup new)
          /\ Cardinality(log \cup new) = count + cost - Cardinality(log \cap new)
      BY <1>2, <1>3, FS_Union DEF count
    <3>2. IsFiniteSet(log \cap new) /\ Cardinality(log \cap new) \in Nat
      BY <1>2, FS_Subset, FS_CardinalityType
    <3> QED
      BY <1>2, <3>1, <3>2
  <2>3. kept \subseteq log \cup new /\ Recent(d, at) \subseteq kept
    BY <1>2 DEF Recent
  <2> HIDE DEF kept
  <2>4. /\ IsFiniteSet(kept) /\ Cardinality(kept) \in Nat
        /\ Cardinality(log \cup new) \in Nat /\ Cardinality(Recent(d, at)) \in Nat
        /\ Cardinality(kept) <= Cardinality(log \cup new)
        /\ Cardinality(Recent(d, at)) <= Cardinality(kept)
    BY <2>2, <2>3, FS_Subset, FS_CardinalityType
  <2>5. Cardinality(kept) <= Limit
    BY <1>1, <1>2, <1>6, <2>2, <2>4
  <2> HIDE DEF end
  <2>6. ASSUME NEW e \in log \cup new
        PROVE  /\ e.score \in Int /\ e.n \in Int
               /\ e.score <= at /\ e.score + WindowMs <= end
               /\ e.score = at => e.n <= Cardinality(kept)
    <3>1. CASE e \in new
      BY <1>1, <1>5, <2>1, <3>1
    <3>2. CASE e \in log
      <4>1. /\ e.score \in Int /\ e.n \in Int /\ e.score <= at
            /\ e.score = at => e.n <= Cardinality(Recent(d, at))
        BY <1>1, <1>2, <3>2
      <4> QED
        BY <1>1, <2>1, <2>4, <4>1
    <3> QED
      BY <3>1, <3>2
  <2>7. IsLog(log \cup new, at, end)
    BY <2>2, <2>5, <2>6 DEF IsLog, kept
  <2> QED
    BY <1>4, <1>6, <2>1, <2>7 DEF v, end
<1>7. CASE ~ (count + cost <= Limit)
  <2>1. end = lives
    BY <1>4, <1>7 DEF Expires
  <2>2. Recent(log, at) = Recent(d, at)
    BY <1>2 DEF Recent
  <2>3. IsLog(log, at, lives)
    BY <1>1, <1>2, <2>2 DEF IsLog
  <2> HIDE DEF end
  <2> QED
    BY <1>4, <1>7, <2>1, <2>3 DEF v, end
<1> QED
  BY <1>6, <1>7

\* What holds while callers pass instants of their own that lag behind the clock: the
\* key is then as sound as on the server's.
CallsLag == \A t \in Tasks : call[t].now <= clock

LagKey == own /\ NoneAhead => CallsLag /\ (kind # "slidingWindow" => SoundKey)

LagInv == TypeInv /\ LagKey

LEMMA ScriptLags ==
  ASSUME SoundKey, kind # "slidingWindow", NEW now \in Nat, now <= clock, NEW cost \in Nat,
         LET v == Script(kind, KeyAt(clock), now, cost)
         IN data' = v.data /\ expiry' = Expires(v, clock, expiry),
         kind' = kind, clock' = clock
  PROVE  SoundKey'
<1> DEFINE d == KeyAt(clock)
           v == Script(kind, d, now, cost)
<1>1. /\ kind \in Kinds /\ clock \in Instants /\ clock \in Nat /\ d \in {data, {}}
      /\ data' = v.data /\ expiry' = Expires(v, clock, expiry)
  BY DEF SoundKey, RateKey, Instants, KeyAt
<1>2. CASE kind = "gcra"
  <2>1. IsArrival(data) /\ KeepsArrival /\ InReach
    BY <1>2 DEF SoundKey, RateKey
  <2>2. /\ IsArrival(d) /\ expiry \in Int
        /\ \A n \in d : n <= expiry * Cells /\ n <= clock * Cells + PeriodMs * Limit
    BY <1>1, <2>1 DEF IsArrival, KeepsArrival, InReach
  <2>3. v = Gcra(d, now, cost)
    BY <1>2 DEF Script
  <2> HIDE DEF d, v
  <2>4. /\ IsArrival(v.data) /\ Expires(v, clock, expiry) \in Int
        /\ \A n \in v.data : /\ n <= Expires(v, clock, expiry) * Cells
                             /\ n <= clock * Cells + PeriodMs * Limit
    BY <1>1, <2>2, <2>3, GcraLags
  <2>5. IsArrival(data') /\ KeepsArrival' /\ InReach'
    BY <1>1, <2>4 DEF IsArrival, KeepsArrival, InReach
  <2> QED
    BY <1>1, <1>2, <2>5 DEF SoundKey, RateKey
<1>3. CASE kind = "tokenBucket"
  <2>1. IsBucket(data, clock) /\ KeepsBucket
    BY <1>3 DEF SoundKey, RateKey
  <2>2. /\ IsBucket(d, clock) /\ expiry \in Int
        /\ \A h \in d : h.tokens >= 0 /\ Limit * RefillMs <= (expiry - h.last) * RefillTokens
    BY <1>1, <2>1 DEF IsBucket, KeepsBucket
  <2>3. v = TokenBucket(d, now, cost)
    BY <1>3 DEF Script
  <2> HIDE DEF d, v
  <2>4. /\ IsBucket(v.data, clock) /\ Expires(v, clock, expiry) \in Int
        /\ \A h \in v.data :
             /\ h.tokens >= 0
             /\ Limit * RefillMs <= (Expires(v, clock, expiry) - h.last) * RefillTokens
    BY <1>1, <2>2, <2>3, BucketLags
  <2>5. IsBucket(data', clock') /\ KeepsBucket'
    BY <1>1, <2>4 DEF IsBucket, KeepsBucket
  <2> QED
    BY <1>1, <1>3, <2>5 DEF SoundKey, RateKey
<1>4. CASE kind = "fixedWindow"
  <2>1. expiry \in Int /\ IsWindow(data, clock, expiry)
    BY <1>4 DEF SoundKey
  <2>2. IsWindow(d, clock, expiry)
    BY <1>1, <2>1 DEF IsWindow
  <2>3. v = FixedWindow(d, now, cost)
    BY <1>4 DEF Script
  <2> HIDE DEF d, v
  <2>4. Expires(v, clock, expiry) \in Int /\ IsWindow(v.data, clock, Expires(v, clock, expiry))
    BY <1>1, <2>1, <2>2, <2>3, WindowLags
  <2> QED
    BY <1>1, <1>4, <2>4 DEF SoundKey, RateKey
<1>5. CASE kind = "slidingWindowLog"
  <2>1. expiry \in Int /\ IsLog(data, clock, expiry)
    BY <1>5 DEF SoundKey
  <2>2. IsLog(d, clock, expiry)
    BY <1>1, <2>1, EmptyLog
  <2>3. v = SlidingWindowLog(d, now, cost)
    BY <1>5 DEF Script
  <2> HIDE DEF d, v
  <2>4. Expires(v, clock, expiry) \in Int /\ IsLog(v.data, clock, Expires(v, clock, expiry))
    <3>1. CASE now = clock
      <4>1. v = SlidingWindowLog(d, clock, cost)
        BY <2>3, <3>1
      <4> QED
        BY <1>1, <2>1, <2>2, <4>1, LogSpends DEF Expires
    <3>2. CASE now # clock
      BY <1>1, <2>1, <2>2, <2>3, <3>2, LogLags
    <3> QED
      BY <3>1, <3>2
  <2> QED
    BY <1>1, <1>5, <2>4 DEF SoundKey, RateKey
<1> QED
  BY <1>1, <1>2, <1>3, <1>4, <1>5 DEF Kinds

LEMMA LagOfRun ==
  ASSUME LagInv, NEW t \in Tasks, Run(t)
  PROVE  LagKey'
<1> DEFINE now == Now(call[t].now)
<1>1. own' = own /\ kind' = kind /\ clock' = clock /\ call' = call
  BY DEF Run, setup
<1> SUFFICES ASSUME own, NoneAhead PROVE CallsLag' /\ (kind # "slidingWindow" => SoundKey')
  BY <1>1 DEF LagKey, NoneAhead
<1>2. /\ CallsLag /\ (kind # "slidingWindow" => SoundKey)
      /\ clock \in Nat /\ call[t].now \in Nat /\ call[t].cost \in Nat
  BY DEF LagInv, LagKey, TypeInv, TypeOK, Instants
<1>3. now \in Nat /\ now <= clock
  BY <1>2 DEF CallsLag, Now
<1>4. LET v == Script(kind, KeyAt(clock), now, call[t].cost)
      IN data' = v.data /\ expiry' = Expires(v, clock, expiry)
  BY DEF Run, Expires
<1> HIDE DEF now
<1>5. ASSUME kind # "slidingWindow" PROVE SoundKey'
  BY <1>1, <1>2, <1>3, <1>4, <1>5, ScriptLags
<1> QED
  BY <1>1, <1>2, <1>5 DEF CallsLag

LEMMA LagOfTick ==
  ASSUME LagInv, Tick
  PROVE  LagKey'
<1>1. /\ own' = own /\ kind' = kind /\ call' = call /\ data' = data /\ expiry' = expiry
      /\ clock' = clock + 1 /\ clock' \in Instants /\ clock \in Nat
  BY DEF Tick, setup, keyVars, LagInv, TypeInv, TypeOK, Instants
<1> SUFFICES ASSUME own, NoneAhead PROVE CallsLag' /\ (kind # "slidingWindow" => SoundKey')
  BY <1>1 DEF LagKey, NoneAhead
<1>2. CallsLag /\ (kind # "slidingWindow" => SoundKey)
  BY DEF LagInv, LagKey
<1>3. CallsLag'
  <2>1. \A t \in Tasks : call[t].now \in Nat
    BY DEF LagInv, TypeInv, TypeOK, Instants
  <2> QED
    BY <1>1, <1>2, <2>1 DEF CallsLag
<1>4. ASSUME kind # "slidingWindow" PROVE SoundKey'
  <2>1. SoundKey /\ RateKey
    BY <1>2, <1>4 DEF SoundKey
  <2>2. ASSUME kind = "gcra" PROVE (IsArrival(data) /\ KeepsArrival /\ InReach)'
    <3>1. IsArrival(data) /\ KeepsArrival /\ InReach
      BY <2>1, <2>2 DEF RateKey
    <3>2. clock * Cells + PeriodMs * Limit <= (clock + 1) * Cells + PeriodMs * Limit
      BY <1>1, Constants
    <3>3. \A n \in data : n \in Int
      BY <3>1 DEF IsArrival
    <3>4. /\ clock * Cells + PeriodMs * Limit \in Int
          /\ (clock + 1) * Cells + PeriodMs * Limit \in Int
      BY <1>1, Constants
    <3>5. \A n \in data : n <= (clock + 1) * Cells + PeriodMs * Limit
      BY <3>1, <3>2, <3>3, <3>4 DEF InReach
    <3> QED
      BY <1>1, <3>1, <3>5 DEF IsArrival, KeepsArrival, InReach
  <2>3. ASSUME kind = "tokenBucket" PROVE (IsBucket(data, clock) /\ KeepsBucket)'
    <3>1. IsBucket(data, clock) /\ KeepsBucket
      BY <2>1, <2>3 DEF RateKey
    <3>2. IsBucket(data, clock + 1)
      BY <1>1, <3>1 DEF IsBucket
    <3> QED
      BY <1>1, <3>1, <3>2 DEF KeepsBucket
  <2>4. ASSUME kind = "fixedWindow" PROVE expiry \in Int /\ IsWindow(data, clock + 1, expiry)
    <3>1. expiry \in Int /\ IsWindow(data, clock, expiry)
      BY <2>1, <2>4 DEF SoundKey
    <3> QED
      BY <1>1, <3>1 DEF IsWindow
  <2>5. ASSUME kind = "slidingWindowLog" PROVE expiry \in Int /\ IsLog(data, clock + 1, expiry)
    <3>1. expiry \in Int /\ IsLog(data, clock, expiry)
      BY <2>1, <2>5 DEF SoundKey
    <3> QED
      BY <1>1, <3>1, LogAges
  <2>6. RateKey'
    BY <1>1, <2>2, <2>3 DEF RateKey
  <2>7. kind \in Kinds
    BY <2>1 DEF SoundKey
  <2> QED
    BY <1>1, <1>4, <2>4, <2>5, <2>6, <2>7 DEF SoundKey
<1> QED
  BY <1>3, <1>4

\* A step that leaves the key alone, and lets no call run ahead.
LEMMA LagOfOther ==
  ASSUME LagKey, UNCHANGED <<kind, own, clock, data, expiry>>,
         own /\ NoneAhead /\ CallsLag => CallsLag'
  PROVE  LagKey'
<1>1. SoundKey => SoundKey'
  BY DEF SoundKey, RateKey, KeepsArrival, KeepsBucket, InReach
<1> QED
  BY <1>1 DEF LagKey, NoneAhead

LEMMA LagStep == LagInv /\ [Next]_vars => LagInv'
<1> SUFFICES ASSUME LagInv, [Next]_vars PROVE LagKey'
  BY TypeStep DEF LagInv
<1> USE DEF setup, keyVars
<1>1. LagKey /\ clock \in Nat /\ call \in [Tasks -> [now : Instants, cost : Nat]]
  BY DEF LagInv, TypeInv, TypeOK, Instants
<1>2. ASSUME NEW t \in Tasks, NEW cost \in Costs, Check(t, cost) PROVE LagKey'
  <2>1. UNCHANGED <<kind, own, clock, data, expiry>>
    BY <1>2 DEF Check
  <2>2. ASSUME own, NoneAhead, CallsLag PROVE CallsLag'
    <3>1. PICK now \in {0} \cup {clock + drift : drift \in Drifts} :
            now \in Instants /\ call' = [call EXCEPT ![t] = [now |-> now, cost |-> cost]]
      BY <1>2, <2>2 DEF Check
    <3>2. now <= clock
      BY <1>1, <2>2, <3>1, Constants DEF NoneAhead
    <3>3. ASSUME NEW u \in Tasks PROVE call'[u].now <= clock
      <4>1. CASE u = t
        BY <1>1, <3>1, <3>2, <4>1
      <4>2. CASE u # t
        <5>1. call'[u] = call[u]
          BY <1>1, <3>1, <4>2
        <5> QED
          BY <2>2, <5>1 DEF CallsLag
      <4> QED
        BY <4>1, <4>2
    <3> QED
      BY <2>1, <3>3 DEF CallsLag
  <2> QED
    BY <1>1, <2>1, <2>2, LagOfOther
<1>3. ASSUME NEW t \in Tasks, EvalSha(t) PROVE LagKey'
  <2>1. CASE Run(t)
    BY <2>1, LagOfRun
  <2>2. CASE UNCHANGED <<setup, clock, cached, call, answer, charge, keyVars>>
    BY <1>1, <2>2, LagOfOther DEF CallsLag
  <2> QED
    BY <1>3, <2>1, <2>2 DEF EvalSha
<1>4. ASSUME NEW t \in Tasks, Eval(t) PROVE LagKey'
  BY <1>4, LagOfRun DEF Eval
<1>5. ASSUME NEW t \in Tasks, Over(t) PROVE LagKey'
  <2>1. UNCHANGED <<kind, own, clock, data, expiry>> /\ call' = [call EXCEPT ![t] = NoCall]
    BY <1>5 DEF Over
  <2>2. ASSUME CallsLag PROVE CallsLag'
    <3>1. ASSUME NEW u \in Tasks PROVE call'[u].now <= clock
      <4>1. CASE u = t
        BY <1>1, <2>1, <4>1 DEF NoCall
      <4>2. CASE u # t
        <5>1. call'[u] = call[u]
          BY <1>1, <2>1, <4>2
        <5> QED
          BY <2>2, <5>1 DEF CallsLag
      <4> QED
        BY <4>1, <4>2
    <3> QED
      BY <2>1, <3>1 DEF CallsLag
  <2> QED
    BY <1>1, <2>1, <2>2, LagOfOther
<1>6. ASSUME NEW t \in Tasks, Return(t) \/ Fails(t) PROVE LagKey'
  BY <1>5, <1>6 DEF Return, Fails
<1>7. CASE Flush
  BY <1>1, <1>7, LagOfOther DEF Flush, CallsLag
<1>8. CASE Tick
  BY <1>8, LagOfTick
<1>9. CASE UNCHANGED vars
  BY <1>1, <1>9, LagOfOther DEF vars, CallsLag
<1> QED
  BY <1>2, <1>3, <1>4, <1>6, <1>7, <1>8, <1>9 DEF Next

LEMMA LagInit == Init => LagKey
<1> SUFFICES ASSUME Init PROVE CallsLag /\ (kind # "slidingWindow" => SoundKey)
  BY DEF LagKey
<1>1. kind \in Kinds /\ clock = 1 /\ clock \in Instants /\ data = {} /\ expiry = 0
  BY Constants, RedisAssumption DEF Init, Instants
<1>2. CallsLag
  BY <1>1 DEF Init, CallsLag, NoCall
<1>3. RateKey
  BY <1>1 DEF RateKey, IsArrival, IsBucket, KeepsArrival, KeepsBucket, InReach
<1>4. IsLog({}, 1, 0)
  BY EmptyLog
<1> QED
  BY <1>1, <1>2, <1>3, <1>4 DEF SoundKey, IsWindow

-----------------------------------------------------------------------------
(* What holds of the advice on every clock, on the server's, and on clocks  *)
(* that lag.                                                                *)

\* Callers go by the server's clock, or (slidingWindow apart) by clocks behind it.
InStep == ~ own \/ (NoneAhead /\ kind # "slidingWindow")

AdviceInv == ScriptInv /\ LagInv

LEMMA KeyIsSound == AdviceInv /\ InStep => SoundKey
<1> SUFFICES ASSUME AdviceInv, InStep PROVE SoundKey
  OBVIOUS
<1>1. CASE ~ own
  BY <1>1, ServerKeeps DEF AdviceInv
<1>2. CASE own
  BY <1>2 DEF AdviceInv, InStep, LagInv, LagKey
<1> QED
  BY <1>1, <1>2

LEMMA AdviceHolds == Spec => []AdviceInv
<1>1. Init => ScriptInv
  BY ScriptInit
<1>2. ScriptInv /\ [Next]_vars => ScriptInv'
  BY ScriptStep
<1>3. Init => LagKey
  BY LagInit
<1>4. LagInv /\ [Next]_vars => LagInv'
  BY LagStep
<1>5. TypeInv /\ LagKey <=> LagInv
  BY DEF LagInv
<1>6. ScriptInv /\ LagInv <=> AdviceInv
  BY DEF AdviceInv
<1> QED
  BY <1>1, <1>2, <1>3, <1>4, <1>5, <1>6, TypeInit, PTL DEF Spec

LEMMA GcraOnAnyClock == AdviceInv /\ kind = "gcra" => RetryIsEnough /\ ResetIsFull
<1> SUFFICES ASSUME AdviceInv, kind = "gcra" PROVE RetryIsEnough /\ ResetIsFull
  OBVIOUS
<1>1. clock \in Instants /\ IsArrival(data)
  BY DEF AdviceInv, ScriptInv, CeilingInv, SpentInv, SpendInv, KeptInv, KeyInv
<1> QED
  BY <1>1, AdviceIsEnough, GcraIsFull

\* Whatever the limit, the rate and the callers did: who is denied and waits for
\* retry_after_ms with nobody else at the key is admitted - by gcra on any clock, by
\* another strategy on the server's or on clocks that lag behind it.  The cost may not
\* exceed the limit, and slidingWindow makes no such promise: its wait is a lower bound.
THEOREM RedisRetryIsEnough == Spec => [](kind = "gcra" \/ InStep => RetryIsEnough)
BY AdviceHolds, KeyIsSound, ScriptsAreEnough, GcraOnAnyClock, PTL

\* And on the server's clock, for all five, as on clocks that lag, for all but
\* slidingWindow: who comes back any earlier, with nobody else at the key, is denied
\* again, also when the key has expired meanwhile.
THEOREM RedisRetryIsNeeded == Spec => [](InStep => RetryIsNeeded)
BY AdviceHolds, KeyIsSound, ScriptsAreNeeded, PTL

\* On the same clocks, whatever the limit, the rate and the costs: the remaining units
\* a reply gives can be spent at that instant, and not one more.
THEOREM RedisRemainingIsExact == Spec => [](InStep => RemainingIsSpendable)
BY AdviceHolds, KeyIsSound, ScriptsRemain, PTL

\* At reset_at_ms, with nobody else at the key, the whole limit is admitted at once,
\* also when the key has expired meanwhile; for gcra on any clock.  slidingWindowLog
\* makes no such promise: it answers with the instant its oldest unit comes back.
THEOREM RedisResetIsFull == Spec => [](kind = "gcra" \/ InStep => ResetIsFull)
BY AdviceHolds, KeyIsSound, ScriptsReplenish, GcraOnAnyClock, PTL

\* On the server's clock, and on clocks that lag: the expiry a script sets with PEXPIRE
\* never drops what could still matter - the missing key is answered as the key was.
THEOREM RedisForgetsNothing == Spec => [](InStep => ExpiryForgetsNothing)
BY AdviceHolds, KeyIsSound, ScriptsForget, PTL
=============================================================================
