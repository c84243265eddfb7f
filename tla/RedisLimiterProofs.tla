-------------------------- MODULE RedisLimiterProofs --------------------------
(***************************************************************************)
(* A call to the Redis door is charged once, for any number of callers;    *)
(* then what RedisScriptProofs needs to know of the two strategies that    *)
(* admit by rate, gcra and tokenBucket.                                    *)
(***************************************************************************)
EXTENDS RedisLimiter, TLAPS

USE RedisAssumption

-----------------------------------------------------------------------------
(* A call is charged once, and as it is answered.                          *)

\* What a call in progress has been charged.  What the scripts compute is left
\* open: only where they run matters.
Calls ==
  /\ pc \in [Tasks -> {"idle", "evalsha", "eval", "replied"}]
  /\ call \in [Tasks -> [now : Instants, cost : Nat]]
  /\ DOMAIN answer = Tasks
  /\ charge \in [Tasks -> Nat]

\* Nothing is charged before the script has run and answered.
Unanswered ==
  \A t \in Tasks : pc[t] # "replied" => answer[t] = NoAnswer /\ charge[t] = 0

ChargeInv == Calls /\ Unanswered /\ ChargedAsAnswered

LEMMA RunCharges ==
  ASSUME Calls, Unanswered, ChargedAsAnswered, NEW t \in Tasks, pc[t] # "replied", Run(t)
  PROVE  ChargeInv'
<1> DEFINE v == Script(kind, KeyAt(clock), Now(call[t].now), call[t].cost)
           charged == IF v.allowed THEN call[t].cost ELSE 0
           told == [kind |-> IF v.allowed THEN "allow" ELSE "deny",
                    remaining |-> v.remaining, resetAt |-> v.resetAt,
                    retryAfter |-> v.retryAfter]
<1>1. /\ pc' = [pc EXCEPT ![t] = "replied"]
      /\ answer' = [answer EXCEPT ![t] = told]
      /\ charge' = [charge EXCEPT ![t] = charge[t] + charged]
      /\ UNCHANGED call
  BY DEF Run
<1>2. charge[t] = 0 /\ call[t].cost \in Nat
  BY DEF Calls, Unanswered
<1>3. charged \in Nat /\ charge[t] + charged = charged
  BY <1>2
<1>4. told.kind = (IF v.allowed THEN "allow" ELSE "deny")
  OBVIOUS
<1>5. charged = IF told.kind = "allow" THEN call[t].cost ELSE 0
  BY <1>4
<1> HIDE DEF charged, told
<1>6. charge' = [charge EXCEPT ![t] = charged]
  BY <1>1, <1>3
<1>7. Calls'
  BY <1>1, <1>3, <1>6 DEF Calls, Instants
<1>8. Unanswered'
  BY <1>1, <1>6 DEF Unanswered, Calls
<1>9. ChargedAsAnswered'
  BY <1>1, <1>5, <1>6 DEF ChargedAsAnswered, Calls
<1> QED
  BY <1>7, <1>8, <1>9 DEF ChargeInv

LEMMA OverCharges ==
  ASSUME ChargeInv, NEW t \in Tasks, Over(t)
  PROVE  ChargeInv'
<1>1. /\ pc' = [pc EXCEPT ![t] = "idle"]
      /\ call' = [call EXCEPT ![t] = NoCall]
      /\ answer' = [answer EXCEPT ![t] = NoAnswer]
      /\ charge' = [charge EXCEPT ![t] = 0]
  BY DEF Over
<1>2. NoCall \in [now : Instants, cost : Nat] /\ NoAnswer.kind # "allow"
  BY DEF NoCall, NoAnswer, Instants
<1>3. Calls'
  BY <1>1, <1>2 DEF ChargeInv, Calls, Instants
<1>4. Unanswered' /\ ChargedAsAnswered'
  BY <1>1, <1>2 DEF ChargeInv, Calls, Unanswered, ChargedAsAnswered
<1> QED
  BY <1>3, <1>4 DEF ChargeInv

LEMMA CallsAreCharged ==
  ASSUME ChargeInv, [Next]_vars
  PROVE  ChargeInv'
<1> USE DEF setup, keyVars
<1>1. ASSUME NEW t \in Tasks, NEW cost \in Costs, Check(t, cost) PROVE ChargeInv'
  <2>1. PICK now \in Instants : call' = [call EXCEPT ![t] = [now |-> now, cost |-> cost]]
    BY <1>1 DEF Check
  <2>2. /\ pc[t] = "idle"
        /\ pc' = [pc EXCEPT ![t] = "evalsha"]
        /\ UNCHANGED <<answer, charge>>
    BY <1>1 DEF Check
  <2>3. [now |-> now, cost |-> cost] \in [now : Instants, cost : Nat]
    OBVIOUS
  <2>4. Calls'
    BY <2>1, <2>2, <2>3 DEF ChargeInv, Calls, Instants
  <2>5. answer[t].kind # "allow" /\ charge[t] = 0
    BY <2>2 DEF ChargeInv, Unanswered, NoAnswer
  <2>6. Unanswered' /\ ChargedAsAnswered'
    BY <2>1, <2>2, <2>5 DEF ChargeInv, Calls, Unanswered, ChargedAsAnswered
  <2> QED
    BY <2>4, <2>6 DEF ChargeInv
<1>2. ASSUME NEW t \in Tasks, EvalSha(t) PROVE ChargeInv'
  <2>1. CASE Run(t)
    BY <1>2, <2>1, RunCharges DEF EvalSha, ChargeInv
  <2>2. CASE ~ Run(t)
    BY <1>2, <2>2 DEF EvalSha, ChargeInv, Calls, Unanswered, ChargedAsAnswered, Instants
  <2> QED
    BY <2>1, <2>2
<1>3. ASSUME NEW t \in Tasks, Eval(t) PROVE ChargeInv'
  BY <1>3, RunCharges DEF Eval, ChargeInv
<1>4. ASSUME NEW t \in Tasks, Return(t) \/ Fails(t) PROVE ChargeInv'
  BY <1>4, OverCharges DEF Return, Fails
<1>5. CASE Flush \/ Tick \/ UNCHANGED vars
  BY <1>5 DEF Flush, Tick, vars, ChargeInv, Calls, Unanswered, ChargedAsAnswered, Instants
<1> QED
  BY <1>1, <1>2, <1>3, <1>4, <1>5 DEF Next

\* Whatever the scripts compute, whichever commands and replies are lost and
\* whenever Redis forgets its scripts: a call is charged once, and as answered.
THEOREM RedisChargesOnce == Spec => []ChargedAsAnswered
<1>1. Init => ChargeInv
  BY DEF Init, ChargeInv, Calls, Unanswered, ChargedAsAnswered, NoCall, NoAnswer, Instants
<1>2. ChargeInv => ChargedAsAnswered
  BY DEF ChargeInv
<1> QED
  BY <1>1, <1>2, CallsAreCharged, PTL DEF Spec

-----------------------------------------------------------------------------
(* Waiting for retry_after_ms is enough.                                   *)

LEMMA MaxOfTwo ==
  ASSUME NEW x \in Int, NEW y \in Int
  PROVE  Max({x, y}) \in {x, y} /\ Max({x, y}) >= x /\ Max({x, y}) >= y
<1>1. \E m \in {x, y} : \A n \in {x, y} : m >= n
  <2>1. CASE x >= y
    BY <2>1
  <2>2. CASE y >= x
    BY <2>2
  <2> QED
    BY <2>1, <2>2
<1> QED
  BY <1>1 DEF Max

LEMMA AtLeastZero ==
  ASSUME NEW k \in Nat
  PROVE  AtLeast(0, k) = k
<1>1. Max({0, k}) \in {0, k} /\ Max({0, k}) >= k
  BY MaxOfTwo
<1> QED
  BY <1>1 DEF AtLeast

LEMMA MinOfTwo ==
  ASSUME NEW x \in Int, NEW y \in Int
  PROVE  Min({x, y}) \in {x, y} /\ Min({x, y}) <= x /\ Min({x, y}) <= y
<1>1. \E m \in {x, y} : \A n \in {x, y} : m <= n
  <2>1. CASE x <= y
    BY <2>1
  <2>2. CASE y <= x
    BY <2>2
  <2> QED
    BY <2>1, <2>2
<1> QED
  BY <1>1 DEF Min

LEMMA CeilDivIsEnough ==
  ASSUME NEW a \in Int, NEW b \in Nat \ {0}
  PROVE  CeilDiv(a, b) \in Int /\ a <= CeilDiv(a, b) * b
BY DEF CeilDiv

LEMMA CeilDivIsLeast ==
  ASSUME NEW a \in Int, NEW b \in Nat \ {0}
  PROVE  (CeilDiv(a, b) - 1) * b < a
BY DEF CeilDiv

LEMMA Times ==
  ASSUME NEW x \in Int, NEW y \in Int, NEW z \in Int
  PROVE  (x + y) * z = x * z + y * z
OBVIOUS

LEMMA TimesIsMonotone ==
  ASSUME NEW x \in Int, NEW y \in Int, NEW z \in Nat, x <= y
  PROVE  z * x <= z * y
OBVIOUS

LEMMA Constants ==
  /\ Limit \in Nat /\ PeriodMs \in Nat \ {0} /\ Cells \in Nat \ {0}
  /\ RefillMs \in Nat \ {0} /\ RefillTokens \in Nat \ {0}
BY ScriptAssumption

\* The key of gcra holds one number, or is missing.
IsArrival(d) == d = {} \/ \E n \in Int : d = {n}

LEMMA ArrivalTimeIsLatest ==
  ASSUME NEW d, IsArrival(d), NEW now \in Int
  PROVE  /\ ArrivalTime(d, now) \in Int
         /\ ArrivalTime(d, now) = now * Cells \/ ArrivalTime(d, now) \in d
         /\ \A n \in d : ArrivalTime(d, now) >= n
         /\ now * Cells <= ArrivalTime(d, now)
<1> DEFINE TheLatest == /\ ArrivalTime(d, now) \in Int
                        /\ ArrivalTime(d, now) = now * Cells \/ ArrivalTime(d, now) \in d
                        /\ \A n \in d : ArrivalTime(d, now) >= n
                        /\ now * Cells <= ArrivalTime(d, now)
<1>0. now * Cells \in Int
  BY Constants
<1>1. CASE d = {}
  <2>1. {now * Cells} \cup d = {now * Cells, now * Cells}
    BY <1>1
  <2> QED
    BY <1>0, <1>1, <2>1, MaxOfTwo DEF ArrivalTime
<1>2. ASSUME NEW n \in Int, d = {n} PROVE TheLatest
  <2>1. {now * Cells} \cup d = {now * Cells, n}
    BY <1>2
  <2> QED
    BY <1>0, <1>2, <2>1, MaxOfTwo DEF ArrivalTime
<1> QED
  BY <1>1, <1>2 DEF IsArrival

\* When the cost is admitted, as the script computes it.
AllowAt(d, now, cost) == (ArrivalTime(d, now) + PeriodMs * cost) - PeriodMs * Limit

LEMMA GcraDenies ==
  ASSUME NEW d, NEW now, NEW cost, now * Cells < AllowAt(d, now, cost)
  PROVE  LET v == Gcra(d, now, cost)
         IN /\ ~ v.allowed
            /\ v.retryAfter = CeilDiv(AllowAt(d, now, cost) - now * Cells, Cells)
            /\ v.data = d
            /\ v.px = 0
            /\ v.remaining =
                 AtLeast(0, (PeriodMs * Limit - (ArrivalTime(d, now) - now * Cells))
                              \div PeriodMs)
<1> DEFINE retry == CeilDiv(AllowAt(d, now, cost) - now * Cells, Cells)
           left  == (PeriodMs * Limit - (ArrivalTime(d, now) - now * Cells)) \div PeriodMs
           reset == CeilDiv(ArrivalTime(d, now), Cells)
<1>1. Gcra(d, now, cost) = Deny(left, reset, retry, d)
  BY DEF Gcra, AllowAt
<1> HIDE DEF retry, left, reset
<1>2. /\ ~ Gcra(d, now, cost).allowed
      /\ Gcra(d, now, cost).retryAfter = retry
      /\ Gcra(d, now, cost).data = d
      /\ Gcra(d, now, cost).px = 0
      /\ Gcra(d, now, cost).remaining = AtLeast(0, left)
  BY <1>1 DEF Deny
<1> QED
  BY <1>2 DEF retry, left

LEMMA GcraAllows ==
  ASSUME NEW d, NEW now, NEW cost, ~ (now * Cells < AllowAt(d, now, cost))
  PROVE  LET then == ArrivalTime(d, now) + PeriodMs * cost
         IN /\ Gcra(d, now, cost).allowed
            /\ Gcra(d, now, cost).data = {then}
            /\ Gcra(d, now, cost).px = AtLeast(1, CeilDiv(then - now * Cells, Cells))
            /\ Gcra(d, now, cost).retryAfter = 0
            /\ Gcra(d, now, cost).remaining =
                 AtLeast(0, (PeriodMs * Limit - (then - now * Cells)) \div PeriodMs)
<1> DEFINE new == {ArrivalTime(d, now) + PeriodMs * cost}
           then  == ArrivalTime(d, now) + PeriodMs * cost
           left  == (PeriodMs * Limit - (then - now * Cells)) \div PeriodMs
           reset == CeilDiv(then, Cells)
           px    == AtLeast(1, CeilDiv(then - now * Cells, Cells))
<1>1. Gcra(d, now, cost) = Allow(left, reset, new, px)
  BY DEF Gcra, AllowAt
<1> HIDE DEF new, left, reset, px
<1>2. /\ Gcra(d, now, cost).allowed
      /\ Gcra(d, now, cost).data = new
      /\ Gcra(d, now, cost).px = px
      /\ Gcra(d, now, cost).retryAfter = 0
      /\ Gcra(d, now, cost).remaining = AtLeast(0, left)
  BY <1>1 DEF Allow
<1> QED
  BY <1>2 DEF new, px, left

LEMMA GcraRetries ==
  ASSUME NEW d, IsArrival(d), NEW e, e \in {d, {}}, NEW now \in Int,
         NEW cost \in Nat, cost <= Limit,
         ~ Gcra(d, now, cost).allowed
  PROVE  Gcra(e, now + Gcra(d, now, cost).retryAfter, cost).allowed
<1> DEFINE at(i)         == i * Cells
           allowAt(k, i) == AllowAt(k, i, cost)
           retry         == CeilDiv(allowAt(d, now) - at(now), Cells)
<1>0. IsArrival(e)
  BY DEF IsArrival
<1>1. PeriodMs * cost \in Int /\ PeriodMs * Limit \in Int /\ PeriodMs * cost <= PeriodMs * Limit
  BY Constants, TimesIsMonotone
<1>2. allowAt(d, now) \in Int /\ at(now) \in Int
  BY <1>1, ArrivalTimeIsLatest, Constants DEF AllowAt
<1>3. retry \in Int /\ allowAt(d, now) - at(now) <= retry * Cells
  BY <1>2, CeilDivIsEnough, Constants
<1>4. Gcra(d, now, cost).retryAfter = retry
  BY GcraDenies, GcraAllows
<1>5. at(now + retry) = at(now) + retry * Cells /\ at(now + retry) \in Int
  BY <1>3, Times, Constants
<1>6. at(now + retry) >= allowAt(d, now)
  BY <1>2, <1>3, <1>5, Constants
<1>7. ~ (at(now + retry) < allowAt(e, now + retry))
  <2>1. ArrivalTime(e, now + retry) \in Int
    BY <1>0, <1>3, ArrivalTimeIsLatest
  <2>2. CASE ArrivalTime(e, now + retry) = at(now + retry)
    BY <1>1, <1>5, <2>1, <2>2 DEF AllowAt
  <2>3. CASE ArrivalTime(e, now + retry) \in d
    <3>1. ArrivalTime(e, now + retry) <= ArrivalTime(d, now) /\ ArrivalTime(d, now) \in Int
      BY <2>1, <2>3, ArrivalTimeIsLatest
    <3>2. allowAt(e, now + retry) <= allowAt(d, now)
      BY <1>1, <2>1, <3>1 DEF AllowAt
    <3> QED
      BY <1>1, <1>2, <1>5, <1>6, <2>1, <3>2 DEF AllowAt
  <2> QED
    BY <1>0, <1>3, <2>2, <2>3, ArrivalTimeIsLatest
<1> QED
  BY <1>4, <1>7, GcraAllows

\* The key of tokenBucket holds one record of the past, or is missing.
IsBucket(d, now) ==
  d = {} \/ \E n \in Int, l \in Int : l <= now /\ d = {[tokens |-> n, last |-> l]}

LEMMA TokensOfKey ==
  ASSUME NEW n \in Int, NEW l \in Int, NEW now \in Int, l <= now
  PROVE  LET tokens == Tokens({[tokens |-> n, last |-> l]}, now)
             refilled == n + (now - l) * RefillTokens
         IN /\ tokens \in {Limit * RefillMs, refilled}
            /\ tokens <= Limit * RefillMs
            /\ tokens <= refilled
<1> DEFINE h == [tokens |-> n, last |-> l]
           refilled == n + (now - l) * RefillTokens
<1>1. The({h}) = h
  BY DEF The
<1>2. h.tokens = n /\ h.last = l
  OBVIOUS
<1>3. AtLeast(0, now - l) = now - l
  BY AtLeastZero
<1>4. Tokens({h}, now) = Min({Limit * RefillMs, refilled})
  BY <1>1, <1>2, <1>3 DEF Tokens
<1>5. refilled \in Int /\ Limit * RefillMs \in Int
  BY Constants
<1> QED
  BY <1>4, <1>5, MinOfTwo

LEMMA BucketDenies ==
  ASSUME NEW d, NEW now, NEW cost, ~ (Tokens(d, now) - cost * RefillMs >= 0)
  PROVE  LET v == TokenBucket(d, now, cost)
         IN /\ ~ v.allowed
            /\ v.retryAfter = CeilDiv(- (Tokens(d, now) - cost * RefillMs), RefillTokens)
            /\ v.data = d
            /\ v.px = 0
            /\ v.remaining = AtLeast(0, Tokens(d, now) \div RefillMs)
BY DEF TokenBucket, Deny

LEMMA BucketAllows ==
  ASSUME NEW d, NEW now, NEW cost, Tokens(d, now) - cost * RefillMs >= 0
  PROVE  LET v == TokenBucket(d, now, cost)
         IN /\ v.allowed
            /\ v.data = {[tokens |-> Tokens(d, now) - cost * RefillMs, last |-> now]}
            /\ v.px = AtLeast(1, CeilDiv(Limit * RefillMs, RefillTokens))
            /\ v.retryAfter = 0
            /\ v.remaining = AtLeast(0, (Tokens(d, now) - cost * RefillMs) \div RefillMs)
BY DEF TokenBucket, Allow

LEMMA TokensAreInt ==
  ASSUME NEW d, NEW now \in Int, IsBucket(d, now)
  PROVE  Tokens(d, now) \in Int
<1>1. CASE d = {}
  BY <1>1, Constants DEF Tokens
<1>2. ASSUME NEW n \in Int, NEW l \in Int, l <= now, d = {[tokens |-> n, last |-> l]}
      PROVE  Tokens(d, now) \in Int
  <2>1. n + (now - l) * RefillTokens \in Int /\ Limit * RefillMs \in Int
    BY Constants
  <2> QED
    BY <1>2, <2>1, TokensOfKey
<1> QED
  BY <1>1, <1>2 DEF IsBucket

LEMMA BucketRetries ==
  ASSUME NEW d, NEW now \in Int, IsBucket(d, now), NEW e, e \in {d, {}},
         NEW cost \in Nat, cost <= Limit,
         ~ TokenBucket(d, now, cost).allowed
  PROVE  TokenBucket(e, now + TokenBucket(d, now, cost).retryAfter, cost).allowed
<1> DEFINE left  == Tokens(d, now) - cost * RefillMs
           retry == CeilDiv(- left, RefillTokens)
<1>1. ~ (left >= 0)
  BY BucketAllows
<1>2. cost * RefillMs \in Int /\ Limit * RefillMs \in Int /\ cost * RefillMs <= Limit * RefillMs
  BY Constants, TimesIsMonotone
<1>3. left \in Int
  BY <1>2, TokensAreInt
<1>4. retry \in Int /\ - left <= retry * RefillTokens
  BY <1>3, CeilDivIsEnough, Constants
<1>5. retry >= 0
  BY <1>1, <1>3, <1>4, Constants
<1>6. TokenBucket(d, now, cost).retryAfter = retry
  BY <1>1, BucketDenies
<1>7. Tokens(e, now + retry) >= cost * RefillMs /\ Tokens(e, now + retry) \in Int
  <2>1. CASE e = {}
    BY <1>2, <2>1 DEF Tokens
  <2>2. ASSUME NEW n \in Int, NEW l \in Int, l <= now, d = {[tokens |-> n, last |-> l]}, e = d
        PROVE  /\ Tokens(e, now + retry) >= cost * RefillMs
               /\ Tokens(e, now + retry) \in Int
    <3> DEFINE then == n + ((now + retry) - l) * RefillTokens
    <3>1. then = (n + (now - l) * RefillTokens) + retry * RefillTokens /\ then \in Int
      BY <1>4, Constants
    <3>2. Tokens(d, now) <= n + (now - l) * RefillTokens /\ Tokens(d, now) \in Int
      BY <2>2, TokensOfKey, TokensAreInt
    <3>3. then >= cost * RefillMs
      BY <1>2, <1>4, <3>1, <3>2, Constants
    <3>4. l <= now + retry
      BY <1>4, <1>5, <2>2
    <3>5. Tokens(e, now + retry) \in {Limit * RefillMs, then}
      BY <1>4, <2>2, <3>4, TokensOfKey
    <3> QED
      BY <1>2, <3>1, <3>3, <3>5
  <2> QED
    BY <2>1, <2>2 DEF IsBucket
<1> QED
  BY <1>2, <1>6, <1>7, BucketAllows

\* What the keys of these two scripts hold, and that no caller of a fleet on the
\* server's clock passes an instant of its own.
KeyInv ==
  /\ clock \in Instants
  /\ call \in [Tasks -> [now : Instants, cost : Nat]]
  /\ ~ own => \A t \in Tasks : call[t].now = 0
  /\ kind = "gcra" => IsArrival(data)
  /\ kind = "tokenBucket" /\ ~ own => IsBucket(data, clock)

LEMMA KeyOfRun ==
  ASSUME KeyInv, NEW t \in Tasks, Run(t)
  PROVE  KeyInv'
<1> DEFINE now == Now(call[t].now)
           d   == KeyAt(clock)
           v   == Script(kind, d, now, call[t].cost)
<1>1. data' = v.data /\ UNCHANGED <<kind, own, clock, call>>
  BY DEF Run, setup
<1>2. d \in {data, {}} /\ now \in Int /\ clock \in Int /\ call[t].cost \in Nat
  BY DEF KeyAt, Now, KeyInv, Instants
<1>3. kind = "gcra" => IsArrival(data')
  <2> SUFFICES ASSUME kind = "gcra" PROVE IsArrival(v.data)
    BY <1>1
  <2>1. IsArrival(d)
    BY <1>2 DEF KeyInv, IsArrival
  <2>2. v = Gcra(d, now, call[t].cost)
    BY DEF Script
  <2>3. ArrivalTime(d, now) + PeriodMs * call[t].cost \in Int
    BY <1>2, <2>1, ArrivalTimeIsLatest, Constants
  <2>4. CASE now * Cells < AllowAt(d, now, call[t].cost)
    BY <2>1, <2>2, <2>4, GcraDenies
  <2>5. CASE ~ (now * Cells < AllowAt(d, now, call[t].cost))
    BY <2>2, <2>3, <2>5, GcraAllows DEF IsArrival
  <2> QED
    BY <2>4, <2>5
<1>4. kind = "tokenBucket" /\ ~ own => IsBucket(data', clock)
  <2> SUFFICES ASSUME kind = "tokenBucket", ~ own PROVE IsBucket(v.data, clock)
    BY <1>1
  <2>1. IsBucket(d, clock)
    BY <1>2 DEF KeyInv, IsBucket
  <2>2. now = clock
    BY DEF Now, KeyInv
  <2>3. v = TokenBucket(d, clock, call[t].cost)
    BY <2>2 DEF Script
  <2>4. Tokens(d, clock) - call[t].cost * RefillMs \in Int
    BY <1>2, <2>1, TokensAreInt, Constants
  <2>5. CASE Tokens(d, clock) - call[t].cost * RefillMs >= 0
    BY <1>2, <2>3, <2>4, <2>5, BucketAllows DEF IsBucket
  <2>6. CASE ~ (Tokens(d, clock) - call[t].cost * RefillMs >= 0)
    BY <2>1, <2>3, <2>6, BucketDenies
  <2> QED
    BY <2>5, <2>6
<1> QED
  BY <1>1, <1>3, <1>4 DEF KeyInv, Instants

LEMMA KeyStep ==
  ASSUME KeyInv, [Next]_vars
  PROVE  KeyInv'
<1> USE DEF setup, keyVars
<1>1. ASSUME NEW t \in Tasks, NEW cost \in Costs, Check(t, cost) PROVE KeyInv'
  <2>1. PICK now \in {0} \cup {clock + drift : drift \in IF own THEN Drifts ELSE {}} :
          now \in Instants /\ call' = [call EXCEPT ![t] = [now |-> now, cost |-> cost]]
    BY <1>1 DEF Check
  <2>2. UNCHANGED <<kind, own, clock, data>>
    BY <1>1 DEF Check
  <2>3. ~ own => now = 0
    BY <2>1
  <2>4. [now |-> now, cost |-> cost] \in [now : Instants, cost : Nat]
    BY <2>1
  <2>5. call' \in [Tasks -> [now : Instants, cost : Nat]]
    BY <2>1, <2>4 DEF KeyInv
  <2>6. ~ own => \A u \in Tasks : call'[u].now = 0
    BY <2>1, <2>3 DEF KeyInv
  <2> QED
    BY <2>2, <2>5, <2>6 DEF KeyInv, Instants
<1>2. ASSUME NEW t \in Tasks, EvalSha(t) \/ Eval(t) PROVE KeyInv'
  <2>1. CASE Run(t)
    BY <2>1, KeyOfRun
  <2>2. CASE ~ Run(t)
    BY <1>2, <2>2 DEF EvalSha, Eval, KeyInv, Instants
  <2> QED
    BY <2>1, <2>2
<1>3. ASSUME NEW t \in Tasks, Return(t) \/ Fails(t) PROVE KeyInv'
  <2>1. call' = [call EXCEPT ![t] = NoCall] /\ UNCHANGED <<kind, own, clock, data>>
    BY <1>3 DEF Return, Fails, Over
  <2>2. NoCall \in [now : Instants, cost : Nat] /\ NoCall.now = 0
    BY DEF NoCall, Instants
  <2>3. call' \in [Tasks -> [now : Instants, cost : Nat]]
    BY <2>1, <2>2 DEF KeyInv
  <2> QED
    BY <2>1, <2>2, <2>3 DEF KeyInv, Instants
<1>4. CASE Tick
  <2>1. clock' = clock + 1 /\ clock' \in Instants /\ UNCHANGED <<kind, own, call, data>>
    BY <1>4 DEF Tick, KeyInv, Instants
  <2>2. IsBucket(data, clock) => IsBucket(data, clock')
    BY <2>1 DEF IsBucket, KeyInv, Instants
  <2> QED
    BY <2>1, <2>2 DEF KeyInv, Instants
<1>5. CASE Flush \/ UNCHANGED vars
  BY <1>5 DEF Flush, vars, KeyInv, Instants
<1> QED
  BY <1>1, <1>2, <1>3, <1>4, <1>5 DEF Next

\* What the keys hold makes the advice of these two scripts sufficient.
LEMMA AdviceIsEnough ==
  ASSUME clock \in Instants,
         \/ kind = "gcra" /\ IsArrival(data)
         \/ kind = "tokenBucket" /\ IsBucket(data, clock)
  PROVE  RetryIsEnough
<1> SUFFICES ASSUME NEW cost \in Costs \cap 0 .. Limit, ~ Reply(cost).allowed
             PROVE  Later(cost, clock + Reply(cost).retryAfter)[cost].allowed
  BY DEF RetryIsEnough
<1> DEFINE d == KeyAt(clock)
           v == Reply(cost)
           i == clock + v.retryAfter
<1>1. /\ clock \in Int
      /\ cost \in Nat /\ cost <= Limit /\ cost \in 0 .. Limit + 1
      /\ d \in {data, {}}
  BY Constants DEF Instants, KeyAt
<1>2. v.data = d => \E e \in {d, {}} : Later(cost, i)[cost] = Script(kind, e, i, cost)
  BY <1>1 DEF Later
<1>3. CASE kind = "gcra" /\ IsArrival(data)
  <2>1. v = Gcra(d, clock, cost)
    BY <1>3 DEF Reply, Script
  <2>2. v.data = d
    BY <2>1, GcraDenies, GcraAllows
  <2>3. IsArrival(d)
    BY <1>1, <1>3 DEF IsArrival
  <2>4. ASSUME NEW e \in {d, {}} PROVE Gcra(e, i, cost).allowed
    BY <1>1, <2>1, <2>3, GcraRetries
  <2> QED
    BY <1>2, <1>3, <2>2, <2>4 DEF Script
<1>4. CASE kind = "tokenBucket" /\ IsBucket(data, clock)
  <2>1. v = TokenBucket(d, clock, cost)
    BY <1>4 DEF Reply, Script
  <2>2. v.data = d
    BY <2>1, BucketDenies, BucketAllows
  <2>3. IsBucket(d, clock)
    BY <1>1, <1>4 DEF IsBucket
  <2>4. ASSUME NEW e \in {d, {}} PROVE TokenBucket(e, i, cost).allowed
    BY <1>1, <2>1, <2>3, BucketRetries
  <2> QED
    BY <1>2, <1>4, <2>2, <2>4 DEF Script
<1> QED
  BY <1>3, <1>4

-----------------------------------------------------------------------------
(* Waiting for less is not enough.                                         *)

\* On the server's clock a key lives until it would be answered like a missing one.
KeepsArrival == expiry \in Int /\ \A n \in data : n <= expiry * Cells

KeepsBucket ==
  /\ expiry \in Int
  /\ \A h \in data : h.tokens >= 0 /\ Limit * RefillMs <= (expiry - h.last) * RefillTokens

KeptInv ==
  /\ KeyInv
  /\ kind = "gcra" /\ ~ own => KeepsArrival
  /\ kind = "tokenBucket" /\ ~ own => KeepsBucket

\* On the server's clock no arrival time is out of reach of the burst.
InReach == \A n \in data : n <= clock * Cells + PeriodMs * Limit

\* What makes the advice of these two scripts true.
RateKey ==
  /\ clock \in Instants
  /\ kind = "gcra" => IsArrival(data) /\ KeepsArrival /\ InReach
  /\ kind = "tokenBucket" => IsBucket(data, clock) /\ KeepsBucket

LEMMA AtLeastOne ==
  ASSUME NEW k \in Int
  PROVE  AtLeast(1, k) \in Int /\ AtLeast(1, k) >= k /\ AtLeast(1, k) > 0
<1>1. Max({1, k}) \in {1, k} /\ Max({1, k}) >= 1 /\ Max({1, k}) >= k
  BY MaxOfTwo
<1> QED
  BY <1>1 DEF AtLeast

LEMMA GcraKeeps ==
  ASSUME NEW d, IsArrival(d), NEW now \in Int, NEW cost \in Nat,
         NEW lives \in Int, \A n \in d : n <= lives * Cells
  PROVE  LET v   == Gcra(d, now, cost)
             end == IF v.px > 0 THEN now + v.px ELSE lives
         IN end \in Int /\ \A n \in v.data : n <= end * Cells
<1> DEFINE then == ArrivalTime(d, now) + PeriodMs * cost
           wait == CeilDiv(then - now * Cells, Cells)
           px   == AtLeast(1, wait)
<1>1. CASE now * Cells < AllowAt(d, now, cost)
  BY <1>1, GcraDenies
<1>2. CASE ~ (now * Cells < AllowAt(d, now, cost))
  <2>1. then \in Int /\ now * Cells \in Int
    BY ArrivalTimeIsLatest, Constants
  <2>2. wait \in Int /\ then - now * Cells <= wait * Cells
    BY <2>1, CeilDivIsEnough, Constants
  <2>3. px \in Int /\ px >= wait /\ px > 0
    BY <2>2, AtLeastOne
  <2>4. Gcra(d, now, cost).data = {then} /\ Gcra(d, now, cost).px = px
    BY <1>2, GcraAllows
  <2>5. (now + px) * Cells = now * Cells + px * Cells
    BY <2>3, Times, Constants
  <2>6. wait * Cells <= px * Cells
    BY <2>2, <2>3, Constants
  <2>7. then <= (now + px) * Cells
    BY <2>1, <2>2, <2>3, <2>5, <2>6, Constants
  <2> QED
    BY <2>3, <2>4, <2>7
<1> QED
  BY <1>1, <1>2

LEMMA BucketKeeps ==
  ASSUME NEW d, NEW now \in Int, IsBucket(d, now), NEW cost \in Nat, NEW lives \in Int,
         \A h \in d : h.tokens >= 0 /\ Limit * RefillMs <= (lives - h.last) * RefillTokens
  PROVE  LET v   == TokenBucket(d, now, cost)
             end == IF v.px > 0 THEN now + v.px ELSE lives
         IN /\ end \in Int
            /\ \A h \in v.data :
                 h.tokens >= 0 /\ Limit * RefillMs <= (end - h.last) * RefillTokens
<1> DEFINE left == Tokens(d, now) - cost * RefillMs
           wait == CeilDiv(Limit * RefillMs, RefillTokens)
           px   == AtLeast(1, wait)
<1>1. CASE ~ (left >= 0)
  BY <1>1, BucketDenies
<1>2. CASE left >= 0
  <2>1. Limit * RefillMs \in Int
    BY Constants
  <2>2. wait \in Int /\ Limit * RefillMs <= wait * RefillTokens
    BY <2>1, CeilDivIsEnough, Constants
  <2>3. px \in Int /\ px >= wait /\ px > 0
    BY <2>2, AtLeastOne
  <2>4. /\ TokenBucket(d, now, cost).data = {[tokens |-> left, last |-> now]}
        /\ TokenBucket(d, now, cost).px = px
    BY <1>2, BucketAllows
  <2>5. (now + px) - now = px
    BY <2>3
  <2>6. wait * RefillTokens <= px * RefillTokens
    BY <2>2, <2>3, Constants
  <2>7. Limit * RefillMs <= ((now + px) - now) * RefillTokens
    BY <2>1, <2>2, <2>3, <2>5, <2>6, Constants
  <2> QED
    BY <1>2, <2>3, <2>4, <2>7
<1> QED
  BY <1>1, <1>2

LEMMA KeptStep ==
  ASSUME KeptInv, [Next]_vars
  PROVE  KeptInv'
<1> USE DEF setup, keyVars
<1>1. KeyInv'
  BY KeyStep DEF KeptInv
<1>2. ASSUME NEW t \in Tasks, Run(t) PROVE KeptInv'
  <2> DEFINE d    == KeyAt(clock)
             cost == call[t].cost
             v    == Script(kind, d, Now(call[t].now), cost)
  <2>1. /\ data' = v.data
        /\ expiry' = IF v.px > 0 THEN clock + v.px ELSE expiry
        /\ UNCHANGED <<kind, own, clock>>
    BY <1>2 DEF Run
  <2>2. d \in {data, {}} /\ clock \in Int /\ cost \in Nat
    BY DEF KeyAt, KeptInv, KeyInv, Instants
  <2>3. ~ own => Now(call[t].now) = clock
    BY DEF Now, KeptInv, KeyInv
  <2>4. CASE kind = "gcra" /\ ~ own
    <3>1. v = Gcra(d, clock, cost)
      BY <2>3, <2>4 DEF Script
    <3>2. IsArrival(d) /\ expiry \in Int /\ \A n \in d : n <= expiry * Cells
      BY <2>2, <2>4 DEF KeptInv, KeyInv, IsArrival, KeepsArrival
    <3>3. expiry' \in Int /\ \A n \in data' : n <= expiry' * Cells
      BY <2>1, <2>2, <3>1, <3>2, GcraKeeps
    <3> QED
      BY <1>1, <2>1, <2>4, <3>3 DEF KeptInv, KeepsArrival
  <2>5. CASE kind = "tokenBucket" /\ ~ own
    <3>1. v = TokenBucket(d, clock, cost)
      BY <2>3, <2>5 DEF Script
    <3>2. IsBucket(d, clock)
      BY <2>2, <2>5 DEF KeptInv, KeyInv, IsBucket
    <3>3. /\ expiry \in Int
          /\ \A h \in d :
               h.tokens >= 0 /\ Limit * RefillMs <= (expiry - h.last) * RefillTokens
      BY <2>2, <2>5 DEF KeptInv, KeepsBucket
    <3>4. /\ expiry' \in Int
          /\ \A h \in data' :
               h.tokens >= 0 /\ Limit * RefillMs <= (expiry' - h.last) * RefillTokens
      BY <2>1, <2>2, <3>1, <3>2, <3>3, BucketKeeps
    <3> QED
      BY <1>1, <2>1, <2>5, <3>4 DEF KeptInv, KeepsBucket
  <2>6. CASE ~ (kind = "gcra" /\ ~ own) /\ ~ (kind = "tokenBucket" /\ ~ own)
    BY <1>1, <2>1, <2>6 DEF KeptInv
  <2> QED
    BY <2>4, <2>5, <2>6
<1>3. ASSUME NEW t \in Tasks, NEW cost \in Costs, Check(t, cost) PROVE KeptInv'
  BY <1>1, <1>3 DEF Check, KeptInv, KeepsArrival, KeepsBucket
<1>4. ASSUME NEW t \in Tasks, EvalSha(t) \/ Eval(t) \/ Return(t) \/ Fails(t) PROVE KeptInv'
  <2>1. CASE ~ Run(t)
    BY <1>1, <1>4, <2>1 DEF EvalSha, Eval, Return, Fails, Over, KeptInv, KeepsArrival,
                            KeepsBucket
  <2> QED
    BY <1>2, <2>1
<1>5. CASE Flush \/ Tick \/ UNCHANGED vars
  BY <1>1, <1>5 DEF Flush, Tick, vars, KeptInv, KeepsArrival, KeepsBucket
<1> QED
  BY <1>3, <1>4, <1>5 DEF Next

LEMMA GcraRefusesEarly ==
  ASSUME NEW d, IsArrival(d), NEW lives \in Int, \A n \in d : n <= lives * Cells,
         NEW now \in Int, NEW cost \in Nat,
         NEW i \in Int, now <= i, i <= now + Gcra(d, now, cost).retryAfter - 1
  PROVE  ~ Gcra(IF i < lives THEN d ELSE {}, i, cost).allowed
<1> DEFINE e     == IF i < lives THEN d ELSE {}
           need  == AllowAt(d, now, cost) - now * Cells
           retry == CeilDiv(need, Cells)
<1>1. PeriodMs * cost \in Int /\ PeriodMs * Limit \in Int /\ now * Cells \in Int
        /\ ArrivalTime(d, now) \in Int /\ i * Cells \in Int
  BY ArrivalTimeIsLatest, Constants
<1>2. now * Cells < AllowAt(d, now, cost)
  <2>1. CASE ~ (now * Cells < AllowAt(d, now, cost))
    <3>1. Gcra(d, now, cost).retryAfter = 0
      BY <2>1, GcraAllows
    <3> QED
      BY <3>1
  <2> QED
    BY <2>1
<1>3. Gcra(d, now, cost).retryAfter = retry
  BY <1>2, GcraDenies
<1>4. need \in Int /\ retry \in Int /\ (retry - 1) * Cells < need
  <2>1. need \in Int
    BY <1>1 DEF AllowAt
  <2> HIDE DEF need
  <2> QED
    BY <2>1, CeilDivIsEnough, CeilDivIsLeast, Constants
<1>5. i - now <= retry - 1
  BY <1>3, <1>4
<1>6. (i - now) * Cells <= (retry - 1) * Cells
  BY <1>4, <1>5, Constants
<1>7. i * Cells = now * Cells + (i - now) * Cells /\ now * Cells <= i * Cells
  BY Constants
<1>8. i * Cells < AllowAt(d, now, cost)
  BY <1>1, <1>4, <1>6, <1>7, Constants DEF AllowAt
<1>9. IsArrival(e) /\ ArrivalTime(e, i) \in Int /\ i * Cells <= ArrivalTime(e, i)
  BY <1>1, ArrivalTimeIsLatest DEF IsArrival
<1>10. i * Cells < AllowAt(e, i, cost)
  <2>1. CASE PeriodMs * cost > PeriodMs * Limit
    BY <1>1, <1>9, <2>1 DEF AllowAt
  <2>2. CASE PeriodMs * cost <= PeriodMs * Limit
    <3>1. i * Cells < ArrivalTime(d, now)
      BY <1>1, <1>8, <2>2 DEF AllowAt
    <3>2. ArrivalTime(d, now) \in d
      BY <1>1, <1>7, <3>1, ArrivalTimeIsLatest
    <3>3. i < lives
      <4>1. i * Cells < lives * Cells
        BY <1>1, <3>1, <3>2, Constants
      <4> QED
        BY <4>1, Constants
    <3>4. ArrivalTime(d, now) <= ArrivalTime(e, i)
      BY <3>2, <3>3, ArrivalTimeIsLatest
    <3> QED
      BY <1>1, <1>8, <1>9, <3>4 DEF AllowAt
  <2> QED
    BY <1>1, <2>1, <2>2
<1> QED
  BY <1>10, GcraDenies

LEMMA BucketRefusesEarly ==
  ASSUME NEW d, NEW now \in Int, IsBucket(d, now), NEW lives \in Int,
         \A h \in d : h.tokens >= 0 /\ Limit * RefillMs <= (lives - h.last) * RefillTokens,
         NEW cost \in Nat,
         NEW i \in Int, now <= i, i <= now + TokenBucket(d, now, cost).retryAfter - 1
  PROVE  ~ TokenBucket(IF i < lives THEN d ELSE {}, i, cost).allowed
<1> DEFINE e     == IF i < lives THEN d ELSE {}
           full  == Limit * RefillMs
           price == cost * RefillMs
           left  == Tokens(d, now) - price
           retry == CeilDiv(- left, RefillTokens)
<1>1. full \in Int /\ price \in Int /\ left \in Int /\ Tokens(d, now) \in Int
  BY TokensAreInt, Constants
<1>2. ~ (left >= 0)
  <2>1. CASE left >= 0
    <3>1. TokenBucket(d, now, cost).retryAfter = 0
      BY <2>1, BucketAllows
    <3> QED
      BY <3>1
  <2> QED
    BY <2>1
<1>3. TokenBucket(d, now, cost).retryAfter = retry
  BY <1>2, BucketDenies
<1>4. retry \in Int /\ (retry - 1) * RefillTokens < - left
  BY <1>1, CeilDivIsEnough, CeilDivIsLeast, Constants
<1>5. i - now <= retry - 1
  BY <1>3, <1>4
<1>6. (i - now) * RefillTokens < - left
  <2>1. (i - now) * RefillTokens <= (retry - 1) * RefillTokens
    BY <1>4, <1>5, Constants
  <2> QED
    BY <1>1, <1>4, <2>1, Constants
<1>7. Tokens(e, i) \in Int /\ Tokens(e, i) < price
  <2>1. CASE d = {}
    <3>1. Tokens(d, now) = full /\ Tokens(e, i) = full
      BY <2>1 DEF Tokens
    <3> QED
      BY <1>1, <1>2, <3>1
  <2>2. ASSUME NEW n \in Int, NEW l \in Int, l <= now, d = {[tokens |-> n, last |-> l]}
        PROVE  Tokens(e, i) \in Int /\ Tokens(e, i) < price
    <3> DEFINE then(j) == n + (j - l) * RefillTokens
    <3>1. then(i) = then(now) + (i - now) * RefillTokens /\ then(i) \in Int /\ then(now) \in Int
      BY Constants
    <3>2. Tokens(d, now) \in {full, then(now)}
      BY <2>2, TokensOfKey
    <3>3. CASE full < price
      <4>1. e = {} => Tokens(e, i) = full
        BY DEF Tokens
      <4>2. e = d => Tokens(e, i) \in {full, then(i)} /\ Tokens(e, i) <= full
        BY <2>2, TokensOfKey
      <4> QED
        BY <1>1, <3>1, <3>3, <4>1, <4>2
    <3>4. CASE price <= full
      <4>1. then(i) < price
        <5>1. Tokens(d, now) = then(now)
          BY <1>1, <1>2, <3>2, <3>4
        <5>2. (i - now) * RefillTokens \in Int
          BY Constants
        <5> HIDE DEF then
        <5> QED
          BY <1>1, <1>6, <3>1, <5>1, <5>2
      <4>2. n >= 0 /\ full <= (lives - l) * RefillTokens
        BY <2>2
      <4>3. (i - l) * RefillTokens < (lives - l) * RefillTokens
        BY <1>1, <3>1, <3>4, <4>1, <4>2, Constants
      <4>4. i < lives
        BY <4>3, Constants
      <4>5. Tokens(e, i) \in {full, then(i)} /\ Tokens(e, i) <= then(i)
        BY <2>2, <4>4, TokensOfKey
      <4> QED
        BY <1>1, <3>1, <4>1, <4>5
    <3> QED
      BY <1>1, <3>3, <3>4
  <2> QED
    BY <2>1, <2>2 DEF IsBucket
<1> QED
  BY <1>1, <1>7, BucketDenies

\* What the keys keep makes the advice of these two scripts necessary.
LEMMA AdviceIsNeeded ==
  ASSUME RateKey, kind \in {"gcra", "tokenBucket"}
  PROVE  RetryIsNeeded
<1> SUFFICES ASSUME NEW cost \in Costs,
                    NEW i \in clock .. (clock + Reply(cost).retryAfter - 1)
             PROVE  ~ Later(cost, i)[cost].allowed
  BY DEF RetryIsNeeded
<1> DEFINE d == KeyAt(clock)
           v == Reply(cost)
<1>1. /\ clock \in Int /\ cost \in Nat
      /\ i \in Int /\ clock <= i
      /\ d \in {data, {}}
  BY DEF RateKey, Instants, KeyAt
<1>2. CASE kind = "gcra"
  <2>1. v = Gcra(d, clock, cost)
    BY <1>2 DEF Reply, Script
  <2>2. IsArrival(d) /\ expiry \in Int /\ \A n \in d : n <= expiry * Cells
    BY <1>1, <1>2 DEF RateKey, IsArrival, KeepsArrival
  <2>3. clock * Cells < AllowAt(d, clock, cost)
    <3>1. CASE ~ (clock * Cells < AllowAt(d, clock, cost))
      <4>1. v.retryAfter = 0
        BY <2>1, <3>1, GcraAllows
      <4> QED
        BY <1>1, <4>1
    <3> QED
      BY <3>1
  <2>4. v.data = d /\ v.px = 0
    BY <2>1, <2>3, GcraDenies
  <2>5. ~ Gcra(IF i < expiry THEN d ELSE {}, i, cost).allowed
    BY <1>1, <2>1, <2>2, GcraRefusesEarly
  <2>6. Later(cost, i)[cost] = Script(kind, IF i < expiry THEN d ELSE {}, i, cost)
    BY <2>4 DEF Later
  <2> QED
    BY <1>2, <2>5, <2>6 DEF Script
<1>3. CASE kind = "tokenBucket"
  <2>1. v = TokenBucket(d, clock, cost)
    BY <1>3 DEF Reply, Script
  <2>2. /\ IsBucket(d, clock) /\ expiry \in Int
        /\ \A h \in d : h.tokens >= 0 /\ Limit * RefillMs <= (expiry - h.last) * RefillTokens
    BY <1>1, <1>3 DEF RateKey, IsBucket, KeepsBucket
  <2>3. ~ (Tokens(d, clock) - cost * RefillMs >= 0)
    <3>1. CASE Tokens(d, clock) - cost * RefillMs >= 0
      <4>1. v.retryAfter = 0
        BY <2>1, <3>1, BucketAllows
      <4> QED
        BY <1>1, <4>1
    <3> QED
      BY <3>1
  <2>4. v.data = d /\ v.px = 0
    BY <2>1, <2>3, BucketDenies
  <2>5. ~ TokenBucket(IF i < expiry THEN d ELSE {}, i, cost).allowed
    BY <1>1, <2>1, <2>2, BucketRefusesEarly
  <2>6. Later(cost, i)[cost] = Script(kind, IF i < expiry THEN d ELSE {}, i, cost)
    BY <2>4 DEF Later
  <2> QED
    BY <1>3, <2>5, <2>6 DEF Script
<1> QED
  BY <1>2, <1>3

-----------------------------------------------------------------------------
(* What remains can be spent, and no more.                                 *)

LEMMA UnitsThatFit ==
  ASSUME NEW room \in Nat, NEW unit \in Nat \ {0}, room <= unit * Limit
  PROVE  LET k == AtLeast(0, room \div unit)
         IN k \in 0 .. Limit /\ unit * k <= room /\ room < unit * (k + 1)
<1> DEFINE k == room \div unit
<1>1. k \in Nat /\ unit * k <= room /\ room < unit * (k + 1)
  OBVIOUS
<1>2. AtLeast(0, k) = k
  BY <1>1, AtLeastZero
<1>3. k <= Limit
  <2> HIDE DEF k
  <2>1. unit * k <= unit * Limit /\ Limit \in Nat
    BY <1>1, Constants
  <2> QED
    BY <1>1, <2>1
<1> QED
  BY <1>1, <1>2, <1>3, Constants

\* How far the arrival time may still be pushed.
Room(d, now) == PeriodMs * Limit - (ArrivalTime(d, now) - now * Cells)

LEMMA GcraAdmitsWhatFits ==
  ASSUME NEW d, IsArrival(d), NEW now \in Int, NEW cost \in Int
  PROVE  Gcra(d, now, cost).allowed <=> PeriodMs * cost <= Room(d, now)
<1>1. /\ PeriodMs * cost \in Int /\ PeriodMs * Limit \in Int /\ now * Cells \in Int
      /\ ArrivalTime(d, now) \in Int
  BY ArrivalTimeIsLatest, Constants
<1>2. now * Cells < AllowAt(d, now, cost) <=> ~ (PeriodMs * cost <= Room(d, now))
  BY <1>1 DEF AllowAt, Room
<1> QED
  BY <1>2, GcraDenies, GcraAllows

LEMMA GcraRemains ==
  ASSUME NEW d, IsArrival(d), NEW now \in Int, NEW cost \in Nat,
         \A n \in d : n <= now * Cells + PeriodMs * Limit
  PROVE  LET v == Gcra(d, now, cost)
         IN /\ v.remaining \in 0 .. Limit
            /\ IsArrival(v.data)
            /\ Gcra(v.data, now, v.remaining).allowed
            /\ ~ Gcra(v.data, now, v.remaining + 1).allowed
            /\ \A n \in v.data : n <= now * Cells + PeriodMs * Limit
<1> DEFINE v    == Gcra(d, now, cost)
           then == ArrivalTime(d, now) + PeriodMs * cost
<1>1. /\ PeriodMs * cost \in Nat /\ PeriodMs * Limit \in Nat /\ now * Cells \in Int
      /\ ArrivalTime(d, now) \in Int /\ ArrivalTime(d, now) >= now * Cells
  BY ArrivalTimeIsLatest, Constants
<1>2. /\ IsArrival(v.data)
      /\ \A n \in v.data : n <= now * Cells + PeriodMs * Limit
      /\ v.remaining = AtLeast(0, Room(v.data, now) \div PeriodMs)
      /\ Room(v.data, now) \in Nat /\ Room(v.data, now) <= PeriodMs * Limit
  <2>1. CASE now * Cells < AllowAt(d, now, cost)
    <3>1. v.data = d /\ v.remaining = AtLeast(0, Room(d, now) \div PeriodMs)
      BY <2>1, GcraDenies DEF Room
    <3>2. ArrivalTime(d, now) <= now * Cells + PeriodMs * Limit
      BY <1>1, ArrivalTimeIsLatest
    <3> QED
      BY <1>1, <3>1, <3>2 DEF Room
  <2>2. CASE ~ (now * Cells < AllowAt(d, now, cost))
    <3>1. /\ v.data = {then}
          /\ v.remaining = AtLeast(0, (PeriodMs * Limit - (then - now * Cells)) \div PeriodMs)
      BY <2>2, GcraAllows
    <3>2. then \in Int /\ then >= now * Cells /\ then <= now * Cells + PeriodMs * Limit
      BY <1>1, <2>2 DEF AllowAt
    <3>3. IsArrival(v.data)
      BY <3>1, <3>2 DEF IsArrival
    <3>4. ArrivalTime(v.data, now) = then
      <4> HIDE DEF then, v
      <4>1. /\ ArrivalTime(v.data, now) \in Int
            /\ ArrivalTime(v.data, now) = now * Cells \/ ArrivalTime(v.data, now) \in v.data
            /\ ArrivalTime(v.data, now) >= then
        BY <3>1, <3>3, ArrivalTimeIsLatest
      <4> QED
        BY <1>1, <3>1, <3>2, <4>1
    <3> HIDE DEF then, v
    <3> QED
      BY <1>1, <3>1, <3>2, <3>3, <3>4 DEF Room
  <2> QED
    BY <2>1, <2>2
<1> HIDE DEF v
<1>3. /\ v.remaining \in 0 .. Limit
      /\ PeriodMs * v.remaining <= Room(v.data, now)
      /\ Room(v.data, now) < PeriodMs * (v.remaining + 1)
  BY <1>2, UnitsThatFit, Constants
<1>4. v.remaining \in Int /\ v.remaining + 1 \in Int /\ PeriodMs * (v.remaining + 1) \in Int
        /\ Room(v.data, now) \in Int
  BY <1>2, <1>3, Constants
<1>5. Gcra(v.data, now, v.remaining).allowed /\ ~ Gcra(v.data, now, v.remaining + 1).allowed
  BY <1>2, <1>3, <1>4, GcraAdmitsWhatFits
<1> QED
  BY <1>2, <1>3, <1>5 DEF v

LEMMA BucketAdmitsWhatFits ==
  ASSUME NEW d, NEW now \in Int, IsBucket(d, now), NEW cost \in Int
  PROVE  TokenBucket(d, now, cost).allowed <=> RefillMs * cost <= Tokens(d, now)
<1>1. Tokens(d, now) \in Int /\ RefillMs * cost \in Int /\ cost * RefillMs = RefillMs * cost
  BY TokensAreInt, Constants
<1>2. Tokens(d, now) - cost * RefillMs >= 0 <=> RefillMs * cost <= Tokens(d, now)
  BY <1>1
<1> QED
  BY <1>2, BucketDenies, BucketAllows

\* A bucket holds no debt and no more than its capacity.
LEMMA TokensInBucket ==
  ASSUME NEW d, NEW now \in Int, IsBucket(d, now), \A h \in d : h.tokens >= 0
  PROVE  Tokens(d, now) \in Nat /\ Tokens(d, now) <= RefillMs * Limit
<1>1. Limit * RefillMs \in Nat /\ Limit * RefillMs = RefillMs * Limit
  BY Constants
<1>2. CASE d = {}
  BY <1>1, <1>2 DEF Tokens
<1>3. ASSUME NEW n \in Int, NEW l \in Int, l <= now, d = {[tokens |-> n, last |-> l]}
      PROVE  Tokens(d, now) \in Nat /\ Tokens(d, now) <= RefillMs * Limit
  <2>1. n >= 0
    BY <1>3
  <2>2. (now - l) * RefillTokens \in Nat
    BY <1>3, Constants
  <2>3. n + (now - l) * RefillTokens \in Nat
    BY <2>1, <2>2
  <2>4. /\ Tokens(d, now) \in {Limit * RefillMs, n + (now - l) * RefillTokens}
        /\ Tokens(d, now) <= Limit * RefillMs
    BY <1>3, TokensOfKey
  <2> QED
    BY <1>1, <2>3, <2>4
<1> QED
  BY <1>2, <1>3 DEF IsBucket

LEMMA TokensOfFresh ==
  ASSUME NEW n \in Nat, n <= Limit * RefillMs, NEW now \in Int
  PROVE  Tokens({[tokens |-> n, last |-> now]}, now) = n
<1>1. n + (now - now) * RefillTokens = n /\ Limit * RefillMs \in Int
  BY Constants
<1>2. /\ Tokens({[tokens |-> n, last |-> now]}, now)
           \in {Limit * RefillMs, n + (now - now) * RefillTokens}
      /\ Tokens({[tokens |-> n, last |-> now]}, now) <= n + (now - now) * RefillTokens
  BY TokensOfKey
<1> QED
  BY <1>1, <1>2

LEMMA BucketRemains ==
  ASSUME NEW d, NEW now \in Int, IsBucket(d, now), NEW cost \in Nat,
         \A h \in d : h.tokens >= 0
  PROVE  LET v == TokenBucket(d, now, cost)
         IN /\ v.remaining \in 0 .. Limit
            /\ TokenBucket(v.data, now, v.remaining).allowed
            /\ ~ TokenBucket(v.data, now, v.remaining + 1).allowed
<1> DEFINE v    == TokenBucket(d, now, cost)
           left == Tokens(d, now) - cost * RefillMs
<1>1. /\ Tokens(d, now) \in Nat /\ Tokens(d, now) <= RefillMs * Limit
      /\ cost * RefillMs \in Nat
      /\ Limit * RefillMs \in Nat /\ Limit * RefillMs = RefillMs * Limit
  BY TokensInBucket, Constants
<1>2. /\ IsBucket(v.data, now)
      /\ v.remaining = AtLeast(0, Tokens(v.data, now) \div RefillMs)
      /\ Tokens(v.data, now) \in Nat /\ Tokens(v.data, now) <= RefillMs * Limit
  <2>1. CASE ~ (left >= 0)
    BY <1>1, <2>1, BucketDenies
  <2>2. CASE left >= 0
    <3>1. /\ v.data = {[tokens |-> left, last |-> now]}
          /\ v.remaining = AtLeast(0, left \div RefillMs)
      BY <2>2, BucketAllows
    <3>2. left \in Nat /\ left <= Limit * RefillMs
      BY <1>1, <2>2
    <3>3. IsBucket(v.data, now)
      BY <3>1, <3>2 DEF IsBucket
    <3>4. Tokens(v.data, now) = left
      BY <3>1, <3>2, TokensOfFresh
    <3> HIDE DEF left, v
    <3> QED
      BY <1>1, <3>1, <3>2, <3>3, <3>4
  <2> QED
    BY <2>1, <2>2
<1> HIDE DEF v
<1>3. /\ v.remaining \in 0 .. Limit
      /\ RefillMs * v.remaining <= Tokens(v.data, now)
      /\ Tokens(v.data, now) < RefillMs * (v.remaining + 1)
  BY <1>2, UnitsThatFit, Constants
<1>4. v.remaining \in Int /\ v.remaining + 1 \in Int /\ RefillMs * (v.remaining + 1) \in Int
        /\ Tokens(v.data, now) \in Int
  BY <1>2, <1>3, Constants
<1>5. /\ TokenBucket(v.data, now, v.remaining).allowed
      /\ ~ TokenBucket(v.data, now, v.remaining + 1).allowed
  BY <1>2, <1>3, <1>4, BucketAdmitsWhatFits
<1> QED
  BY <1>3, <1>5 DEF v

SpendInv == KeptInv /\ (kind = "gcra" /\ ~ own => InReach)

LEMMA SpendStep ==
  ASSUME SpendInv, [Next]_vars
  PROVE  SpendInv'
<1> USE DEF setup, keyVars
<1>1. KeptInv'
  BY KeptStep DEF SpendInv
<1>2. ASSUME NEW t \in Tasks, Run(t) PROVE SpendInv'
  <2> DEFINE d == KeyAt(clock)
             v == Script(kind, d, Now(call[t].now), call[t].cost)
  <2>1. data' = v.data /\ UNCHANGED <<kind, own, clock>>
    BY <1>2 DEF Run
  <2>2. CASE kind = "gcra" /\ ~ own
    <3>1. v = Gcra(d, clock, call[t].cost)
      BY <2>2 DEF Script, Now, SpendInv, KeptInv, KeyInv
    <3>2. /\ clock \in Int /\ call[t].cost \in Nat
          /\ IsArrival(d) /\ \A n \in d : n <= clock * Cells + PeriodMs * Limit
      BY <2>2 DEF KeyAt, SpendInv, KeptInv, KeyInv, InReach, IsArrival, Instants
    <3>3. \A n \in v.data : n <= clock * Cells + PeriodMs * Limit
      BY <3>1, <3>2, GcraRemains
    <3> QED
      BY <1>1, <2>1, <3>3 DEF SpendInv, InReach
  <2> QED
    BY <1>1, <2>1, <2>2 DEF SpendInv
<1>3. CASE Tick
  <2>1. clock \in Int /\ clock' = clock + 1 /\ UNCHANGED <<kind, own, data>>
    BY <1>3 DEF Tick, SpendInv, KeptInv, KeyInv, Instants
  <2>2. clock * Cells <= clock' * Cells /\ clock * Cells \in Int /\ clock' * Cells \in Int
    BY <2>1, Constants
  <2>3. kind = "gcra" /\ ~ own /\ InReach => InReach'
    <3>1. kind = "gcra" => \A n \in data : n \in Int
      BY DEF SpendInv, KeptInv, KeyInv, IsArrival
    <3>2. PeriodMs * Limit \in Int
      BY Constants
    <3> QED
      BY <2>1, <2>2, <3>1, <3>2 DEF InReach
  <2> QED
    BY <1>1, <2>1, <2>3 DEF SpendInv
<1>4. CASE UNCHANGED <<kind, own, clock, data>>
  BY <1>1, <1>4 DEF SpendInv, InReach
<1>5. ASSUME NEW t \in Tasks, NEW cost \in Costs, Check(t, cost) PROVE SpendInv'
  BY <1>4, <1>5 DEF Check
<1>6. ASSUME NEW t \in Tasks, EvalSha(t) \/ Eval(t) \/ Return(t) \/ Fails(t) PROVE SpendInv'
  BY <1>2, <1>4, <1>6 DEF EvalSha, Eval, Return, Fails, Over
<1>7. CASE Flush \/ UNCHANGED vars
  BY <1>4, <1>7 DEF Flush, vars
<1> QED
  BY <1>3, <1>5, <1>6, <1>7 DEF Next

\* What the keys hold makes remaining exact.
LEMMA RemainingIsExact ==
  ASSUME RateKey, kind \in {"gcra", "tokenBucket"}
  PROVE  RemainingIsSpendable
<1> SUFFICES ASSUME NEW cost \in Costs
             PROVE  LET then == Later(cost, clock)
                        left == Reply(cost).remaining
                    IN then[left].allowed /\ ~ then[left + 1].allowed
  BY DEF RemainingIsSpendable
<1> DEFINE d == KeyAt(clock)
           v == Reply(cost)
<1>1. clock \in Int /\ cost \in Nat /\ d \in {data, {}}
  BY DEF RateKey, Instants, KeyAt
<1>2. ASSUME (v.data = d /\ v.px = 0) \/ (v.px \in Int /\ v.px > 0),
             NEW c \in 0 .. Limit + 1
      PROVE  Later(cost, clock)[c] = Script(kind, v.data, clock, c)
  <2>1. CASE v.px \in Int /\ v.px > 0
    BY <1>1, <2>1 DEF Later
  <2>2. CASE v.data = d /\ v.px = 0
    <3>1. (IF clock < expiry THEN v.data ELSE {}) = v.data
      BY <2>2 DEF KeyAt
    <3> QED
      BY <2>2, <3>1 DEF Later
  <2> QED
    BY <1>2, <2>1, <2>2
<1>3. CASE kind = "gcra"
  <2>1. v = Gcra(d, clock, cost)
    BY <1>3 DEF Reply, Script
  <2>2. IsArrival(d) /\ \A n \in d : n <= clock * Cells + PeriodMs * Limit
    BY <1>1, <1>3 DEF RateKey, IsArrival, InReach
  <2>3. (v.data = d /\ v.px = 0) \/ (v.px \in Int /\ v.px > 0)
    <3>1. CASE clock * Cells < AllowAt(d, clock, cost)
      <4>1. v.data = d /\ v.px = 0
        BY <2>1, <3>1, GcraDenies
      <4> QED
        BY <4>1
    <3>2. CASE ~ (clock * Cells < AllowAt(d, clock, cost))
      <4> DEFINE then == ArrivalTime(d, clock) + PeriodMs * cost
      <4>1. then - clock * Cells \in Int
        BY <1>1, <2>2, ArrivalTimeIsLatest, Constants
      <4>2. CeilDiv(then - clock * Cells, Cells) \in Int
        BY <4>1, CeilDivIsEnough, Constants
      <4>3. v.px = AtLeast(1, CeilDiv(then - clock * Cells, Cells))
        BY <2>1, <3>2, GcraAllows
      <4> QED
        BY <4>2, <4>3, AtLeastOne
    <3> QED
      BY <3>1, <3>2
  <2>4. /\ v.remaining \in 0 .. Limit
        /\ Gcra(v.data, clock, v.remaining).allowed
        /\ ~ Gcra(v.data, clock, v.remaining + 1).allowed
    BY <1>1, <2>1, <2>2, GcraRemains
  <2>5. v.remaining \in 0 .. Limit + 1 /\ v.remaining + 1 \in 0 .. Limit + 1
    BY <2>4, Constants
  <2> QED
    BY <1>2, <1>3, <2>3, <2>4, <2>5 DEF Script
<1>4. CASE kind = "tokenBucket"
  <2>1. v = TokenBucket(d, clock, cost)
    BY <1>4 DEF Reply, Script
  <2>2. IsBucket(d, clock) /\ \A h \in d : h.tokens >= 0
    BY <1>1, <1>4 DEF RateKey, IsBucket, KeepsBucket
  <2>3. (v.data = d /\ v.px = 0) \/ (v.px \in Int /\ v.px > 0)
    <3>1. CASE ~ (Tokens(d, clock) - cost * RefillMs >= 0)
      <4>1. v.data = d /\ v.px = 0
        BY <2>1, <3>1, BucketDenies
      <4> QED
        BY <4>1
    <3>2. CASE Tokens(d, clock) - cost * RefillMs >= 0
      <4>1. Limit * RefillMs \in Int
        BY Constants
      <4>2. CeilDiv(Limit * RefillMs, RefillTokens) \in Int
        BY <4>1, CeilDivIsEnough, Constants
      <4>3. v.px = AtLeast(1, CeilDiv(Limit * RefillMs, RefillTokens))
        BY <2>1, <3>2, BucketAllows
      <4> QED
        BY <4>2, <4>3, AtLeastOne
    <3> QED
      BY <3>1, <3>2
  <2>4. /\ v.remaining \in 0 .. Limit
        /\ TokenBucket(v.data, clock, v.remaining).allowed
        /\ ~ TokenBucket(v.data, clock, v.remaining + 1).allowed
    BY <1>1, <2>1, <2>2, BucketRemains
  <2>5. v.remaining \in 0 .. Limit + 1 /\ v.remaining + 1 \in 0 .. Limit + 1
    BY <2>4, Constants
  <2> QED
    BY <1>2, <1>4, <2>3, <2>4, <2>5 DEF Script
<1> QED
  BY <1>3, <1>4
=============================================================================
