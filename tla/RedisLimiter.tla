---------------------------- MODULE RedisLimiter ----------------------------
(***************************************************************************)
(* The direct Redis door: callers of RedisBackend.check (and of its asyncio *)
(* twin) share one key of one Redis (throttlekit/redis_backend.py).  A     *)
(* call sends EVALSHA; when Redis does not know the script it sends EVAL,  *)
(* which runs the script and caches it.  Scripts run atomically, Redis may *)
(* forget its script cache at any time (a restart that keeps its data),    *)
(* and any call may fail on its way there or back.                         *)
(*                                                                         *)
(* spent is a history variable: the units a script admitted, by instant,   *)
(* kept where Redis tells the time.  Redis is outside the repository.      *)
(***************************************************************************)
EXTENDS LuaScripts

CONSTANTS
  Tasks,       \* concurrent callers of check()
  Strategies,  \* the kinds of strategy an instance may be configured with
  Costs,       \* the costs callers pass
  Explicit,    \* the kinds whose callers may also pass a now of their own
  Drifts,      \* such values of now, as offsets from the server's clock
  MaxTime,     \* bound of the model: the clock stops here
  Flushes      \* whether Redis may forget its scripts

ASSUME RedisAssumption ==
  /\ Strategies \subseteq Kinds
  /\ Costs \subseteq Nat
  /\ Explicit \subseteq Kinds
  /\ Drifts \subseteq Int
  /\ MaxTime \in Nat \ {0}
  /\ Flushes \in BOOLEAN

VARIABLES
  kind,      \* the strategy's kind, fixed for a run
  own,       \* callers may pass a now of their own, fixed for a run
  clock,     \* the Redis server clock
  data,      \* what was last written to the key
  expiry,    \* when the key expires
  cached,    \* Redis knows the script by its SHA-1
  pc,        \* pc[t]: which command the call has sent, or that it has a reply
  call,      \* call[t]: the arguments of the call in progress
  answer,    \* answer[t]: the reply tuple on its way
  charge,    \* charge[t]: the units the call in progress has been charged
  spent      \* spent[i]: units admitted at instant i, if that is the server's

setup == <<kind, own>>
vars == <<setup, clock, data, expiry, cached, pc, call, answer, charge, spent>>
keyVars == <<data, expiry, spent>>

Instants == 0 .. MaxTime

NoCall == [now |-> 0, cost |-> 0]
NoAnswer == [kind |-> "none", remaining |-> 0, resetAt |-> 0, retryAfter |-> 0]

TypeOK ==
  /\ kind \in Strategies
  /\ own => kind \in Explicit
  /\ clock \in Instants
  /\ expiry \in Int
  /\ cached \in BOOLEAN
  /\ pc \in [Tasks -> {"idle", "evalsha", "eval", "replied"}]
  /\ call \in [Tasks -> [now : Instants, cost : Nat]]
  /\ answer \in [Tasks -> [kind : {"none", "allow", "deny"},
                           remaining : 0 .. Limit, resetAt : Nat, retryAfter : Nat]]
  /\ charge \in [Tasks -> Nat]
  /\ spent \in [Instants -> Nat]

Init ==
  /\ kind \in Strategies
  /\ own \in (IF kind \in Explicit THEN BOOLEAN ELSE {FALSE})
  /\ clock = 1
  /\ data = {}
  /\ expiry = 0
  /\ cached = ~ Flushes
  /\ pc = [t \in Tasks |-> "idle"]
  /\ call = [t \in Tasks |-> NoCall]
  /\ answer = [t \in Tasks |-> NoAnswer]
  /\ charge = [t \in Tasks |-> 0]
  /\ spent = [i \in Instants |-> 0]

\* The key as a script finds it at instant i of the server clock.
KeyAt(i) == IF i < expiry THEN data ELSE {}

\* The instant a script takes for now: 0 stands for the server clock.
Now(arg) == IF arg = 0 THEN clock ELSE arg

-----------------------------------------------------------------------------

\* check() is called, with no now or an explicit one.
Check(t, cost) ==
  /\ pc[t] = "idle"
  /\ pc' = [pc EXCEPT ![t] = "evalsha"]
  /\ \E now \in {0} \cup {clock + drift : drift \in IF own THEN Drifts ELSE {}} :
       /\ now \in Instants
       /\ call' = [call EXCEPT ![t] = [now |-> now, cost |-> cost]]
  /\ UNCHANGED <<setup, clock, cached, answer, charge, keyVars>>

\* Redis runs the script for a task's command and replies.
Run(t) ==
  LET now == Now(call[t].now)
      v   == Script(kind, KeyAt(clock), now, call[t].cost)
      charged == IF v.allowed THEN call[t].cost ELSE 0
  IN /\ data' = v.data
     /\ expiry' = IF v.px > 0 THEN clock + v.px ELSE expiry
     /\ pc' = [pc EXCEPT ![t] = "replied"]
     /\ answer' = [answer EXCEPT ![t] =
          [kind |-> IF v.allowed THEN "allow" ELSE "deny", remaining |-> v.remaining,
           resetAt |-> v.resetAt, retryAfter |-> v.retryAfter]]
     /\ charge' = [charge EXCEPT ![t] = @ + charged]
     /\ spent' = IF own THEN spent ELSE [spent EXCEPT ![now] = @ + charged]
     /\ UNCHANGED <<setup, clock, call>>

\* EVALSHA: the script runs if Redis knows it; else the reply is NOSCRIPT and
\* the call sends EVAL.
EvalSha(t) ==
  /\ pc[t] = "evalsha"
  /\ \/ cached /\ Run(t) /\ UNCHANGED cached
     \/ /\ ~ cached
        /\ pc' = [pc EXCEPT ![t] = "eval"]
        /\ UNCHANGED <<setup, clock, cached, call, answer, charge, keyVars>>

\* EVAL runs the script and caches it.
Eval(t) ==
  /\ pc[t] = "eval"
  /\ Run(t)
  /\ cached' = TRUE

\* The call is over, and nothing of it is left.
Over(t) ==
  /\ pc' = [pc EXCEPT ![t] = "idle"]
  /\ call' = [call EXCEPT ![t] = NoCall]
  /\ answer' = [answer EXCEPT ![t] = NoAnswer]
  /\ charge' = [charge EXCEPT ![t] = 0]
  /\ UNCHANGED <<setup, clock, cached, keyVars>>

\* The reply arrives and the call returns it.
Return(t) == pc[t] = "replied" /\ Over(t)

\* Fault: EVAL follows any error of EVALSHA, not only NOSCRIPT.
FailsOver(t) ==
  /\ pc[t] \in {"evalsha", "replied"}
  /\ pc' = [pc EXCEPT ![t] = "eval"]
  /\ UNCHANGED <<setup, clock, cached, call, answer, charge, keyVars>>

\* A command or its reply is lost: the client raises, and so does the call.
Fails(t) == pc[t] # "idle" /\ Over(t)

\* Redis restarts with its data and without its scripts, or SCRIPT FLUSH.
Flush ==
  /\ Flushes
  /\ cached
  /\ cached' = FALSE
  /\ UNCHANGED <<setup, clock, pc, call, answer, charge, keyVars>>

Tick ==
  /\ clock < MaxTime
  /\ clock' = clock + 1
  /\ UNCHANGED <<setup, cached, pc, call, answer, charge, keyVars>>

Next ==
  \/ \E t \in Tasks :
       \/ \E cost \in Costs : Check(t, cost)
       \/ EvalSha(t) \/ Eval(t) \/ Return(t) \/ Fails(t)
  \/ Flush
  \/ Tick

Spec == Init /\ [][Next]_vars

-----------------------------------------------------------------------------
(* Properties of the calls.                                                *)

\* A call is charged at most once, and as its answer says: the EVAL that follows
\* NOSCRIPT never repeats a script that ran, whatever was flushed or lost.
ChargedAsAnswered ==
  \A t \in Tasks :
    charge[t] = IF answer[t].kind = "allow" THEN call[t].cost ELSE 0

-----------------------------------------------------------------------------
(* Properties of the scripts, on every reachable key.                      *)

SpentIn(from, to) == SumFunctionOnSet(spent, from .. to)

\* What each strategy promises: no window, trailing window, or span of time
\* admits more than its ceiling, where the now of all callers is the server's.
Ceiling ==
  ~ own =>
    CASE kind = "fixedWindow" ->
           \A k \in 0 .. (MaxTime \div WindowMs) :
             SpentIn(k * WindowMs, Min({MaxTime, (k + 1) * WindowMs - 1})) <= Limit
      [] kind = "gcra" ->
           \A i \in Instants : \A j \in i .. MaxTime :
             PeriodMs * SpentIn(i, j) <= PeriodMs * Limit + Cells * (j - i)
      [] kind = "tokenBucket" ->
           \A i \in Instants : \A j \in i .. MaxTime :
             RefillMs * SpentIn(i, j) <= RefillMs * Limit + RefillTokens * (j - i)
      [] kind = "slidingWindow" ->
           \A c \in 0 .. (MaxTime \div BucketMs) :
             SpentIn(AtLeast(0, c - Buckets + 1) * BucketMs,
                     Min({MaxTime, (c + 1) * BucketMs - 1})) <= Limit
      [] kind = "slidingWindowLog" ->
           \A i \in Instants : SpentIn(AtLeast(0, i - WindowMs + 1), i) <= Limit

\* What a script would answer now, and what at a later instant if nothing ran
\* in between.
Reply(cost) == Script(kind, KeyAt(clock), clock, cost)

Later(cost, i) ==
  LET v == Reply(cost)
      expires == IF v.px > 0 THEN clock + v.px ELSE expiry
  IN [c \in Costs \cup 0 .. Limit + 1 |-> Script(kind, IF i < expires THEN v.data ELSE {}, i, c)]

\* Decision.remaining is "whole units remaining before the next rejection": so
\* many can be spent at the same instant, and not one more.
RemainingIsSpendable ==
  \A cost \in Costs :
    LET then == Later(cost, clock)
        left == Reply(cost).remaining
    IN then[left].allowed /\ ~ then[left + 1].allowed

\* A retry before retry_after_ms is over is denied again, if nothing ran in
\* between: the advice never makes a caller wait in vain.
RetryIsNeeded ==
  \A cost \in Costs :
    \A i \in clock .. (clock + Reply(cost).retryAfter - 1) : ~ Later(cost, i)[cost].allowed

\* A retry after retry_after_ms is admitted, if the cost can be at all and
\* nothing ran in between.  slidingWindow only estimates, and advises the next
\* bucket.
RetryIsEnough ==
  \A cost \in Costs \cap 0 .. Limit :
    kind # "slidingWindow" => Later(cost, clock + Reply(cost).retryAfter)[cost].allowed
                                \/ Reply(cost).allowed

\* Decision.reset_at is when "the limiter is fully replenished": the whole
\* limit is available then, if nothing ran in between.  slidingWindowLog alone
\* answers with the instant its oldest unit comes back.
ResetIsFull ==
  kind # "slidingWindowLog" =>
    \A cost \in Costs : Later(cost, Reply(cost).resetAt)[Limit].allowed

\* The time to live forgets nothing: at its expiry, and ever after, the key
\* that was kept would be answered like a missing one.
ExpiryForgetsNothing ==
  clock >= expiry =>
    \A cost \in Costs :
      LET kept == Script(kind, data, clock, cost)
          gone == Script(kind, {}, clock, cost)
      IN kept.allowed = gone.allowed /\ kept.remaining = gone.remaining
=============================================================================
