----------------------------- MODULE FleetProofs -----------------------------
(***************************************************************************)
(* Theorems about FleetLease and FleetBudget, for every value of their     *)
(* constants.                                                              *)
(***************************************************************************)
EXTENDS FleetBudget, SumProofs

USE SpenderAssumption, FleetAssumption, FiniteFleet

-----------------------------------------------------------------------------
(* Types, and what a call tells its caller.                                *)

\* The current window is the one the clock is in.
ClockInWindow == clock < boundary /\ boundary <= clock + WindowMs

\* Credits come from a grant, so they have a window.
CreditsHaveWindow ==
  \A l \in Limiters :
    spender[l] # NoSpender /\ spender[l].credits > 0 => spender[l].expiresAt \in Windows

\* A reply carries a grant of some window.
RepliesHaveWindow ==
  \A t \in Tasks : pc[t] = "replied" => lease[t].expiresAt \in Windows

\* A call starts with its rounds unused.
IdleHasNoRounds == \A t \in Tasks : pc[t] = "idle" => rounds[t] = 0

\* TypeOK, made inductive.
TypeInv ==
  TypeOK /\ ClockInWindow /\ CreditsHaveWindow /\ RepliesHaveWindow /\ IdleHasNoRounds

-----------------------------------------------------------------------------
(* Lemmas about the spender.                                               *)

\* spend() leaves a spender behind, in the window it was in.
LEMMA AfterSpendType ==
  ASSUME NEW s \in Spender, NEW now \in Int, NEW c \in Int, ValidCost(c)
  PROVE  /\ AfterSpend(s, now, c) \in Spender
         /\ AfterSpend(s, now, c).expiresAt = s.expiresAt
         /\ AfterSpend(s, now, c).credits <= s.credits
BY DEF AfterSpend, Serves, OnHand, ValidCost, Spender

\* Whoever is served had credits, of a window not over.
LEMMA ServesCurrent ==
  ASSUME NEW s \in Spender, NEW now \in Int, NEW c \in Int,
         ValidCost(c), Serves(s, now, c)
  PROVE  /\ s.credits >= c
         /\ s.credits > 0
         /\ ~ Rolled(s, now)
         /\ AfterSpend(s, now, c) = [s EXCEPT !.credits = s.credits - c]
BY DEF AfterSpend, Serves, OnHand, ValidCost, Spender

\* A grant keeps the credits on hand and puts them in its window.
LEMMA ApplyLeaseType ==
  ASSUME NEW s \in Spender, NEW g \in Grant
  PROVE  /\ ApplyLease(s, g) \in Spender
         /\ ApplyLease(s, g).credits = s.credits + g.capacity
         /\ ApplyLease(s, g).expiresAt = g.expiresAt
BY DEF ApplyLease, Spender, Grant

LEMMA FreshType == Fresh \in Spender /\ Fresh.credits = 0
BY DEF Fresh, Spender

-----------------------------------------------------------------------------
(* Type correctness.                                                       *)

\* The task-local state and the spenders after a pass of the loop's head.
LEMMA TrySpendType ==
  ASSUME TypeInv, NEW t \in Tasks, NEW s \in Spender,
         s.credits > 0 => s.expiresAt \in Windows,
         NEW now \in Int, NEW c \in Int, rounds[t] < MaxRounds,
         TrySpend(t, s, now, c)
  PROVE  /\ spender' \in [Limiters -> Spender \cup {NoSpender}]
         /\ pc' \in [Tasks -> {"idle", "sent", "replied"}]
         /\ rounds' \in [Tasks -> 0 .. MaxRounds]
         /\ lease' \in [Tasks -> Grant]
         /\ answer' \in [Tasks -> Answers]
         /\ served' \in [Limiters -> [Windows -> Nat]]
         /\ CreditsHaveWindow'
         /\ RepliesHaveWindow'
         /\ IdleHasNoRounds'
<1>. DEFINE l == LimiterOf[t]
<1>. USE DEF TypeInv, TypeOK
<1>1. l \in Limiters
  OBVIOUS
<1>2. NoLease \in Grant
  BY DEF NoLease, Grant
<1>3. Windows \subseteq Int
  BY DEF Windows
<1>4. CASE Reject(t, s, c)
  BY <1>1, <1>2, <1>4 DEF Reject, Return, Answers, CreditsHaveWindow, RepliesHaveWindow,
                       IdleHasNoRounds
<1>5. CASE Serve(t, s, now, c)
  <2>1. s.credits > 0 /\ s.expiresAt \in Windows
    BY <1>5, ServesCurrent DEF Serve
  <2>2. /\ AfterSpend(s, now, c) \in Spender
        /\ AfterSpend(s, now, c).expiresAt = s.expiresAt
    BY <1>5, AfterSpendType DEF Serve
  <2>3. /\ spender' \in [Limiters -> Spender \cup {NoSpender}]
        /\ CreditsHaveWindow'
    BY <1>1, <1>5, <2>1, <2>2 DEF Serve, CreditsHaveWindow
  <2>4. served' \in [Limiters -> [Windows -> Nat]]
    BY <1>1, <1>5, <2>1 DEF Serve, ValidCost
  <2>5. /\ pc' \in [Tasks -> {"idle", "sent", "replied"}]
        /\ rounds' \in [Tasks -> 0 .. MaxRounds]
        /\ lease' \in [Tasks -> Grant]
        /\ RepliesHaveWindow'
        /\ IdleHasNoRounds'
    BY <1>2, <1>5 DEF Serve, Return, RepliesHaveWindow, IdleHasNoRounds
  <2>6. [kind |-> "allow", resetAt |-> s.expiresAt] \in Answers
    BY <1>3, <2>1 DEF Answers
  <2>7. answer' \in [Tasks -> Answers]
    BY <1>5, <2>6 DEF Serve, Return
  <2>. QED
    BY <2>3, <2>4, <2>5, <2>7
<1>6. CASE Refresh(t, s, now, c)
  <2>1. /\ AfterSpend(s, now, c) \in Spender
        /\ AfterSpend(s, now, c).expiresAt = s.expiresAt
        /\ AfterSpend(s, now, c).credits <= s.credits
    BY <1>6, AfterSpendType DEF Refresh
  <2>2. AfterSpend(s, now, c).credits > 0 => s.expiresAt \in Windows
    BY <2>1 DEF Spender
  <2>3. /\ spender' \in [Limiters -> Spender \cup {NoSpender}]
        /\ CreditsHaveWindow'
    BY <1>1, <1>6, <2>1, <2>2 DEF Refresh, CreditsHaveWindow
  <2>4. /\ pc' \in [Tasks -> {"idle", "sent", "replied"}]
        /\ rounds' \in [Tasks -> 0 .. MaxRounds]
        /\ lease' \in [Tasks -> Grant]
        /\ answer' \in [Tasks -> Answers]
        /\ RepliesHaveWindow'
        /\ IdleHasNoRounds'
        /\ served' = served
    BY <1>2, <1>6 DEF Refresh, Ask, Nothing, Answers, RepliesHaveWindow, IdleHasNoRounds
  <2>. QED
    BY <2>3, <2>4
<1>. QED
  BY <1>4, <1>5, <1>6 DEF TrySpend

\* The spender a task resumes with is a LeaseSpender with a window for its credits.
LEMMA SpenderOnReplyType ==
  ASSUME TypeInv, NEW l \in Limiters
  PROVE  /\ SpenderOnReply(l) \in Spender
         /\ SpenderOnReply(l).credits = Credits(l)
         /\ SpenderOnReply(l).credits > 0 =>
              spender[l] # NoSpender /\ SpenderOnReply(l).expiresAt \in Windows
BY FreshType DEF SpenderOnReply, TypeInv, TypeOK, CreditsHaveWindow, Credits

\* The server grants a natural number of units of the window the clock is in,
\* and not more than are left of it.
LEMMA ServerReserveGrant ==
  ASSUME TypeInv, NEW t \in Tasks, ServerReserve(t)
  PROVE  \E n \in Nat :
           /\ boundary \in Windows
           /\ granted[boundary] + n \in 0 .. Limit
           /\ n = 0 => granted[boundary] = Limit
           /\ lease' = [lease EXCEPT ![t] = [capacity |-> n, expiresAt |-> boundary]]
           /\ granted' = [granted EXCEPT ![boundary] = @ + n]
           /\ allotted' = [allotted EXCEPT ![LimiterOf[t]][boundary] = @ + n]
<1>. DEFINE n == Smaller(Larger(cost[t], Batch), Limit - granted[boundary])
<1>1. /\ cost[t] \in Int
      /\ boundary \in Windows
      /\ granted[boundary] \in 0 .. Limit
  BY DEF TypeInv, TypeOK
<1>2. /\ n \in Nat
      /\ granted[boundary] + n \in 0 .. Limit
      /\ n = 0 => granted[boundary] = Limit
  BY <1>1 DEF Smaller, Larger
<1>. QED
  BY <1>1, <1>2 DEF ServerReserve

\* Types, in the initial state and after every step.
LEMMA TypeInvInit == Init => TypeInv
BY DEF Init, TypeInv, TypeOK, ClockInWindow, CreditsHaveWindow, RepliesHaveWindow,
       IdleHasNoRounds, NoLease, Nothing, Answers, Grant, Windows, Spender

LEMMA TypeInvStep == TypeInv /\ [Next]_vars => TypeInv'
<1>. SUFFICES ASSUME TypeInv, [Next]_vars
              PROVE  TypeInv'
  OBVIOUS
<1>. USE DEF TypeInv
<1>0. /\ NoLease \in Grant
      /\ Nothing \in Answers
      /\ Windows \subseteq Int
  BY DEF NoLease, Nothing, Answers, Grant, Windows
<1>1. ASSUME NEW t \in Tasks, NEW c \in Costs, NEW drift \in Drifts, Call(t, c, drift)
      PROVE  TypeInv'
  <2>. DEFINE s == spender[LimiterOf[t]]
              now == clock + drift
  <2>1. /\ cost' \in [Tasks -> Int]
        /\ ts' \in [Tasks -> Int]
        /\ UNCHANGED <<clock, boundary, granted, allotted>>
        /\ now \in Int
        /\ c \in Int
        /\ LimiterOf[t] \in Limiters
    BY <1>1 DEF Call, TypeOK, serverVars
  <2>2. rounds[t] < MaxRounds /\ rounds[t] + 1 \in 0 .. MaxRounds
    BY <1>1 DEF Call, TypeOK, IdleHasNoRounds
  <2>3. CASE s = NoSpender /\ Ask(t) /\ UNCHANGED spender
    BY <1>0, <2>1, <2>2, <2>3
       DEF Ask, TypeOK, ClockInWindow, CreditsHaveWindow, RepliesHaveWindow, IdleHasNoRounds
  <2>4. CASE s # NoSpender /\ TrySpend(t, s, now, c)
    <3>1. s \in Spender /\ (s.credits > 0 => s.expiresAt \in Windows)
      BY <2>1, <2>4 DEF TypeOK, CreditsHaveWindow
    <3>. HIDE DEF s, now, TypeInv
    <3>2. /\ spender' \in [Limiters -> Spender \cup {NoSpender}]
          /\ pc' \in [Tasks -> {"idle", "sent", "replied"}]
          /\ rounds' \in [Tasks -> 0 .. MaxRounds]
          /\ lease' \in [Tasks -> Grant]
          /\ answer' \in [Tasks -> Answers]
          /\ served' \in [Limiters -> [Windows -> Nat]]
          /\ CreditsHaveWindow'
          /\ RepliesHaveWindow'
          /\ IdleHasNoRounds'
      BY <2>1, <2>2, <2>4, <3>1, TrySpendType
    <3>. QED
      BY <2>1, <3>2 DEF TypeInv, TypeOK, ClockInWindow
  <2>. QED
    BY <1>1, <2>3, <2>4 DEF Call
<1>2. ASSUME NEW t \in Tasks, ServerReserve(t)
      PROVE  TypeInv'
  <2>1. PICK n \in Nat :
           /\ boundary \in Windows
           /\ granted[boundary] + n \in 0 .. Limit
           /\ lease' = [lease EXCEPT ![t] = [capacity |-> n, expiresAt |-> boundary]]
           /\ granted' = [granted EXCEPT ![boundary] = @ + n]
           /\ allotted' = [allotted EXCEPT ![LimiterOf[t]][boundary] = @ + n]
    BY <1>2, ServerReserveGrant
  <2>2. [capacity |-> n, expiresAt |-> boundary] \in Grant
    BY <1>0, <2>1 DEF Grant
  <2>3. LimiterOf[t] \in Limiters
    OBVIOUS
  <2>4. /\ granted' \in [Windows -> 0 .. Limit]
        /\ lease' \in [Tasks -> Grant]
        /\ allotted' \in [Limiters -> [Windows -> Nat]]
    BY <2>1, <2>2, <2>3 DEF TypeOK
  <2>5. RepliesHaveWindow'
    BY <1>2, <2>1 DEF ServerReserve, RepliesHaveWindow, TypeOK
  <2>. QED
    BY <1>2, <2>4, <2>5
       DEF ServerReserve, TypeOK, ClockInWindow, CreditsHaveWindow, IdleHasNoRounds
<1>3. ASSUME NEW t \in Tasks, Denied(t)
      PROVE  TypeInv'
  <2>1. LimiterOf[t] \in Limiters
    OBVIOUS
  <2>2. /\ SpenderOnReply(LimiterOf[t]) \in Spender
        /\ SpenderOnReply(LimiterOf[t]).credits > 0 =>
              SpenderOnReply(LimiterOf[t]).expiresAt \in Windows
    BY <2>1, SpenderOnReplyType
  <2>3. spender' \in [Limiters -> Spender \cup {NoSpender}] /\ CreditsHaveWindow'
    BY <1>3, <2>1, <2>2 DEF Denied, TypeOK, CreditsHaveWindow
  <2>4. [kind |-> "deny", resetAt |-> lease[t].expiresAt] \in Answers
    BY <1>0, <1>3 DEF Denied, RepliesHaveWindow, Answers
  <2>. QED
    BY <1>0, <1>3, <2>3, <2>4
       DEF Denied, Return, serverVars, callVars, TypeOK, ClockInWindow, RepliesHaveWindow,
           IdleHasNoRounds
<1>4. ASSUME NEW t \in Tasks, Granted(t)
      PROVE  TypeInv'
  <2>. DEFINE l == LimiterOf[t]
              s == ApplyLease(SpenderOnReply(l), lease[t])
  <2>1. /\ l \in Limiters
        /\ lease[t] \in Grant
        /\ lease[t].expiresAt \in Windows
        /\ ts[t] \in Int
        /\ cost[t] \in Int
        /\ UNCHANGED <<clock, boundary, granted, allotted, cost, ts>>
    BY <1>4 DEF Granted, TypeOK, RepliesHaveWindow, serverVars, callVars
  <2>2. SpenderOnReply(l) \in Spender
    BY <2>1, SpenderOnReplyType
  <2>3. s \in Spender /\ s.expiresAt \in Windows
    BY <2>1, <2>2, ApplyLeaseType
  <2>. HIDE DEF s, TypeInv
  <2>4. CASE rounds[t] < MaxRounds /\ TrySpend(t, s, ts[t], cost[t])
    <3>1. /\ spender' \in [Limiters -> Spender \cup {NoSpender}]
          /\ pc' \in [Tasks -> {"idle", "sent", "replied"}]
          /\ rounds' \in [Tasks -> 0 .. MaxRounds]
          /\ lease' \in [Tasks -> Grant]
          /\ answer' \in [Tasks -> Answers]
          /\ served' \in [Limiters -> [Windows -> Nat]]
          /\ CreditsHaveWindow'
          /\ RepliesHaveWindow'
          /\ IdleHasNoRounds'
      BY <2>1, <2>3, <2>4, TrySpendType
    <3>. QED
      BY <2>1, <3>1 DEF TypeInv, TypeOK, ClockInWindow
  <2>5. CASE /\ spender' = [spender EXCEPT ![l] = s]
             /\ Return(t, "exhausted", 0)
             /\ UNCHANGED served
    <3>1. [kind |-> "exhausted", resetAt |-> 0] \in Answers
      BY DEF Answers
    <3>2. spender' \in [Limiters -> Spender \cup {NoSpender}] /\ CreditsHaveWindow'
      BY <2>1, <2>3, <2>5 DEF TypeInv, TypeOK, CreditsHaveWindow
    <3>. QED
      BY <1>0, <2>1, <2>5, <3>1, <3>2
         DEF Return, TypeInv, TypeOK, ClockInWindow, RepliesHaveWindow, IdleHasNoRounds
  <2>. QED
    BY <1>4, <2>4, <2>5 DEF Granted, s
<1>5. ASSUME NEW t \in Tasks, RpcFails(t)
      PROVE  TypeInv'
  <2>1. [kind |-> "unavailable", resetAt |-> 0] \in Answers
    BY DEF Answers
  <2>. QED
    BY <1>0, <1>5, <2>1
       DEF RpcFails, Return, serverVars, callVars, TypeOK, ClockInWindow,
           CreditsHaveWindow, RepliesHaveWindow, IdleHasNoRounds
<1>6. ASSUME NEW l \in Limiters, Crash(l)
      PROVE  TypeInv'
  BY <1>0, <1>6
     DEF Crash, serverVars, TypeOK, ClockInWindow, CreditsHaveWindow, RepliesHaveWindow,
         IdleHasNoRounds
<1>7. CASE Tick
  BY <1>7 DEF Tick, TypeOK, ClockInWindow, CreditsHaveWindow, RepliesHaveWindow,
              IdleHasNoRounds, Windows
<1>8. CASE UNCHANGED vars
  BY <1>8 DEF vars, TypeOK, ClockInWindow, CreditsHaveWindow, RepliesHaveWindow,
              IdleHasNoRounds
<1>. QED
  BY <1>1, <1>2, <1>3, <1>4, <1>5, <1>6, <1>7, <1>8 DEF Next, Check, Reply

\* Every reachable state is well typed: in particular no limiter's credits go
\* below zero and the server never leases more than the limit of a window.
THEOREM TypeCorrect == Spec => []TypeOK
<1>1. TypeInv => TypeOK
  BY DEF TypeInv
<1>. QED
  BY <1>1, TypeInvInit, TypeInvStep, PTL DEF Spec

LEMMA TypeInvAlways == Spec => []TypeInv
BY TypeInvInit, TypeInvStep, PTL DEF Spec

-----------------------------------------------------------------------------
(* Allows are current.                                                     *)

\* What a pass of the loop's head answers.
LEMMA TrySpendAnswer ==
  ASSUME TypeInv, NEW t \in Tasks, NEW s \in Spender,
         s.credits > 0 => s.expiresAt \in Windows,
         NEW now \in Int, NEW c \in Int, TrySpend(t, s, now, c)
  PROVE  \E a \in {"nothing", "allow", "invalid"}, e \in Int :
           /\ answer' = [answer EXCEPT ![t] = [kind |-> a, resetAt |-> e]]
           /\ WindowCoupled /\ a = "allow" => now < e
<1>1. CASE Reject(t, s, c)
  <2>1. answer' = [answer EXCEPT ![t] = [kind |-> "invalid", resetAt |-> 0]]
    BY <1>1 DEF Reject, Return
  <2>. QED
    BY <2>1, 0 \in Int, "invalid" # "allow", Zenon
<1>2. CASE Serve(t, s, now, c)
  <2>1. s.credits > 0 /\ ~ Rolled(s, now)
    BY <1>2, ServesCurrent DEF Serve
  <2>2. s.expiresAt \in Int
    BY <2>1 DEF Windows
  <2>3. WindowCoupled => now < s.expiresAt
    BY <2>1, <2>2 DEF Rolled
  <2>. QED
    BY <1>2, <2>2, <2>3 DEF Serve, Return
<1>3. CASE Refresh(t, s, now, c)
  <2>1. answer' = [answer EXCEPT ![t] = [kind |-> "nothing", resetAt |-> 0]]
    BY <1>3 DEF Refresh, Ask, Nothing
  <2>. QED
    BY <2>1, 0 \in Int, "nothing" # "allow", Zenon
<1>. QED
  BY <1>1, <1>2, <1>3 DEF TrySpend

\* No local allow is stamped with a window that was over at the call's clock
\* reading: for any number of limiters and overlapping calls, any costs, any
\* clock drift, and any failures.
THEOREM AllowsAreCurrent == Spec => []AllowIsCurrent
<1>1. Init => AllowIsCurrent
  BY DEF Init, AllowIsCurrent, Nothing
<1>2. TypeInv /\ AllowIsCurrent /\ [Next]_vars => AllowIsCurrent'
  <2>. SUFFICES ASSUME TypeInv, AllowIsCurrent, [Next]_vars, WindowCoupled,
                       NEW u \in Tasks, answer'[u].kind = "allow"
                PROVE  ts'[u] < answer'[u].resetAt
    BY DEF AllowIsCurrent
  <2>0. /\ answer \in [Tasks -> Answers]
        /\ ts \in [Tasks -> Int]
        /\ answer[u].kind = "allow" => ts[u] < answer[u].resetAt
    BY DEF TypeInv, TypeOK, AllowIsCurrent
  <2>1. ASSUME NEW t \in Tasks, NEW c \in Costs, NEW drift \in Drifts, Call(t, c, drift)
        PROVE  ts'[u] < answer'[u].resetAt
    <3>. DEFINE s == spender[LimiterOf[t]]
                now == clock + drift
    <3>1. ts' = [ts EXCEPT ![t] = now] /\ now \in Int /\ c \in Int
      BY <2>1 DEF Call, TypeInv, TypeOK
    <3>2. CASE Ask(t)
      BY <2>0, <3>1, <3>2 DEF Ask, Nothing
    <3>3. CASE s # NoSpender /\ TrySpend(t, s, now, c)
      <4>1. s \in Spender /\ (s.credits > 0 => s.expiresAt \in Windows)
        BY <3>3 DEF TypeInv, TypeOK, CreditsHaveWindow
      <4>. HIDE DEF s, now
      <4>2. PICK a \in {"nothing", "allow", "invalid"}, e \in Int :
              /\ answer' = [answer EXCEPT ![t] = [kind |-> a, resetAt |-> e]]
              /\ WindowCoupled /\ a = "allow" => now < e
        BY <3>1, <3>3, <4>1, TrySpendAnswer
      <4>. QED
        BY <2>0, <3>1, <4>2
    <3>. QED
      BY <2>1, <3>2, <3>3 DEF Call
  <2>2. ASSUME NEW t \in Tasks, Granted(t)
        PROVE  ts'[u] < answer'[u].resetAt
    <3>. DEFINE s == ApplyLease(SpenderOnReply(LimiterOf[t]), lease[t])
    <3>1. /\ LimiterOf[t] \in Limiters
          /\ lease[t] \in Grant
          /\ lease[t].expiresAt \in Windows
          /\ ts[t] \in Int /\ cost[t] \in Int
          /\ ts' = ts
      BY <2>2 DEF Granted, TypeInv, TypeOK, RepliesHaveWindow, callVars
    <3>2. s \in Spender /\ s.expiresAt \in Windows
      BY <3>1, SpenderOnReplyType, ApplyLeaseType
    <3>. HIDE DEF s
    <3>3. CASE TrySpend(t, s, ts[t], cost[t])
      <4>1. PICK a \in {"nothing", "allow", "invalid"}, e \in Int :
              /\ answer' = [answer EXCEPT ![t] = [kind |-> a, resetAt |-> e]]
              /\ WindowCoupled /\ a = "allow" => ts[t] < e
        BY <3>1, <3>2, <3>3, TrySpendAnswer
      <4>. QED
        BY <2>0, <3>1, <4>1
    <3>4. CASE Return(t, "exhausted", 0)
      BY <2>0, <3>1, <3>4 DEF Return
    <3>. QED
      BY <2>2, <3>3, <3>4 DEF Granted, s
  <2>3. ASSUME NEW t \in Tasks, ServerReserve(t) \/ Denied(t) \/ RpcFails(t)
        PROVE  ts'[u] < answer'[u].resetAt
    BY <2>0, <2>3 DEF ServerReserve, Denied, RpcFails, Return, callVars
  <2>4. ASSUME NEW l \in Limiters, Crash(l)
        PROVE  ts'[u] < answer'[u].resetAt
    BY <2>0, <2>4 DEF Crash, Nothing
  <2>5. CASE Tick \/ UNCHANGED vars
    BY <2>0, <2>5 DEF Tick, vars
  <2>. QED
    BY <2>1, <2>2, <2>3, <2>4, <2>5 DEF Next, Check, Reply
<1>. QED
  BY <1>1, <1>2, TypeInvAlways, PTL DEF Spec

-----------------------------------------------------------------------------
(* Denials are the server's.                                               *)

\* A refusal on its way to a task speaks of a window that is leased out.
RefusalsAreServers ==
  \A t \in Tasks :
    pc[t] = "replied" /\ lease[t].capacity = 0 => granted[lease[t].expiresAt] = Limit

\* A denial names a window.
DenialsHaveWindow ==
  \A t \in Tasks : answer[t].kind = "deny" => answer[t].resetAt \in Windows

DenialInv == RefusalsAreServers /\ DenialsHaveWindow /\ DenialIsServers

\* A step that grants nothing and denies no call keeps the invariant.
LEMMA NoDenialStep ==
  ASSUME TypeInv, DenialInv, granted' = granted,
         \A t \in Tasks : pc'[t] = "replied" => pc[t] = "replied" /\ lease'[t] = lease[t],
         \A t \in Tasks : answer'[t].kind = "deny" => answer'[t] = answer[t]
  PROVE  DenialInv'
BY DEF DenialInv, RefusalsAreServers, DenialsHaveWindow, DenialIsServers

\* The client never invents a denial: for any limiters, overlapping calls,
\* costs, clocks and failures, a denied call was denied by a server that had
\* leased out its window.
THEOREM DenialsAreServers == Spec => []DenialIsServers
<1>1. Init => DenialInv
  BY DEF Init, DenialInv, RefusalsAreServers, DenialsHaveWindow, DenialIsServers, Nothing
<1>2. TypeInv /\ DenialInv /\ [Next]_vars => DenialInv'
  <2>. SUFFICES ASSUME TypeInv, DenialInv, [Next]_vars
                PROVE  DenialInv'
    OBVIOUS
  <2>0. /\ answer \in [Tasks -> Answers]
        /\ pc \in [Tasks -> {"idle", "sent", "replied"}]
        /\ lease \in [Tasks -> Grant]
        /\ granted \in [Windows -> 0 .. Limit]
    BY DEF TypeInv, TypeOK
  <2>1. ASSUME NEW t \in Tasks, NEW c \in Costs, NEW drift \in Drifts, Call(t, c, drift)
        PROVE  DenialInv'
    <3>1. granted' = granted
      BY <2>1 DEF Call, serverVars
    <3>2. Ask(t) \/ (\E e \in {"allow", "invalid"} : \E w : Return(t, e, w))
      BY <2>1 DEF Call, TrySpend, Reject, Serve, Refresh
    <3>. QED
      BY <2>0, <3>1, <3>2, NoDenialStep DEF Ask, Return, Nothing
  <2>2. ASSUME NEW t \in Tasks, Granted(t)
        PROVE  DenialInv'
    <3>1. granted' = granted
      BY <2>2 DEF Granted, serverVars
    <3>2. Ask(t) \/ (\E e \in {"allow", "invalid", "exhausted"} : \E w : Return(t, e, w))
      BY <2>2 DEF Granted, TrySpend, Reject, Serve, Refresh
    <3>. QED
      BY <2>0, <3>1, <3>2, NoDenialStep DEF Ask, Return, Nothing
  <2>3. ASSUME NEW t \in Tasks, ServerReserve(t)
        PROVE  DenialInv'
    <3>1. PICK n \in Nat :
            /\ boundary \in Windows
            /\ granted[boundary] + n \in 0 .. Limit
            /\ n = 0 => granted[boundary] = Limit
            /\ lease' = [lease EXCEPT ![t] = [capacity |-> n, expiresAt |-> boundary]]
            /\ granted' = [granted EXCEPT ![boundary] = @ + n]
      BY <2>3, ServerReserveGrant
    <3>2. \A w \in Windows : granted[w] = Limit => granted'[w] = Limit
      BY <2>0, <3>1
    <3>3. answer' = answer /\ pc' = [pc EXCEPT ![t] = "replied"]
      BY <2>3 DEF ServerReserve
    <3>4. RefusalsAreServers'
      BY <2>0, <3>1, <3>2, <3>3
         DEF DenialInv, RefusalsAreServers, TypeInv, RepliesHaveWindow
    <3>. QED
      BY <3>2, <3>3, <3>4 DEF DenialInv, DenialsHaveWindow, DenialIsServers
  <2>4. ASSUME NEW t \in Tasks, Denied(t)
        PROVE  DenialInv'
    <3>1. /\ lease[t].expiresAt \in Windows
          /\ granted[lease[t].expiresAt] = Limit
          /\ granted' = granted
      BY <2>4 DEF Denied, DenialInv, RefusalsAreServers, TypeInv, RepliesHaveWindow, serverVars
    <3>. QED
      BY <2>0, <2>4, <3>1
         DEF Denied, Return, DenialInv, RefusalsAreServers, DenialsHaveWindow, DenialIsServers
  <2>5. ASSUME NEW t \in Tasks, RpcFails(t)
        PROVE  DenialInv'
    BY <2>0, <2>5, NoDenialStep DEF RpcFails, Return, serverVars
  <2>6. ASSUME NEW l \in Limiters, Crash(l)
        PROVE  DenialInv'
    BY <2>0, <2>6, NoDenialStep DEF Crash, Nothing, serverVars
  <2>7. CASE Tick \/ UNCHANGED vars
    BY <2>7, NoDenialStep DEF Tick, vars
  <2>. QED
    BY <2>1, <2>2, <2>3, <2>4, <2>5, <2>6, <2>7 DEF Next, Check, Reply
<1>3. DenialInv => DenialIsServers
  BY DEF DenialInv
<1>. QED
  BY <1>1, <1>2, <1>3, TypeInvAlways, PTL DEF Spec

-----------------------------------------------------------------------------
(* Grants make progress.                                                   *)

\* With no clock ahead of the server's, a call in flight began before the end
\* of the window it is granted units of.
GrantsAhead ==
  \A t \in Tasks :
    /\ pc[t] # "idle" => ts[t] <= clock
    /\ pc[t] = "replied" => ts[t] < lease[t].expiresAt

\* A pass of the loop's head does not receive a reply.
LEMMA TrySpendControl ==
  ASSUME TypeInv, NEW t \in Tasks, NEW s, NEW now, NEW c, TrySpend(t, s, now, c)
  PROVE  \E p \in {"idle", "sent"} : pc' = [pc EXCEPT ![t] = p]
BY DEF TrySpend, Reject, Serve, Refresh, Return, Ask

LEMMA GrantsAheadStep ==
  ASSUME NoFastClock, TypeInv, GrantsAhead, [Next]_vars
  PROVE  GrantsAhead'
<1>0. /\ pc \in [Tasks -> {"idle", "sent", "replied"}]
      /\ lease \in [Tasks -> Grant]
      /\ ts \in [Tasks -> Int]
      /\ clock \in Int /\ boundary \in Int
      /\ clock < boundary
  BY DEF TypeInv, TypeOK, ClockInWindow, Windows
<1>1. ASSUME NEW t \in Tasks, NEW c \in Costs, NEW drift \in Drifts, Call(t, c, drift)
      PROVE  GrantsAhead'
  <2>1. /\ ts' = [ts EXCEPT ![t] = clock + drift]
        /\ clock' = clock
        /\ clock + drift <= clock
    BY <1>0, <1>1 DEF Call, NoFastClock, serverVars
  <2>2. \E p \in {"idle", "sent"} : pc' = [pc EXCEPT ![t] = p]
    BY <1>1, TrySpendControl DEF Call, Ask
  <2>3. \A u \in Tasks : u # t => lease'[u] = lease[u]
    BY <1>0, <1>1 DEF Call, TrySpend, Reject, Serve, Refresh, Return, Ask
  <2>. QED
    BY <1>0, <2>1, <2>2, <2>3 DEF GrantsAhead
<1>2. ASSUME NEW t \in Tasks, Granted(t) \/ Denied(t) \/ RpcFails(t)
      PROVE  GrantsAhead'
  <2>1. ts' = ts /\ clock' = clock /\ pc[t] # "idle"
    BY <1>2 DEF Granted, Denied, RpcFails, callVars, serverVars
  <2>2. \E p \in {"idle", "sent"} : pc' = [pc EXCEPT ![t] = p]
    BY <1>2, TrySpendControl DEF Granted, Denied, RpcFails, Return
  <2>3. \A u \in Tasks : u # t => lease'[u] = lease[u]
    BY <1>0, <1>2
       DEF Granted, Denied, RpcFails, TrySpend, Reject, Serve, Refresh, Return, Ask
  <2>. QED
    BY <1>0, <2>1, <2>2, <2>3 DEF GrantsAhead
<1>3. ASSUME NEW t \in Tasks, ServerReserve(t)
      PROVE  GrantsAhead'
  <2>1. PICK n \in Nat :
          lease' = [lease EXCEPT ![t] = [capacity |-> n, expiresAt |-> boundary]]
    BY <1>3, ServerReserveGrant
  <2>. QED
    BY <1>0, <1>3, <2>1 DEF ServerReserve, GrantsAhead
<1>4. ASSUME NEW l \in Limiters, Crash(l)
      PROVE  GrantsAhead'
  BY <1>0, <1>4 DEF Crash, serverVars, GrantsAhead
<1>5. CASE Tick
  BY <1>0, <1>5 DEF Tick, GrantsAhead
<1>6. CASE UNCHANGED vars
  BY <1>6 DEF vars, GrantsAhead
<1>. QED
  BY <1>1, <1>2, <1>3, <1>4, <1>5, <1>6 DEF Next, Check, Reply

\* A grant that covers the call's cost ends the call: if no client's clock is
\* ahead of the server's, a call goes back for more only after a partial grant,
\* whatever else the limiter's other calls do.
THEOREM GrantsMakeProgress ==
  ASSUME NoFastClock
  PROVE  Spec => GrantMakesProgress
<1>1. Init => GrantsAhead
  BY DEF Init, GrantsAhead
<1>2. TypeInv /\ GrantsAhead /\ [Next]_vars => GrantsAhead'
  BY GrantsAheadStep
<1>3. TypeInv /\ GrantsAhead /\ [Next]_vars =>
        [\A t \in Tasks :
           pc[t] = "replied" /\ pc'[t] = "sent" => lease[t].capacity < cost[t]]_vars
  <2>. SUFFICES ASSUME TypeInv, GrantsAhead, Next, NEW u \in Tasks,
                       pc[u] = "replied", pc'[u] = "sent"
                PROVE  lease[u].capacity < cost[u]
    OBVIOUS
  <2>0. /\ pc \in [Tasks -> {"idle", "sent", "replied"}]
        /\ lease[u] \in Grant
        /\ ts[u] \in Int /\ cost[u] \in Int
        /\ lease[u].expiresAt \in Windows
        /\ ts[u] < lease[u].expiresAt
        /\ LimiterOf[u] \in Limiters
    BY DEF TypeInv, TypeOK, RepliesHaveWindow, GrantsAhead
  <2>1. Granted(u)
    <3>1. ASSUME NEW t \in Tasks, NEW c \in Costs, NEW drift \in Drifts, Call(t, c, drift)
          PROVE  FALSE
      BY <2>0, <3>1, TrySpendControl DEF Call, Ask
    <3>2. ASSUME NEW t \in Tasks, t # u, Granted(t)
          PROVE  FALSE
      BY <2>0, <3>2, TrySpendControl DEF Granted, Return
    <3>3. ASSUME NEW t \in Tasks, ServerReserve(t) \/ Denied(t) \/ RpcFails(t)
          PROVE  FALSE
      BY <2>0, <3>3 DEF ServerReserve, Denied, RpcFails, Return
    <3>4. ASSUME NEW l \in Limiters, Crash(l)
          PROVE  FALSE
      BY <2>0, <3>4 DEF Crash
    <3>5. ~ Tick
      BY DEF Tick
    <3>. QED
      BY <3>1, <3>2, <3>3, <3>4, <3>5 DEF Next, Check, Reply
  <2>. DEFINE r == SpenderOnReply(LimiterOf[u])
              s == ApplyLease(r, lease[u])
  <2>2. /\ r \in Spender
        /\ s.credits = r.credits + lease[u].capacity
        /\ s.expiresAt = lease[u].expiresAt
    BY <2>0, SpenderOnReplyType, ApplyLeaseType
  <2>. HIDE DEF r, s
  <2>3. ~ Serves(s, ts[u], cost[u])
    BY <2>0, <2>1 DEF Granted, TrySpend, Reject, Serve, Refresh, Return, s, r
  <2>4. OnHand(s, ts[u]) = s.credits
    BY <2>0, <2>2 DEF OnHand, Rolled, Windows
  <2>. QED
    BY <2>0, <2>2, <2>3, <2>4 DEF Serves, Spender, Grant
<1>. QED
  BY <1>1, <1>2, <1>3, TypeInvAlways, PTL DEF Spec, GrantMakesProgress

-----------------------------------------------------------------------------
(* Denials mean dry.                                                       *)

\* A call in flight has tried the credits on hand, and they could not serve it.
TriedInVain ==
  \A t \in Tasks :
    pc[t] # "idle" /\ spender[LimiterOf[t]] # NoSpender
      => ~ Serves(spender[LimiterOf[t]], ts[t], cost[t])

\* A call that spend() did not serve would not be served if it tried again.
LEMMA StillNotServed ==
  ASSUME NEW s \in Spender, NEW now \in Int, NEW c \in Int, ValidCost(c),
         ~ Serves(s, now, c)
  PROVE  ~ Serves(AfterSpend(s, now, c), now, c)
BY DEF AfterSpend, Serves, OnHand, Rolled, ValidCost, Spender

\* A pass of the loop's head either ends the call or leaves it tried in vain.
LEMMA TrySpendTries ==
  ASSUME TypeInv, NEW t \in Tasks, NEW s \in Spender, NEW now \in Int, NEW c \in Int,
         TrySpend(t, s, now, c)
  PROVE  \E r \in Spender, p \in {"idle", "sent"} :
           /\ spender' = [spender EXCEPT ![LimiterOf[t]] = r]
           /\ pc' = [pc EXCEPT ![t] = p]
           /\ p = "sent" => ~ Serves(r, now, c)
<1>1. CASE Reject(t, s, c)
  BY <1>1, "idle" # "sent" DEF Reject, Return
<1>2. CASE Serve(t, s, now, c)
  BY <1>2, AfterSpendType, "idle" # "sent" DEF Serve, Return
<1>3. CASE Refresh(t, s, now, c)
  BY <1>3, AfterSpendType, StillNotServed DEF Refresh, Ask
<1>. QED
  BY <1>1, <1>2, <1>3 DEF TrySpend

LEMMA TriedInVainStep ==
  ASSUME SerialUse, TypeInv, TriedInVain, [Next]_vars
  PROVE  TriedInVain'
<1>0. /\ pc \in [Tasks -> {"idle", "sent", "replied"}]
      /\ spender \in [Limiters -> Spender \cup {NoSpender}]
      /\ ts \in [Tasks -> Int] /\ cost \in [Tasks -> Int]
      /\ lease \in [Tasks -> Grant]
  BY DEF TypeInv, TypeOK
<1>1. ASSUME NEW t \in Tasks, NEW r \in Spender, NEW p \in {"idle", "sent"},
             spender' = [spender EXCEPT ![LimiterOf[t]] = r],
             pc' = [pc EXCEPT ![t] = p],
             p = "sent" => ~ Serves(r, ts'[t], cost'[t]),
             \A u \in Tasks : u # t => ts'[u] = ts[u] /\ cost'[u] = cost[u]
      PROVE  TriedInVain'
  <2>1. ASSUME NEW u \in Tasks, u # t
        PROVE  /\ spender'[LimiterOf[u]] = spender[LimiterOf[u]]
               /\ pc'[u] = pc[u] /\ ts'[u] = ts[u] /\ cost'[u] = cost[u]
    BY <1>0, <1>1, <2>1 DEF SerialUse
  <2>2. pc'[t] = p /\ spender'[LimiterOf[t]] = r
    BY <1>0, <1>1
  <2>. QED
    BY <1>1, <2>1, <2>2 DEF TriedInVain
<1>2. ASSUME NEW t \in Tasks, NEW c \in Costs, NEW drift \in Drifts, Call(t, c, drift)
      PROVE  TriedInVain'
  <2>. DEFINE s == spender[LimiterOf[t]]
              now == clock + drift
  <2>1. /\ now \in Int /\ c \in Int
        /\ ts' = [ts EXCEPT ![t] = now] /\ cost' = [cost EXCEPT ![t] = c]
    BY <1>2 DEF Call, TypeInv, TypeOK
  <2>2. /\ ts'[t] = now /\ cost'[t] = c
        /\ \A u \in Tasks : u # t => ts'[u] = ts[u] /\ cost'[u] = cost[u]
    BY <1>0, <2>1
  <2>3. CASE s = NoSpender /\ Ask(t) /\ UNCHANGED spender
    <3>1. \A u \in Tasks : u # t => pc'[u] = pc[u]
      BY <1>0, <2>3 DEF Ask
    <3>. QED
      BY <2>2, <2>3, <3>1 DEF TriedInVain
  <2>4. CASE s # NoSpender /\ TrySpend(t, s, now, c)
    <3>1. s \in Spender
      BY <1>0, <2>4
    <3>. HIDE DEF s, now
    <3>2. PICK r \in Spender, p \in {"idle", "sent"} :
            /\ spender' = [spender EXCEPT ![LimiterOf[t]] = r]
            /\ pc' = [pc EXCEPT ![t] = p]
            /\ p = "sent" => ~ Serves(r, now, c)
      BY <2>1, <2>4, <3>1, TrySpendTries
    <3>. QED
      BY <1>1, <2>2, <3>2
  <2>. QED
    BY <1>2, <2>3, <2>4 DEF Call
<1>3. ASSUME NEW t \in Tasks, Denied(t)
      PROVE  TriedInVain'
  <2>1. SpenderOnReply(LimiterOf[t]) \in Spender
    BY SpenderOnReplyType
  <2>2. /\ spender' = [spender EXCEPT ![LimiterOf[t]] = SpenderOnReply(LimiterOf[t])]
        /\ pc' = [pc EXCEPT ![t] = "idle"]
        /\ ts' = ts /\ cost' = cost
    BY <1>3 DEF Denied, Return, callVars
  <2>. QED
    BY <1>1, <2>1, <2>2, "idle" # "sent"
<1>4. ASSUME NEW t \in Tasks, Granted(t)
      PROVE  TriedInVain'
  <2>. DEFINE s == ApplyLease(SpenderOnReply(LimiterOf[t]), lease[t])
  <2>1. /\ s \in Spender
        /\ ts[t] \in Int /\ cost[t] \in Int
        /\ ts' = ts /\ cost' = cost
    BY <1>0, <1>4, SpenderOnReplyType, ApplyLeaseType DEF Granted, callVars
  <2>2. CASE TrySpend(t, s, ts[t], cost[t])
    <3>. HIDE DEF s
    <3>1. PICK r \in Spender, p \in {"idle", "sent"} :
            /\ spender' = [spender EXCEPT ![LimiterOf[t]] = r]
            /\ pc' = [pc EXCEPT ![t] = p]
            /\ p = "sent" => ~ Serves(r, ts[t], cost[t])
      BY <2>1, <2>2, TrySpendTries
    <3>. QED
      BY <1>1, <2>1, <3>1
  <2>3. CASE spender' = [spender EXCEPT ![LimiterOf[t]] = s] /\ Return(t, "exhausted", 0)
    <3>1. pc' = [pc EXCEPT ![t] = "idle"]
      BY <2>3 DEF Return
    <3>. QED
      BY <1>1, <2>1, <2>3, <3>1, "idle" # "sent"
  <2>. QED
    BY <1>4, <2>2, <2>3 DEF Granted
<1>5. ASSUME NEW t \in Tasks, ServerReserve(t) \/ RpcFails(t)
      PROVE  TriedInVain'
  BY <1>0, <1>5 DEF ServerReserve, RpcFails, Return, callVars, TriedInVain
<1>6. ASSUME NEW l \in Limiters, Crash(l)
      PROVE  TriedInVain'
  BY <1>0, <1>6 DEF Crash, TriedInVain
<1>7. CASE Tick \/ UNCHANGED vars
  BY <1>7 DEF Tick, vars, TriedInVain
<1>. QED
  BY <1>2, <1>3, <1>4, <1>5, <1>6, <1>7 DEF Next, Check, Reply

\* A limiter called one call at a time denies a call only when the credits on
\* hand cannot serve it, whatever the costs, clocks, lost replies and restarts.
THEOREM DenialsMeanDry ==
  ASSUME SerialUse
  PROVE  Spec => DenialMeansDry
<1>1. Init => TriedInVain
  BY DEF Init, TriedInVain
<1>2. TypeInv /\ TriedInVain /\ [Next]_vars => TriedInVain'
  BY TriedInVainStep
<1>3. TriedInVain =>
        [\A t \in Tasks :
           LET l == LimiterOf[t] IN
           pc[t] = "replied" /\ pc'[t] = "idle" /\ answer'[t].kind = "deny"
             /\ spender[l] # NoSpender
           => ~ Serves(spender[l], ts[t], cost[t])]_vars
  BY DEF TriedInVain
<1>. QED
  BY <1>1, <1>2, <1>3, TypeInvAlways, PTL DEF Spec, DenialMeansDry

-----------------------------------------------------------------------------
(* The budget of a window is respected by limiters that are called one     *)
(* call at a time with unit costs.                                         *)
(*                                                                         *)
(* Both conditions are needed: a call that costs two, or a second call of  *)
(* the same limiter, can be granted units of a new window while credits of *)
(* the old one are still on hand, and apply_lease adds them up.            *)

\* The units a limiter holds as credits of a window are within its allotment.
CreditsWithin(l, r) ==
  r.credits > 0 =>
    served[l][r.expiresAt] + r.credits <= allotted[l][r.expiresAt]

HeldWithin == \A l \in Limiters : spender[l] # NoSpender => CreditsWithin(l, spender[l])

\* So are the units of a grant on its way.
ComingWithin ==
  \A t \in Tasks :
    pc[t] = "replied" =>
      LET l == LimiterOf[t]
          w == lease[t].expiresAt
      IN served[l][w] + lease[t].capacity <= allotted[l][w]

\* A unit-cost call goes to the server only when there is not one credit left:
\* the window's remainder has been spent, or discarded by spend().
InFlightIsDry == \A t \in Tasks : pc[t] # "idle" => Credits(LimiterOf[t]) = 0

CallsCost == \A t \in Tasks : pc[t] # "idle" => cost[t] <= 1

\* The server's books: what it granted a limiter is part of what it granted.
AllottedWithin == \A l \in Limiters, w \in Windows : allotted[l][w] <= granted[w]

BudgetInv ==
  /\ PerWindow
  /\ HeldWithin
  /\ ComingWithin
  /\ InFlightIsDry
  /\ CallsCost
  /\ AllottedWithin

-----------------------------------------------------------------------------

\* What a pass of the loop's head does with a spender s whose credits are
\* within the allotment of their window: it spends within the allotment, and
\* goes to the server with nothing left.
LEMMA TrySpendBudget ==
  ASSUME TypeInv, PerWindow, NEW t \in Tasks, NEW l, l = LimiterOf[t],
         NEW s \in Spender, s.credits > 0 => s.expiresAt \in Windows,
         CreditsWithin(l, s), allotted' = allotted,
         NEW now \in Int, NEW c \in Int, c <= 1,
         TrySpend(t, s, now, c)
  PROVE  \E r \in Spender, n \in {0, 1}, p \in {"idle", "sent"}, w \in Windows :
           /\ spender' = [spender EXCEPT ![l] = r]
           /\ pc' = [pc EXCEPT ![t] = p]
           /\ served[l][w] + n <= allotted[l][w]
           /\ served' = [served EXCEPT ![l][w] = @ + n]
           /\ CreditsWithin(l, r)'
           /\ p = "sent" => r.credits = 0 /\ n = 0
<1>. USE DEF TypeInv, TypeOK
<1>1. l \in Limiters
  OBVIOUS
<1>2. served \in [Limiters -> [Windows -> Nat]] /\ allotted \in [Limiters -> [Windows -> Nat]]
  OBVIOUS
<1>3. \A w \in Windows : served = [served EXCEPT ![l][w] = @ + 0]
  BY <1>1, <1>2
<1>4. boundary \in Windows /\ served[l][boundary] + 0 <= allotted[l][boundary]
  BY <1>1, <1>2 DEF PerWindow
<1>5. CASE Reject(t, s, c)
  <2>1. CreditsWithin(l, s)'
    BY <1>5 DEF Reject, CreditsWithin
  <2>2. /\ spender' = [spender EXCEPT ![l] = s]
        /\ pc' = [pc EXCEPT ![t] = "idle"]
        /\ served' = [served EXCEPT ![l][boundary] = @ + 0]
    BY <1>3, <1>4, <1>5 DEF Reject, Return
  <2>. QED
    BY <1>4, <2>1, <2>2, "idle" # "sent"
<1>6. CASE Serve(t, s, now, c)
  <2>0. c = 1
    BY <1>6 DEF Serve, ValidCost
  <2>1. /\ s.credits >= 1 /\ s.expiresAt \in Windows
        /\ AfterSpend(s, now, c) = [s EXCEPT !.credits = s.credits - 1]
        /\ AfterSpend(s, now, c) \in Spender
    BY <1>6, <2>0, ServesCurrent, AfterSpendType DEF Serve
  <2>. DEFINE r == AfterSpend(s, now, c)
              w == s.expiresAt
  <2>2. served[l][w] + s.credits <= allotted[l][w]
    BY <2>1 DEF CreditsWithin, Spender
  <2>3. served' = [served EXCEPT ![l][w] = @ + 1]
    BY <1>6, <2>0 DEF Serve
  <2>4. r.credits = s.credits - 1 /\ r.expiresAt = w /\ s.credits \in Nat
    BY <2>1 DEF Spender
  <2>5. CreditsWithin(l, r)'
    <3>. HIDE DEF r
    <3>. QED
      BY <1>1, <1>2, <2>1, <2>2, <2>3, <2>4 DEF CreditsWithin
  <2>6. served[l][w] + 1 <= allotted[l][w]
    BY <1>1, <1>2, <2>1, <2>2, <2>4
  <2>7. /\ spender' = [spender EXCEPT ![l] = r]
        /\ pc' = [pc EXCEPT ![t] = "idle"]
    BY <1>6 DEF Serve, Return
  <2>. QED
    BY <2>1, <2>3, <2>5, <2>6, <2>7
<1>7. CASE Refresh(t, s, now, c)
  <2>. DEFINE r == AfterSpend(s, now, c)
  <2>1. r \in Spender
    BY <1>7, AfterSpendType DEF Refresh
  <2>2. r.credits = 0
    BY <1>7 DEF Refresh, ValidCost, AfterSpend, Serves, OnHand, Spender
  <2>3. CreditsWithin(l, r)'
    BY <2>1, <2>2 DEF CreditsWithin, Spender
  <2>. QED
    BY <1>3, <1>4, <1>7, <2>1, <2>2, <2>3 DEF Refresh, Ask
<1>. QED
  BY <1>5, <1>6, <1>7 DEF TrySpend

-----------------------------------------------------------------------------

LEMMA BudgetInvInit == Init => BudgetInv
BY DEF Init, BudgetInv, PerWindow, HeldWithin, ComingWithin, InFlightIsDry, CallsCost,
       AllottedWithin, Credits

\* A step of a task of limiter l after which the limiter's spender is r, n units
\* of window w have been served, and the task is not waiting for a reply's grant.
LEMMA ClientStep ==
  ASSUME TypeInv, BudgetInv, SerialUse, NEW t \in Tasks, NEW l, l = LimiterOf[t],
         NEW r \in Spender, NEW n \in {0, 1}, NEW p \in {"idle", "sent"}, NEW w \in Windows,
         spender' = [spender EXCEPT ![l] = r],
         pc' = [pc EXCEPT ![t] = p],
         served[l][w] + n <= allotted[l][w],
         served' = [served EXCEPT ![l][w] = @ + n],
         CreditsWithin(l, r)',
         p = "sent" => r.credits = 0,
         \A u \in Tasks : u # t => lease'[u] = lease[u] /\ cost'[u] = cost[u],
         p = "sent" => cost'[t] <= 1,
         allotted' = allotted, granted' = granted
  PROVE  BudgetInv'
<1>. USE DEF TypeInv, TypeOK
<1>1. /\ l \in Limiters
      /\ served \in [Limiters -> [Windows -> Nat]]
      /\ allotted \in [Limiters -> [Windows -> Nat]]
      /\ spender \in [Limiters -> Spender \cup {NoSpender}]
      /\ pc \in [Tasks -> {"idle", "sent", "replied"}]
  OBVIOUS
<1>2. \A m \in Limiters : m # l => served'[m] = served[m] /\ spender'[m] = spender[m]
  BY <1>1
<1>3. \A u \in Tasks : u # t => LimiterOf[u] # l /\ LimiterOf[u] \in Limiters
  BY DEF SerialUse
<1>4. \A u \in Tasks : u # t => pc'[u] = pc[u]
  BY <1>1
<1>5. pc'[t] = p /\ p # "replied" /\ spender'[l] = r
  BY <1>1
<1>6. PerWindow'
  BY <1>1, <1>2 DEF BudgetInv, PerWindow
<1>7. HeldWithin'
  BY <1>1, <1>2, <1>5 DEF BudgetInv, HeldWithin, CreditsWithin
<1>8. ComingWithin'
  BY <1>2, <1>3, <1>4, <1>5 DEF BudgetInv, ComingWithin
<1>9. InFlightIsDry'
  <2>. SUFFICES ASSUME NEW u \in Tasks, pc'[u] # "idle"
                PROVE  Credits(LimiterOf[u])' = 0
    BY DEF InFlightIsDry
  <2>1. CASE u = t
    <3>1. r.credits = 0
      BY <1>5, <2>1
    <3>. QED
      BY <1>5, <2>1, <3>1 DEF Credits
  <2>2. CASE u # t
    BY <1>2, <1>3, <1>4, <2>2 DEF Credits, BudgetInv, InFlightIsDry
  <2>. QED
    BY <2>1, <2>2
<1>10. CallsCost'
  BY <1>4, <1>5 DEF BudgetInv, CallsCost
<1>11. AllottedWithin'
  BY DEF BudgetInv, AllottedWithin
<1>. QED
  BY <1>6, <1>7, <1>8, <1>9, <1>10, <1>11 DEF BudgetInv

\* What a client's step means for the abstract budget: nothing, or one unit of a
\* window spent.
LEMMA ClientRefines ==
  ASSUME TypeInv, BudgetInv, NEW l \in Limiters, NEW n \in {0, 1}, NEW w \in Windows,
         served[l][w] + n <= allotted[l][w],
         served' = [served EXCEPT ![l][w] = @ + n],
         allotted' = allotted, granted' = granted
  PROVE  [Budget!Next]_(Budget!vars)
<1>1. /\ served \in [Limiters -> [Windows -> Nat]]
      /\ granted \in [Windows -> 0 .. Limit]
      /\ allotted[l][w] <= granted[w]
      /\ allotted \in [Limiters -> [Windows -> Nat]]
  BY DEF TypeInv, TypeOK, BudgetInv, AllottedWithin
<1>2. CASE n = 0
  <2>1. served' = served
    BY <1>1, <1>2
  <2>. QED
    BY <2>1 DEF Budget!vars
<1>3. CASE n = 1
  <2>1. 1 \in 1 .. Limit
    BY <1>1, <1>3
  <2>2. Budget!Spend(l, w, 1)
    BY <1>3 DEF Budget!Spend
  <2>. QED
    BY <2>1, <2>2 DEF Budget!Next
<1>. QED
  BY <1>2, <1>3

\* The invariant is inductive, and every step is one of the abstract budget.
LEMMA BudgetInvStep ==
  ASSUME SerialUse, UnitCosts, TypeInv, BudgetInv, [Next]_vars
  PROVE  BudgetInv' /\ [Budget!Next]_(Budget!vars)
<1>0. /\ pc \in [Tasks -> {"idle", "sent", "replied"}]
      /\ spender \in [Limiters -> Spender \cup {NoSpender}]
      /\ lease \in [Tasks -> Grant]
      /\ cost \in [Tasks -> Int]
      /\ ts \in [Tasks -> Int]
      /\ granted \in [Windows -> 0 .. Limit]
      /\ served \in [Limiters -> [Windows -> Nat]]
      /\ allotted \in [Limiters -> [Windows -> Nat]]
      /\ boundary \in Windows
  BY DEF TypeInv, TypeOK
<1>1. ASSUME NEW t \in Tasks, NEW c \in Costs, NEW drift \in Drifts, Call(t, c, drift)
      PROVE  BudgetInv' /\ [Budget!Next]_(Budget!vars)
  <2>. DEFINE l == LimiterOf[t]
              s == spender[l]
              now == clock + drift
  <2>1. /\ l \in Limiters
        /\ allotted' = allotted /\ granted' = granted
        /\ cost' = [cost EXCEPT ![t] = c]
        /\ now \in Int /\ c \in Int /\ c <= 1
        /\ pc[t] = "idle"
    BY <1>1 DEF Call, serverVars, TypeInv, TypeOK, UnitCosts
  <2>2. CASE s = NoSpender /\ Ask(t) /\ UNCHANGED spender
    <3>1. /\ served' = served
          /\ pc' = [pc EXCEPT ![t] = "sent"]
          /\ \A u \in Tasks : u # t => lease'[u] = lease[u]
      BY <1>0, <2>2 DEF Ask
    <3>2. Credits(l) = 0
      BY <2>2 DEF Credits
    <3>3. BudgetInv'
      BY <1>0, <2>1, <2>2, <3>1, <3>2
         DEF BudgetInv, PerWindow, HeldWithin, ComingWithin, InFlightIsDry, CallsCost,
             AllottedWithin, CreditsWithin, Credits
    <3>. QED
      BY <2>1, <3>1, <3>3 DEF Budget!vars
  <2>3. CASE s # NoSpender /\ TrySpend(t, s, now, c)
    <3>1. /\ s \in Spender
          /\ s.credits > 0 => s.expiresAt \in Windows
          /\ CreditsWithin(l, s)
      BY <1>0, <2>1, <2>3 DEF TypeInv, CreditsHaveWindow, BudgetInv, HeldWithin
    <3>2. \A u \in Tasks : u # t => lease'[u] = lease[u] /\ cost'[u] = cost[u]
      BY <1>0, <2>1, <2>3 DEF TrySpend, Reject, Serve, Refresh, Return, Ask
    <3>3. cost'[t] <= 1
      BY <1>0, <2>1
    <3>. HIDE DEF s, now, l
    <3>4. PerWindow /\ l = LimiterOf[t]
      BY DEF BudgetInv, l
    <3>5. PICK r \in Spender, n \in {0, 1}, p \in {"idle", "sent"}, w \in Windows :
            /\ spender' = [spender EXCEPT ![l] = r]
            /\ pc' = [pc EXCEPT ![t] = p]
            /\ served[l][w] + n <= allotted[l][w]
            /\ served' = [served EXCEPT ![l][w] = @ + n]
            /\ CreditsWithin(l, r)'
            /\ p = "sent" => r.credits = 0 /\ n = 0
      BY <2>1, <2>3, <3>1, <3>4, TrySpendBudget
    <3>6. BudgetInv'
      BY <2>1, <3>2, <3>3, <3>4, <3>5, ClientStep
    <3>. QED
      BY <2>1, <3>5, <3>6, ClientRefines
  <2>. QED
    BY <1>1, <2>2, <2>3 DEF Call
<1>2. ASSUME NEW t \in Tasks, ServerReserve(t)
      PROVE  BudgetInv' /\ [Budget!Next]_(Budget!vars)
  <2>. DEFINE l == LimiterOf[t]
  <2>1. PICK n \in Nat :
          /\ granted[boundary] + n \in 0 .. Limit
          /\ lease' = [lease EXCEPT ![t] = [capacity |-> n, expiresAt |-> boundary]]
          /\ granted' = [granted EXCEPT ![boundary] = @ + n]
          /\ allotted' = [allotted EXCEPT ![LimiterOf[t]][boundary] = @ + n]
    BY <1>2, ServerReserveGrant
  <2>2. /\ pc[t] = "sent"
        /\ pc' = [pc EXCEPT ![t] = "replied"]
        /\ UNCHANGED <<spender, cost, served>>
    BY <1>2 DEF ServerReserve
  <2>3. l \in Limiters
    OBVIOUS
  <2>4. \A m \in Limiters, w \in Windows :
          /\ allotted[m][w] <= allotted'[m][w]
          /\ m # l \/ w # boundary => allotted'[m][w] = allotted[m][w]
    BY <1>0, <2>1, <2>3
  <2>5. /\ allotted'[l][boundary] = allotted[l][boundary] + n
        /\ \A m \in Limiters, w \in Windows : allotted'[m][w] \in Nat
    BY <1>0, <2>1, <2>3
  <2>6. PerWindow'
    BY <1>0, <2>2, <2>4, <2>5 DEF BudgetInv, PerWindow
  <2>7. HeldWithin'
    <3>. SUFFICES ASSUME NEW m \in Limiters, spender[m] # NoSpender, spender[m].credits > 0
                  PROVE  served[m][spender[m].expiresAt] + spender[m].credits
                           <= allotted'[m][spender[m].expiresAt]
      BY <2>2 DEF HeldWithin, CreditsWithin
    <3>1. /\ spender[m].expiresAt \in Windows
          /\ spender[m].credits \in Nat
          /\ served[m][spender[m].expiresAt] + spender[m].credits
               <= allotted[m][spender[m].expiresAt]
      BY <1>0 DEF BudgetInv, HeldWithin, CreditsWithin, TypeInv, CreditsHaveWindow, Spender
    <3>. QED
      BY <1>0, <2>4, <2>5, <3>1
  <2>8. ComingWithin'
    <3>. SUFFICES ASSUME NEW u \in Tasks, pc'[u] = "replied"
                  PROVE  served[LimiterOf[u]][lease'[u].expiresAt] + lease'[u].capacity
                           <= allotted'[LimiterOf[u]][lease'[u].expiresAt]
      BY <2>2 DEF ComingWithin
    <3>1. CASE u = t
      <4>1. served[l][boundary] <= allotted[l][boundary]
        BY <1>0, <2>3 DEF BudgetInv, PerWindow
      <4>2. lease'[u].capacity = n /\ lease'[u].expiresAt = boundary
        BY <1>0, <2>1, <3>1
      <4>. QED
        BY <1>0, <2>3, <2>5, <3>1, <4>1, <4>2
    <3>2. CASE u # t
      <4>1. /\ lease'[u] = lease[u] /\ pc[u] = "replied"
            /\ LimiterOf[u] # l /\ LimiterOf[u] \in Limiters
        BY <1>0, <2>1, <2>2, <3>2 DEF SerialUse
      <4>2. allotted'[LimiterOf[u]] = allotted[LimiterOf[u]]
        BY <1>0, <2>1, <2>3, <4>1
      <4>. QED
        BY <4>1, <4>2 DEF BudgetInv, ComingWithin
    <3>. QED
      BY <3>1, <3>2
  <2>9. InFlightIsDry' /\ CallsCost'
    BY <1>0, <2>2 DEF BudgetInv, InFlightIsDry, CallsCost, Credits
  <2>10. AllottedWithin'
    BY <1>0, <2>1, <2>3 DEF BudgetInv, AllottedWithin
  <2>11. [Budget!Next]_(Budget!vars)
    <3>1. CASE n = 0
      <4>1. granted' = granted /\ allotted' = allotted
        BY <1>0, <2>1, <2>3, <3>1
      <4>. QED
        BY <2>2, <4>1 DEF Budget!vars
    <3>2. CASE n # 0
      <4>1. n \in 1 .. Limit
        BY <1>0, <2>1, <3>2
      <4>2. [w \in Windows |-> Limit - granted'[w]] =
              [[w \in Windows |-> Limit - granted[w]] EXCEPT ![boundary] = @ - n]
        <5>1. \A w \in Windows : granted'[w] = IF w = boundary THEN granted[w] + n
                                                               ELSE granted[w]
          BY <1>0, <2>1
        <5>2. \A w \in Windows : Limit - granted'[w] =
                 IF w = boundary THEN (Limit - granted[w]) - n ELSE Limit - granted[w]
          BY <1>0, <5>1
        <5>. QED
          BY <5>2, Zenon
      <4>3. n <= [w \in Windows |-> Limit - granted[w]][boundary]
        BY <1>0, <2>1
      <4>4. Budget!Allot(l, boundary, n)
        BY <2>1, <2>2, <4>2, <4>3 DEF Budget!Allot
      <4>. QED
        BY <1>0, <2>3, <4>1, <4>4 DEF Budget!Next
    <3>. QED
      BY <3>1, <3>2
  <2>. QED
    BY <2>6, <2>7, <2>8, <2>9, <2>10, <2>11 DEF BudgetInv
<1>3. ASSUME NEW t \in Tasks, Denied(t)
      PROVE  BudgetInv' /\ [Budget!Next]_(Budget!vars)
  <2>. DEFINE l == LimiterOf[t]
  <2>1. PICK r \in Spender : r = SpenderOnReply(l) /\ r.credits = Credits(l)
    BY SpenderOnReplyType
  <2>2. r.credits = 0 /\ l \in Limiters
    BY <1>3, <2>1 DEF Denied, BudgetInv, InFlightIsDry
  <2>3. /\ spender' = [spender EXCEPT ![l] = r]
        /\ pc' = [pc EXCEPT ![t] = "idle"]
        /\ served' = served /\ allotted' = allotted /\ granted' = granted
        /\ \A u \in Tasks : u # t => lease'[u] = lease[u] /\ cost'[u] = cost[u]
    BY <1>0, <1>3, <2>1 DEF Denied, Return, serverVars, callVars
  <2>. HIDE DEF l
  <2>4. CreditsWithin(l, r)'
    BY <2>2 DEF CreditsWithin
  <2>5. /\ served' = [served EXCEPT ![l][boundary] = @ + 0]
        /\ served[l][boundary] + 0 <= allotted[l][boundary]
    BY <1>0, <2>2, <2>3 DEF BudgetInv, PerWindow
  <2>6. l = LimiterOf[t]
    BY DEF l
  <2>7. BudgetInv'
    BY <1>0, <2>2, <2>3, <2>4, <2>5, <2>6, "idle" # "sent", ClientStep
  <2>. QED
    BY <2>3, <2>7 DEF Budget!vars
<1>4. ASSUME NEW t \in Tasks, Granted(t)
      PROVE  BudgetInv' /\ [Budget!Next]_(Budget!vars)
  <2>. DEFINE l == LimiterOf[t]
  <2>1. /\ l \in Limiters
        /\ lease[t] \in Grant
        /\ lease[t].expiresAt \in Windows
        /\ ts[t] \in Int /\ cost[t] \in Int /\ cost[t] <= 1
        /\ cost' = cost /\ allotted' = allotted /\ granted' = granted
    BY <1>0, <1>4
       DEF Granted, TypeInv, RepliesHaveWindow, serverVars, callVars, BudgetInv, CallsCost
  <2>2. /\ SpenderOnReply(l) \in Spender
        /\ SpenderOnReply(l).credits = 0
    BY <1>4, <2>1, SpenderOnReplyType DEF Granted, BudgetInv, InFlightIsDry
  <2>3. PICK s \in Spender :
          /\ s = ApplyLease(SpenderOnReply(l), lease[t])
          /\ s.credits = lease[t].capacity
          /\ s.expiresAt = lease[t].expiresAt
    BY <2>1, <2>2, ApplyLeaseType DEF Grant
  <2>4. CreditsWithin(l, s)
    <3>1. served[l][lease[t].expiresAt] + lease[t].capacity <= allotted[l][lease[t].expiresAt]
      BY <1>4 DEF Granted, BudgetInv, ComingWithin
    <3>. QED
      BY <2>3, <3>1 DEF CreditsWithin
  <2>5. \A u \in Tasks : u # t => lease'[u] = lease[u] /\ cost'[u] = cost[u]
    BY <1>0, <1>4, <2>1
       DEF Granted, TrySpend, Reject, Serve, Refresh, Return, Ask
  <2>. HIDE DEF l
  <2>6. PerWindow /\ l = LimiterOf[t]
    BY DEF BudgetInv, l
  <2>7. CASE TrySpend(t, s, ts[t], cost[t])
    <3>1. PICK r \in Spender, n \in {0, 1}, p \in {"idle", "sent"}, w \in Windows :
            /\ spender' = [spender EXCEPT ![l] = r]
            /\ pc' = [pc EXCEPT ![t] = p]
            /\ served[l][w] + n <= allotted[l][w]
            /\ served' = [served EXCEPT ![l][w] = @ + n]
            /\ CreditsWithin(l, r)'
            /\ p = "sent" => r.credits = 0 /\ n = 0
      BY <2>1, <2>3, <2>4, <2>6, <2>7, TrySpendBudget
    <3>2. BudgetInv'
      BY <2>1, <2>5, <2>6, <3>1, ClientStep
    <3>. QED
      BY <2>1, <3>1, <3>2, ClientRefines
  <2>8. CASE /\ spender' = [spender EXCEPT ![l] = s]
             /\ Return(t, "exhausted", 0)
             /\ UNCHANGED served
    <3>1. pc' = [pc EXCEPT ![t] = "idle"]
      BY <2>8 DEF Return
    <3>2. CreditsWithin(l, s)'
      BY <2>1, <2>4, <2>8 DEF CreditsWithin
    <3>3. /\ served' = [served EXCEPT ![l][boundary] = @ + 0]
          /\ served[l][boundary] + 0 <= allotted[l][boundary]
      BY <1>0, <2>1, <2>6, <2>8 DEF PerWindow
    <3>4. BudgetInv'
      BY <1>0, <2>1, <2>3, <2>5, <2>6, <2>8, <3>1, <3>2, <3>3, "idle" # "sent", ClientStep
    <3>. QED
      BY <2>1, <2>8, <3>4 DEF Budget!vars
  <2>. QED
    BY <1>4, <2>3, <2>7, <2>8 DEF Granted, l
<1>5. ASSUME NEW t \in Tasks, RpcFails(t)
      PROVE  BudgetInv' /\ [Budget!Next]_(Budget!vars)
  <2>1. /\ pc' = [pc EXCEPT ![t] = "idle"]
        /\ \A u \in Tasks : u # t => lease'[u] = lease[u]
        /\ UNCHANGED <<spender, cost, served, allotted, granted>>
    BY <1>0, <1>5 DEF RpcFails, Return, serverVars, callVars
  <2>2. BudgetInv'
    BY <1>0, <2>1
       DEF BudgetInv, PerWindow, HeldWithin, ComingWithin, InFlightIsDry, CallsCost,
           AllottedWithin, CreditsWithin, Credits
  <2>. QED
    BY <2>1, <2>2 DEF Budget!vars
<1>6. ASSUME NEW l \in Limiters, Crash(l)
      PROVE  BudgetInv' /\ [Budget!Next]_(Budget!vars)
  <2>1. /\ spender' = [spender EXCEPT ![l] = NoSpender]
        /\ \A u \in Tasks : IF LimiterOf[u] = l
                             THEN pc'[u] = "idle"
                             ELSE pc'[u] = pc[u] /\ lease'[u] = lease[u] /\ cost'[u] = cost[u]
        /\ UNCHANGED <<served, allotted, granted>>
    BY <1>6 DEF Crash, serverVars
  <2>2. BudgetInv'
    BY <1>0, <2>1
       DEF BudgetInv, PerWindow, HeldWithin, ComingWithin, InFlightIsDry, CallsCost,
           AllottedWithin, CreditsWithin, Credits
  <2>. QED
    BY <2>1, <2>2 DEF Budget!vars
<1>7. CASE Tick \/ UNCHANGED vars
  <2>1. UNCHANGED <<granted, spender, pc, cost, lease, allotted, served>>
    BY <1>7 DEF Tick, vars
  <2>2. BudgetInv'
    BY <2>1
       DEF BudgetInv, PerWindow, HeldWithin, ComingWithin, InFlightIsDry, CallsCost,
           AllottedWithin, CreditsWithin, Credits
  <2>. QED
    BY <2>1, <2>2 DEF Budget!vars
<1>. QED
  BY <1>1, <1>2, <1>3, <1>4, <1>5, <1>6, <1>7 DEF Next, Check, Reply

-----------------------------------------------------------------------------

\* A limiter called one call at a time with unit costs never serves more of a
\* window than it was granted of it: for any number of limiters, any batch,
\* limit, window and clock drift, with or without window coupling, and whatever
\* replies are lost and processes crash.
THEOREM PerWindowHolds ==
  ASSUME SerialUse, UnitCosts
  PROVE  Spec => []PerWindow
<1>1. TypeInv /\ BudgetInv /\ [Next]_vars => BudgetInv'
  BY BudgetInvStep
<1>2. BudgetInv => PerWindow
  BY DEF BudgetInv
<1>. QED
  BY <1>1, <1>2, BudgetInvInit, TypeInvAlways, PTL DEF Spec

\* Under the same conditions leasing implements the abstract budget.
THEOREM LeasingImplementsBudget ==
  ASSUME SerialUse, UnitCosts
  PROVE  Spec => ImplementsBudget
<1>1. Init => Budget!Init
  BY DEF Init, Budget!Init
<1>2. TypeInv /\ BudgetInv /\ [Next]_vars => BudgetInv' /\ [Budget!Next]_(Budget!vars)
  BY BudgetInvStep
<1>. QED
  BY <1>1, <1>2, BudgetInvInit, TypeInvAlways, PTL DEF Spec, ImplementsBudget, Budget!Spec

-----------------------------------------------------------------------------
(* The fleet together.                                                     *)

\* The limiters' shares of window w, by what they served and were granted of it.
ServedOf(w)   == [l \in Limiters |-> served[l][w]]
AllottedOf(w) == [l \in Limiters |-> allotted[l][w]]

\* The server's books balance: what the limiters were granted of a window adds
\* up to what was granted of it.
GrantsAddUp ==
  \A w \in Windows : SumFunctionOnSet(AllottedOf(w), Limiters) = granted[w]

LEMMA SharesAreSummable ==
  ASSUME TypeInv, NEW w \in Windows
  PROVE  Summable(ServedOf(w), Limiters) /\ Summable(AllottedOf(w), Limiters)
BY DEF TypeInv, TypeOK, ServedOf, AllottedOf, Summable

LEMMA GrantsAddUpInit == Init => GrantsAddUp
<1>. SUFFICES ASSUME Init, NEW w \in Windows
              PROVE  SumFunctionOnSet(AllottedOf(w), Limiters) = granted[w]
  BY DEF GrantsAddUp
<1>1. granted[w] = 0 /\ \A l \in Limiters : AllottedOf(w)[l] = 0
  BY DEF Init, AllottedOf
<1>. QED
  BY <1>1, SumOfZeros

\* Only the server's grants change its books, by the same amount on both sides.
LEMMA GrantsAddUpStep ==
  ASSUME TypeInv, GrantsAddUp, [Next]_vars
  PROVE  GrantsAddUp'
<1>1. ASSUME NEW t \in Tasks, ServerReserve(t)
      PROVE  GrantsAddUp'
  <2>. DEFINE l == LimiterOf[t]
  <2>1. PICK n \in Nat :
          /\ boundary \in Windows
          /\ granted' = [granted EXCEPT ![boundary] = @ + n]
          /\ allotted' = [allotted EXCEPT ![l][boundary] = @ + n]
    BY <1>1, ServerReserveGrant
  <2>2. /\ l \in Limiters
        /\ granted \in [Windows -> 0 .. Limit]
        /\ allotted \in [Limiters -> [Windows -> Nat]]
    BY DEF TypeInv, TypeOK
  <2>3. ASSUME NEW w \in Windows, w # boundary
        PROVE  SumFunctionOnSet(AllottedOf(w)', Limiters) = granted'[w]
    <3>1. AllottedOf(w)' = AllottedOf(w) /\ granted'[w] = granted[w]
      BY <2>1, <2>2, <2>3 DEF AllottedOf
    <3>. QED
      BY <3>1 DEF GrantsAddUp
  <2>4. ASSUME NEW w \in Windows, w = boundary
        PROVE  SumFunctionOnSet(AllottedOf(w)', Limiters) = granted'[w]
    <3>1. PICK f, g : f = AllottedOf(w) /\ g = AllottedOf(w)'
      OBVIOUS
    <3>2. g[l] = f[l] + n /\ \A m \in Limiters \ {l} : g[m] = f[m]
      BY <2>1, <2>2, <2>4, <3>1 DEF AllottedOf
    <3>3. Summable(f, Limiters) /\ SumFunctionOnSet(f, Limiters) = granted[w]
      BY <3>1, SharesAreSummable DEF GrantsAddUp
    <3>4. f[l] \in Nat /\ g[l] \in Nat
      BY <2>2, <3>2, <3>3 DEF Summable
    <3>5. SumFunctionOnSet(g, Limiters) = SumFunctionOnSet(f, Limiters) + (g[l] - f[l])
      <4>1. l \in Limiters /\ Summable(f, Limiters) /\ g[l] \in Nat
        BY <2>2, <3>3, <3>4
      <4>2. \A m \in Limiters \ {l} : g[m] = f[m]
        BY <3>2
      <4>. HIDE FleetAssumption DEF l
      <4>. QED
        BY <4>1, <4>2, SumWithOther
    <3>6. SumFunctionOnSet(g, Limiters) = granted[w] + n
      BY <2>2, <3>2, <3>3, <3>4, <3>5
    <3>. QED
      BY <2>1, <2>2, <2>4, <3>1, <3>6
  <2>. QED
    BY <2>3, <2>4 DEF GrantsAddUp
<1>2. CASE UNCHANGED <<granted, allotted>>
  BY <1>2 DEF GrantsAddUp, AllottedOf
<1>. QED
  BY <1>1, <1>2
     DEF Next, Check, Reply, Call, Denied, Granted, RpcFails, Crash, Tick, vars, serverVars

\* Whatever its limiters do, and however many they are, the fleet is never
\* leased more of a window than the policy's limit.
LEMMA FleetIsLeasedTheLimit ==
  ASSUME TypeInv, GrantsAddUp, NEW w \in Windows
  PROVE  SumFunctionOnSet(AllottedOf(w), Limiters) <= Limit
BY DEF GrantsAddUp, TypeInv, TypeOK

\* The fleet never over-admits, if limiters are called one call at a time with
\* unit costs: each stays within its allotment, and the allotments of a window
\* add up to what the server granted of it.
THEOREM FleetNeverOverAdmits ==
  ASSUME SerialUse, UnitCosts
  PROVE  Spec => []FleetBound
<1>1. TypeInv /\ PerWindow /\ GrantsAddUp => FleetBound
  <2>. SUFFICES ASSUME TypeInv, PerWindow, GrantsAddUp, NEW w \in Windows
                PROVE  SumFunctionOnSet(ServedOf(w), Limiters) <= Limit
    BY DEF FleetBound, ServedOf
  <2>1. \A l \in Limiters : ServedOf(w)[l] <= AllottedOf(w)[l]
    BY DEF PerWindow, ServedOf, AllottedOf
  <2>2. /\ Summable(ServedOf(w), Limiters)
        /\ Summable(AllottedOf(w), Limiters)
    BY SharesAreSummable
  <2>3. /\ SumFunctionOnSet(ServedOf(w), Limiters) <= SumFunctionOnSet(AllottedOf(w), Limiters)
        /\ SumFunctionOnSet(ServedOf(w), Limiters) \in Nat
        /\ SumFunctionOnSet(AllottedOf(w), Limiters) \in Nat
    BY <2>1, <2>2, SumIsMonotone, SumIsNat
  <2>. QED
    BY <2>3, FleetIsLeasedTheLimit
<1>2. TypeInv /\ GrantsAddUp /\ [Next]_vars => GrantsAddUp'
  BY GrantsAddUpStep
<1>. QED
  BY <1>1, <1>2, GrantsAddUpInit, TypeInvAlways, PerWindowHolds, PTL DEF Spec

-----------------------------------------------------------------------------
(* No budget is created.                                                   *)

\* The grants of the replies on their way, as the function Coming sums.
Capacities == [t \in Tasks |-> lease[t].capacity]

\* A call that waits for the server has no grant on its way.
LeaseIsReply == \A t \in Tasks : pc[t] # "replied" => lease[t] = NoLease

CreatedInv == NeverCreatesBudget /\ LeaseIsReply

LEMMA TotalsAreSummable ==
  ASSUME TypeInv, NEW l \in Limiters
  PROVE  /\ Summable(served[l], Windows)
         /\ Summable(allotted[l], Windows)
         /\ Summable(Capacities, {t \in Tasks : LimiterOf[t] = l})
<1>1. IsFiniteSet(Windows)
  BY FS_Interval DEF Windows
<1>2. IsFiniteSet({t \in Tasks : LimiterOf[t] = l})
  BY FS_Subset
<1>3. \A t \in Tasks : Capacities[t] \in Nat
  BY DEF TypeInv, TypeOK, Capacities, Grant
<1>4. \A w \in Windows : served[l][w] \in Nat /\ allotted[l][w] \in Nat
  BY DEF TypeInv, TypeOK
<1>. QED
  BY <1>1, <1>2, <1>3, <1>4 DEF Summable

LEMMA CreatedInvInit == Init => CreatedInv
<1>. SUFFICES ASSUME Init
              PROVE  CreatedInv
  OBVIOUS
<1>1. LeaseIsReply
  BY DEF Init, LeaseIsReply
<1>2. ASSUME NEW l \in Limiters
      PROVE  SumFunctionOnSet(served[l], Windows) + Credits(l) + Coming(l)
               <= SumFunctionOnSet(allotted[l], Windows)
  <2>1. IsFiniteSet(Windows) /\ IsFiniteSet({t \in Tasks : LimiterOf[t] = l})
    BY FS_Interval, FS_Subset DEF Windows
  <2>2. /\ \A w \in Windows : served[l][w] = 0 /\ allotted[l][w] = 0
        /\ \A t \in {u \in Tasks : LimiterOf[u] = l} : Capacities[t] = 0
        /\ Credits(l) = 0
    BY DEF Init, Credits, Capacities, NoLease
  <2>3. /\ SumFunctionOnSet(served[l], Windows) = 0
        /\ SumFunctionOnSet(allotted[l], Windows) = 0
        /\ Coming(l) = 0
    BY <2>1, <2>2, SumOfZeros DEF Coming, Capacities
  <2>. QED
    BY <2>2, <2>3
<1>. QED
  BY <1>1, <1>2 DEF CreatedInv, NeverCreatesBudget

\* When one window of a limiter's account changes, so does its total, by as much.
LEMMA TotalChanges ==
  ASSUME NEW f, NEW g, f \in [Limiters -> [Windows -> Nat]],
         NEW l \in Limiters, NEW w \in Windows, g[l][w] \in Nat,
         \A v \in Windows \ {w} : g[l][v] = f[l][v]
  PROVE  SumFunctionOnSet(g[l], Windows)
           = SumFunctionOnSet(f[l], Windows) + (g[l][w] - f[l][w])
<1>1. PICK a, b : a = f[l] /\ b = g[l]
  OBVIOUS
<1>2. /\ b[w] \in Nat
      /\ \A v \in Windows \ {w} : b[v] = a[v]
      /\ \A v \in Windows : a[v] \in Nat
  BY <1>1
<1>3. Summable(a, Windows)
  BY <1>2, FS_Interval DEF Summable, Windows
<1>4. SumFunctionOnSet(b, Windows) = SumFunctionOnSet(a, Windows) + (b[w] - a[w])
  BY ONLY <1>2, <1>3, w \in Windows, SumWithOther
<1>. QED
  BY <1>1, <1>4

\* The grant of one task's reply changes from c to d units: so does what its
\* limiter has coming, and nothing else.
LEMMA ComingChanges ==
  ASSUME TypeInv, NEW t \in Tasks, NEW d \in Nat,
         lease'[t].capacity = d, \A u \in Tasks \ {t} : lease'[u] = lease[u]
  PROVE  /\ Coming(LimiterOf[t])' = Coming(LimiterOf[t]) + (d - lease[t].capacity)
         /\ \A m \in Limiters \ {LimiterOf[t]} : Coming(m)' = Coming(m)
         /\ \A m \in Limiters : Coming(m) \in Nat
<1>1. PICK a, b : a = Capacities /\ b = Capacities'
  OBVIOUS
<1>2. \A m \in Limiters : LET T == {u \in Tasks : LimiterOf[u] = m} IN
        Coming(m) = SumFunctionOnSet(a, T) /\ Coming(m)' = SumFunctionOnSet(b, T)
  BY <1>1 DEF Coming, Capacities
<1>3. /\ b[t] = d /\ a[t] = lease[t].capacity
      /\ \A u \in Tasks \ {t} : b[u] = a[u]
  BY <1>1 DEF Capacities
<1>4. ASSUME NEW m \in Limiters, m # LimiterOf[t]
      PROVE  Coming(m)' = Coming(m)
  <2>. DEFINE T == {u \in Tasks : LimiterOf[u] = m}
  <2>1. Summable(a, T)
    BY <1>1, TotalsAreSummable
  <2>2. \A u \in T : a[u] = b[u]
    BY <1>3, <1>4
  <2>. HIDE DEF T
  <2>3. SumFunctionOnSet(a, T) = SumFunctionOnSet(b, T)
    BY <2>1, <2>2, SumOfEqual
  <2>. QED
    BY <1>2, <2>3 DEF T
<1>5. Coming(LimiterOf[t])' = Coming(LimiterOf[t]) + (d - lease[t].capacity)
  <2>. DEFINE T == {u \in Tasks : LimiterOf[u] = LimiterOf[t]}
  <2>1. Summable(a, T) /\ t \in T
    BY <1>1, TotalsAreSummable
  <2>2. b[t] \in Nat /\ \A u \in T \ {t} : b[u] = a[u]
    BY <1>3
  <2>. HIDE FleetAssumption DEF T
  <2>3. SumFunctionOnSet(b, T) = SumFunctionOnSet(a, T) + (b[t] - a[t])
    BY ONLY <2>1, <2>2, SumWithOther
  <2>4. LimiterOf[t] \in Limiters
    BY FleetAssumption
  <2>. QED
    BY <1>2, <1>3, <2>3, <2>4 DEF T
<1>6. ASSUME NEW m \in Limiters
      PROVE  Coming(m) \in Nat
  <2>. DEFINE T == {u \in Tasks : LimiterOf[u] = m}
  <2>1. Summable(a, T)
    BY <1>1, TotalsAreSummable
  <2>. HIDE DEF T
  <2>2. SumFunctionOnSet(a, T) \in Nat
    BY <2>1, SumIsNat
  <2>. QED
    BY <1>2, <2>2 DEF T
<1>. QED
  BY <1>4, <1>5, <1>6

\* A pass of the loop's head spends no more than the credits it began with.
LEMMA TrySpendTotal ==
  ASSUME TypeInv, NEW t \in Tasks, NEW l, l = LimiterOf[t], NEW s \in Spender,
         s.credits > 0 => s.expiresAt \in Windows,
         NEW now \in Int, NEW c \in Int, TrySpend(t, s, now, c)
  PROVE  \E r \in Spender, n \in Nat, w \in Windows :
           /\ spender' = [spender EXCEPT ![l] = r]
           /\ served' = [served EXCEPT ![l][w] = @ + n]
           /\ r.credits + n <= s.credits
           /\ lease' = [lease EXCEPT ![t] = NoLease]
           /\ \A u \in Tasks \ {t} : pc'[u] = pc[u]
<1>1. /\ l \in Limiters /\ boundary \in Windows
      /\ served \in [Limiters -> [Windows -> Nat]]
      /\ pc \in [Tasks -> {"idle", "sent", "replied"}]
      /\ s.credits \in Nat
  BY DEF TypeInv, TypeOK, Spender
<1>2. served = [served EXCEPT ![l][boundary] = @ + 0]
  BY <1>1
<1>3. CASE Reject(t, s, c)
  <2>1. /\ spender' = [spender EXCEPT ![l] = s]
        /\ lease' = [lease EXCEPT ![t] = NoLease]
        /\ \A u \in Tasks \ {t} : pc'[u] = pc[u]
        /\ served' = served
    BY <1>1, <1>3 DEF Reject, Return
  <2>2. served' = [served EXCEPT ![l][boundary] = @ + 0] /\ s.credits + 0 <= s.credits
    BY <1>1, <1>2, <2>1
  <2>. QED
    BY <1>1, <2>1, <2>2
<1>4. CASE Serve(t, s, now, c)
  <2>0. c \in Nat
    BY <1>4 DEF Serve, ValidCost
  <2>1. /\ s.expiresAt \in Windows
        /\ AfterSpend(s, now, c) \in Spender
        /\ AfterSpend(s, now, c) = [s EXCEPT !.credits = s.credits - c]
    BY <1>4, ServesCurrent, AfterSpendType DEF Serve
  <2>2. AfterSpend(s, now, c).credits + c <= s.credits
    BY <1>1, <2>0, <2>1 DEF Spender
  <2>3. /\ spender' = [spender EXCEPT ![l] = AfterSpend(s, now, c)]
        /\ served' = [served EXCEPT ![l][s.expiresAt] = @ + c]
        /\ lease' = [lease EXCEPT ![t] = NoLease]
        /\ \A u \in Tasks \ {t} : pc'[u] = pc[u]
    BY <1>1, <1>4 DEF Serve, Return
  <2>. QED
    BY <2>0, <2>1, <2>2, <2>3
<1>5. CASE Refresh(t, s, now, c)
  <2>1. /\ AfterSpend(s, now, c) \in Spender
        /\ AfterSpend(s, now, c).credits <= s.credits
    BY <1>5, AfterSpendType DEF Refresh
  <2>2. /\ spender' = [spender EXCEPT ![l] = AfterSpend(s, now, c)]
        /\ lease' = [lease EXCEPT ![t] = NoLease]
        /\ \A u \in Tasks \ {t} : pc'[u] = pc[u]
        /\ served' = served
    BY <1>1, <1>5 DEF Refresh, Ask
  <2>3. AfterSpend(s, now, c).credits + 0 <= s.credits
    BY <1>1, <2>1 DEF Spender
  <2>4. served' = [served EXCEPT ![l][boundary] = @ + 0]
    BY <1>2, <2>2
  <2>. QED
    BY <1>1, <2>1, <2>2, <2>3, <2>4
<1>. QED
  BY <1>3, <1>4, <1>5 DEF TrySpend

\* A step of a task of limiter l that ends its wait, if it was waiting, and
\* serves no more than the credits it finds and the grant it was sent.
LEMMA CreatedClientStep ==
  ASSUME TypeInv, CreatedInv, NEW t \in Tasks, NEW l \in Limiters, l = LimiterOf[t],
         NEW n \in Nat, NEW w \in Windows,
         served' = [served EXCEPT ![l][w] = @ + n],
         allotted' = allotted,
         \A m \in Limiters \ {l} : Credits(m)' = Credits(m),
         Credits(l)' \in Nat, Credits(l)' + n <= Credits(l) + lease[t].capacity,
         lease' = [lease EXCEPT ![t] = NoLease],
         \A u \in Tasks \ {t} : pc'[u] = pc[u]
  PROVE  CreatedInv'
<1>1. /\ served \in [Limiters -> [Windows -> Nat]]
      /\ lease \in [Tasks -> Grant]
      /\ lease[t].capacity \in Nat
  BY DEF TypeInv, TypeOK, Grant
<1>2. /\ lease'[t] = NoLease /\ lease'[t].capacity = 0
      /\ \A u \in Tasks \ {t} : lease'[u] = lease[u]
  BY <1>1 DEF NoLease
<1>3. LeaseIsReply'
  BY <1>2 DEF CreatedInv, LeaseIsReply
<1>4. /\ SumFunctionOnSet(served'[l], Windows) = SumFunctionOnSet(served[l], Windows) + n
      /\ \A m \in Limiters \ {l} : served'[m] = served[m]
  <2>1. /\ served'[l][w] = served[l][w] + n
        /\ served'[l][w] \in Nat /\ served[l][w] \in Nat
        /\ \A v \in Windows \ {w} : served'[l][v] = served[l][v]
        /\ \A m \in Limiters \ {l} : served'[m] = served[m]
    BY <1>1
  <2>2. SumFunctionOnSet(served'[l], Windows)
          = SumFunctionOnSet(served[l], Windows) + (served'[l][w] - served[l][w])
    BY ONLY <1>1, <2>1, l \in Limiters, w \in Windows, TotalChanges
  <2>. QED
    BY <2>1, <2>2
<1>5. /\ Coming(l)' = Coming(l) + (0 - lease[t].capacity)
      /\ \A m \in Limiters \ {l} : Coming(m)' = Coming(m)
      /\ \A m \in Limiters : Coming(m) \in Nat
  BY <1>2, ComingChanges
<1>6. ASSUME NEW m \in Limiters
      PROVE  SumFunctionOnSet(served'[m], Windows) + Credits(m)' + Coming(m)'
               <= SumFunctionOnSet(allotted'[m], Windows)
  <2>1. /\ SumFunctionOnSet(served[m], Windows) + Credits(m) + Coming(m)
             <= SumFunctionOnSet(allotted[m], Windows)
        /\ SumFunctionOnSet(served[m], Windows) \in Nat
        /\ SumFunctionOnSet(allotted[m], Windows) \in Nat
        /\ Coming(m) \in Nat
    BY <1>5, TotalsAreSummable, SumIsNat DEF CreatedInv, NeverCreatesBudget
  <2>2. Credits(m) \in Nat
    BY DEF Credits, TypeInv, TypeOK, Spender
  <2>3. CASE m = l
    BY <1>1, <1>4, <1>5, <2>1, <2>2, <2>3
  <2>4. CASE m # l
    BY <1>4, <1>5, <2>1, <2>4
  <2>. QED
    BY <2>3, <2>4
<1>. QED
  BY <1>3, <1>6 DEF CreatedInv, NeverCreatesBudget

LEMMA CreatedInvStep ==
  ASSUME TypeInv, CreatedInv, [Next]_vars
  PROVE  CreatedInv'
<1>0. /\ pc \in [Tasks -> {"idle", "sent", "replied"}]
      /\ spender \in [Limiters -> Spender \cup {NoSpender}]
      /\ lease \in [Tasks -> Grant]
      /\ served \in [Limiters -> [Windows -> Nat]]
      /\ allotted \in [Limiters -> [Windows -> Nat]]
      /\ boundary \in Windows
      /\ \A m \in Limiters : served = [served EXCEPT ![m][boundary] = @ + 0]
      /\ \A m \in Limiters : Credits(m) \in Nat
      /\ \A u \in Tasks : lease[u].capacity \in Nat
  BY DEF TypeInv, TypeOK, Credits, Spender, Grant
<1>1. ASSUME NEW t \in Tasks, NEW c \in Costs, NEW drift \in Drifts, Call(t, c, drift)
      PROVE  CreatedInv'
  <2>. DEFINE l == LimiterOf[t]
              s == spender[l]
              now == clock + drift
  <2>1. /\ l \in Limiters /\ allotted' = allotted
        /\ now \in Int /\ c \in Int
        /\ lease[t].capacity = 0
    BY <1>1 DEF Call, serverVars, TypeInv, TypeOK, CreatedInv, LeaseIsReply, NoLease
  <2>2. CASE s = NoSpender /\ Ask(t) /\ UNCHANGED spender
    <3>1. /\ served' = [served EXCEPT ![l][boundary] = @ + 0]
          /\ lease' = [lease EXCEPT ![t] = NoLease]
          /\ \A u \in Tasks \ {t} : pc'[u] = pc[u]
      BY <1>0, <2>1, <2>2 DEF Ask
    <3>2. \A m \in Limiters : Credits(m)' = Credits(m)
      BY <2>2 DEF Credits
    <3>3. Credits(l)' \in Nat /\ Credits(l)' + 0 <= Credits(l) + lease[t].capacity
      BY <1>0, <2>1, <3>2
    <3>. HIDE DEF l
    <3>4. l = LimiterOf[t]
      BY DEF l
    <3>. QED
      BY <1>0, <2>1, <3>1, <3>2, <3>3, <3>4, CreatedClientStep
  <2>3. CASE s # NoSpender /\ TrySpend(t, s, now, c)
    <3>1. /\ s \in Spender /\ s.credits = Credits(l)
          /\ s.credits > 0 => s.expiresAt \in Windows
      BY <1>0, <2>1, <2>3 DEF TypeInv, CreditsHaveWindow, Credits
    <3>. HIDE DEF s, now, l
    <3>2. l = LimiterOf[t]
      BY DEF l
    <3>3. PICK r \in Spender, n \in Nat, w \in Windows :
            /\ spender' = [spender EXCEPT ![l] = r]
            /\ served' = [served EXCEPT ![l][w] = @ + n]
            /\ r.credits + n <= s.credits
            /\ lease' = [lease EXCEPT ![t] = NoLease]
            /\ \A u \in Tasks \ {t} : pc'[u] = pc[u]
      BY <2>1, <2>3, <3>1, <3>2, TrySpendTotal
    <3>4. /\ \A m \in Limiters \ {l} : Credits(m)' = Credits(m)
          /\ Credits(l)' = r.credits /\ r.credits \in Nat
      BY <1>0, <2>1, <3>3 DEF Credits, Spender
    <3>5. Credits(l)' \in Nat /\ Credits(l)' + n <= Credits(l) + lease[t].capacity
      BY <1>0, <2>1, <3>1, <3>3, <3>4
    <3>. QED
      BY <2>1, <3>2, <3>3, <3>4, <3>5, CreatedClientStep
  <2>. QED
    BY <1>1, <2>2, <2>3 DEF Call
<1>2. ASSUME NEW t \in Tasks, ServerReserve(t)
      PROVE  CreatedInv'
  <2>. DEFINE l == LimiterOf[t]
  <2>1. PICK n \in Nat :
          /\ lease' = [lease EXCEPT ![t] = [capacity |-> n, expiresAt |-> boundary]]
          /\ allotted' = [allotted EXCEPT ![l][boundary] = @ + n]
    BY <1>2, ServerReserveGrant
  <2>2. /\ pc[t] = "sent" /\ pc' = [pc EXCEPT ![t] = "replied"]
        /\ served' = served /\ spender' = spender /\ boundary' = boundary
        /\ l \in Limiters
    BY <1>2 DEF ServerReserve
  <2>3. LeaseIsReply'
    BY <1>0, <2>1, <2>2 DEF CreatedInv, LeaseIsReply
  <2>4. lease[t].capacity = 0
    BY <2>2 DEF CreatedInv, LeaseIsReply, NoLease
  <2>5. /\ Coming(l)' = Coming(l) + (n - 0)
        /\ \A m \in Limiters \ {l} : Coming(m)' = Coming(m)
        /\ \A m \in Limiters : Coming(m) \in Nat
    <3>1. lease'[t].capacity = n /\ \A u \in Tasks \ {t} : lease'[u] = lease[u]
      BY <1>0, <2>1
    <3>. QED
      BY <2>4, <3>1, ComingChanges
  <2>6. /\ allotted'[l][boundary] = allotted[l][boundary] + n
        /\ allotted'[l][boundary] \in Nat /\ allotted[l][boundary] \in Nat
        /\ \A v \in Windows \ {boundary} : allotted'[l][v] = allotted[l][v]
        /\ \A m \in Limiters \ {l} : allotted'[m] = allotted[m]
    BY <1>0, <2>1, <2>2
  <2>7. SumFunctionOnSet(allotted'[l], Windows)
          = SumFunctionOnSet(allotted[l], Windows)
              + (allotted'[l][boundary] - allotted[l][boundary])
    <3>1. allotted \in [Limiters -> [Windows -> Nat]] /\ boundary \in Windows /\ l \in Limiters
      BY <1>0, <2>2
    <3>. HIDE DEF l
    <3>. QED
      BY ONLY <2>6, <3>1, TotalChanges
  <2>8. \A m \in Limiters : Credits(m)' = Credits(m)
    BY <2>2 DEF Credits
  <2>9. ASSUME NEW m \in Limiters
        PROVE  SumFunctionOnSet(served'[m], Windows) + Credits(m)' + Coming(m)'
                 <= SumFunctionOnSet(allotted'[m], Windows)
    <3>1. /\ SumFunctionOnSet(served[m], Windows) + Credits(m) + Coming(m)
               <= SumFunctionOnSet(allotted[m], Windows)
          /\ SumFunctionOnSet(served[m], Windows) \in Nat
          /\ SumFunctionOnSet(allotted[m], Windows) \in Nat
          /\ Coming(m) \in Nat /\ Credits(m) \in Nat
      BY <1>0, <2>5, TotalsAreSummable, SumIsNat DEF CreatedInv, NeverCreatesBudget
    <3>2. CASE m = l
      BY <2>2, <2>5, <2>6, <2>7, <2>8, <3>1, <3>2
    <3>3. CASE m # l
      BY <2>2, <2>5, <2>6, <2>8, <3>1, <3>3
    <3>. QED
      BY <3>2, <3>3
  <2>. QED
    BY <2>3, <2>9 DEF CreatedInv, NeverCreatesBudget
<1>3. ASSUME NEW t \in Tasks, Denied(t)
      PROVE  CreatedInv'
  <2>. DEFINE l == LimiterOf[t]
  <2>1. l \in Limiters
    OBVIOUS
  <2>2. PICK r \in Spender : r = SpenderOnReply(l) /\ r.credits = Credits(l)
    BY <2>1, SpenderOnReplyType
  <2>3. /\ spender' = [spender EXCEPT ![l] = r]
        /\ served' = [served EXCEPT ![l][boundary] = @ + 0]
        /\ allotted' = allotted
        /\ lease' = [lease EXCEPT ![t] = NoLease]
        /\ \A u \in Tasks \ {t} : pc'[u] = pc[u]
    BY <1>0, <1>3, <2>1, <2>2 DEF Denied, Return, serverVars
  <2>4. \A m \in Limiters : Credits(m)' = Credits(m)
    BY <1>0, <2>1, <2>2, <2>3 DEF Credits
  <2>5. Credits(l)' \in Nat /\ Credits(l)' + 0 <= Credits(l) + lease[t].capacity
    BY <1>0, <2>1, <2>4
  <2>. HIDE DEF l
  <2>6. l = LimiterOf[t]
    BY DEF l
  <2>. QED
    BY <1>0, <2>1, <2>3, <2>4, <2>5, <2>6, CreatedClientStep
<1>4. ASSUME NEW t \in Tasks, Granted(t)
      PROVE  CreatedInv'
  <2>. DEFINE l == LimiterOf[t]
  <2>1. /\ l \in Limiters
        /\ lease[t] \in Grant /\ lease[t].expiresAt \in Windows
        /\ ts[t] \in Int /\ cost[t] \in Int
        /\ allotted' = allotted
    BY <1>4 DEF Granted, TypeInv, TypeOK, RepliesHaveWindow, serverVars
  <2>2. PICK s \in Spender :
          /\ s = ApplyLease(SpenderOnReply(l), lease[t])
          /\ s.credits = Credits(l) + lease[t].capacity
          /\ s.expiresAt \in Windows
    BY <2>1, SpenderOnReplyType, ApplyLeaseType
  <2>3. ASSUME NEW r \in Spender, NEW n \in Nat, NEW w \in Windows,
               spender' = [spender EXCEPT ![l] = r],
               served' = [served EXCEPT ![l][w] = @ + n],
               r.credits + n <= s.credits,
               lease' = [lease EXCEPT ![t] = NoLease],
               \A u \in Tasks \ {t} : pc'[u] = pc[u]
        PROVE  CreatedInv'
    <3>1. /\ \A m \in Limiters \ {l} : Credits(m)' = Credits(m)
          /\ Credits(l)' = r.credits /\ r.credits \in Nat
      BY <1>0, <2>1, <2>3 DEF Credits, Spender
    <3>2. Credits(l)' \in Nat /\ Credits(l)' + n <= Credits(l) + lease[t].capacity
      BY <1>0, <2>1, <2>2, <2>3, <3>1
    <3>. HIDE DEF l
    <3>3. l = LimiterOf[t]
      BY DEF l
    <3>. QED
      BY <2>1, <2>3, <3>1, <3>2, <3>3, CreatedClientStep
  <2>4. CASE TrySpend(t, s, ts[t], cost[t])
    <3>. HIDE DEF l
    <3>1. l = LimiterOf[t]
      BY DEF l
    <3>2. PICK r \in Spender, n \in Nat, w \in Windows :
            /\ spender' = [spender EXCEPT ![l] = r]
            /\ served' = [served EXCEPT ![l][w] = @ + n]
            /\ r.credits + n <= s.credits
            /\ lease' = [lease EXCEPT ![t] = NoLease]
            /\ \A u \in Tasks \ {t} : pc'[u] = pc[u]
      BY <2>1, <2>2, <2>4, <3>1, TrySpendTotal
    <3>. QED
      BY <2>3, <3>2
  <2>5. CASE /\ spender' = [spender EXCEPT ![l] = s]
             /\ Return(t, "exhausted", 0)
             /\ UNCHANGED served
    <3>1. /\ served' = [served EXCEPT ![l][boundary] = @ + 0]
          /\ s.credits + 0 <= s.credits
          /\ lease' = [lease EXCEPT ![t] = NoLease]
          /\ \A u \in Tasks \ {t} : pc'[u] = pc[u]
      BY <1>0, <2>1, <2>2, <2>5 DEF Return, Spender
    <3>. QED
      BY <1>0, <2>3, <2>5, <3>1
  <2>. QED
    BY <1>4, <2>2, <2>4, <2>5 DEF Granted
<1>5. ASSUME NEW t \in Tasks, RpcFails(t)
      PROVE  CreatedInv'
  <2>. DEFINE l == LimiterOf[t]
  <2>1. /\ l \in Limiters
        /\ served' = [served EXCEPT ![l][boundary] = @ + 0]
        /\ allotted' = allotted /\ spender' = spender
        /\ lease' = [lease EXCEPT ![t] = NoLease]
        /\ \A u \in Tasks \ {t} : pc'[u] = pc[u]
    BY <1>0, <1>5 DEF RpcFails, Return, serverVars
  <2>2. \A m \in Limiters : Credits(m)' = Credits(m)
    BY <2>1 DEF Credits
  <2>3. Credits(l)' \in Nat /\ Credits(l)' + 0 <= Credits(l) + lease[t].capacity
    BY <1>0, <2>1, <2>2
  <2>. HIDE DEF l
  <2>4. l = LimiterOf[t]
    BY DEF l
  <2>. QED
    BY <1>0, <2>1, <2>2, <2>3, <2>4, CreatedClientStep
<1>6. ASSUME NEW l \in Limiters, Crash(l)
      PROVE  CreatedInv'
  <2>1. /\ spender' = [spender EXCEPT ![l] = NoSpender]
        /\ \A u \in Tasks : IF LimiterOf[u] = l
                             THEN pc'[u] = "idle" /\ lease'[u] = NoLease
                             ELSE pc'[u] = pc[u] /\ lease'[u] = lease[u]
        /\ UNCHANGED <<served, allotted>>
    BY <1>6 DEF Crash, serverVars
  <2>2. LeaseIsReply'
    BY <2>1 DEF CreatedInv, LeaseIsReply
  <2>3. ASSUME NEW m \in Limiters
        PROVE  Coming(m)' <= Coming(m) /\ Coming(m)' \in Nat /\ Coming(m) \in Nat
    <3>. DEFINE T == {u \in Tasks : LimiterOf[u] = m}
    <3>1. PICK a, b : a = Capacities /\ b = Capacities'
      OBVIOUS
    <3>2. Summable(a, T)
      BY <3>1, TotalsAreSummable
    <3>3. \A u \in T : b[u] \in Nat /\ a[u] \in Nat /\ b[u] <= a[u]
      BY <1>0, <2>1, <3>1 DEF Capacities, NoLease
    <3>4. Summable(b, T)
      BY <3>2, <3>3 DEF Summable
    <3>5. Coming(m) = SumFunctionOnSet(a, T) /\ Coming(m)' = SumFunctionOnSet(b, T)
      BY <3>1 DEF Coming, Capacities
    <3>. HIDE DEF T
    <3>6. SumFunctionOnSet(b, T) <= SumFunctionOnSet(a, T)
      BY ONLY <3>2, <3>3, <3>4, SumIsMonotone
    <3>. QED
      BY <3>2, <3>4, <3>5, <3>6, SumIsNat
  <2>4. \A m \in Limiters : Credits(m)' <= Credits(m) /\ Credits(m)' \in Nat
    BY <1>0, <2>1 DEF Credits
  <2>5. ASSUME NEW m \in Limiters
        PROVE  SumFunctionOnSet(served'[m], Windows) + Credits(m)' + Coming(m)'
                 <= SumFunctionOnSet(allotted'[m], Windows)
    <3>1. /\ SumFunctionOnSet(served[m], Windows) + Credits(m) + Coming(m)
               <= SumFunctionOnSet(allotted[m], Windows)
          /\ SumFunctionOnSet(served[m], Windows) \in Nat
          /\ SumFunctionOnSet(allotted[m], Windows) \in Nat
          /\ Credits(m) \in Nat
      BY <1>0, TotalsAreSummable, SumIsNat DEF CreatedInv, NeverCreatesBudget
    <3>. QED
      BY <2>1, <2>3, <2>4, <3>1
  <2>. QED
    BY <2>2, <2>5 DEF CreatedInv, NeverCreatesBudget
<1>7. CASE Tick \/ UNCHANGED vars
  BY <1>7 DEF Tick, vars, CreatedInv, NeverCreatesBudget, LeaseIsReply, Credits, Coming
<1>. QED
  BY <1>1, <1>2, <1>3, <1>4, <1>5, <1>6, <1>7 DEF Next, Check, Reply

\* A limiter never has more than the server gave it, over all windows: what it
\* served, holds as credits and has coming is within what it was granted, for
\* any number of overlapping callers, any costs and drifts, whatever replies are
\* lost, calls cancelled and processes restarted.
THEOREM NoBudgetIsCreated == Spec => []NeverCreatesBudget
<1>1. TypeInv /\ CreatedInv /\ [Next]_vars => CreatedInv'
  BY CreatedInvStep
<1>2. CreatedInv => NeverCreatesBudget
  BY DEF CreatedInv
<1>. QED
  BY <1>1, <1>2, CreatedInvInit, TypeInvAlways, PTL DEF Spec
=============================================================================
