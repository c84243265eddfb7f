----------------------------- MODULE FleetLease -----------------------------
(***************************************************************************)
(* Tier-2 leasing: a fleet of LeasedLimiter clients that spend chunks of   *)
(* one global per-window budget locally and go back to the Fleet server    *)
(* only to refresh (throttlekit/fleet_backend.py and its asyncio twin,     *)
(* fleet_backend_async.py).                                                *)
(*                                                                         *)
(* A limiter is shared by the tasks (callers of check) of its process.     *)
(* Between two awaits a task runs alone, so one step of the model is the   *)
(* code from one await of Reserve to the next one or to the answer.  With  *)
(* one task per limiter the model is also the synchronous limiter called   *)
(* by one thread.                                                          *)
(*                                                                         *)
(* The server is outside the repository: it is modelled from the contract  *)
(* the client is written against, grant = min(wants, what is left of the   *)
(* current window).  allotted and served are history variables that        *)
(* charge every unit to the window it was granted for.                     *)
(***************************************************************************)
EXTENDS LeaseSpender

CONSTANTS
  Limiters,     \* LeasedLimiter instances, each in its own process
  Tasks,        \* concurrent callers of check()
  LimiterOf,    \* the limiter a task calls
  Costs,        \* the costs callers pass
  Batch,        \* units leased per refresh
  MaxRounds,    \* _MAX_ROUNDS: refreshes one call may make
  Drifts,       \* how far a client's clock reading may be from the server's
  Limit,        \* the policy's global ceiling for one window
  WindowMs,     \* length of a window
  MaxTime,      \* bound of the model: the clock stops here
  Hanging,      \* the tasks whose Reserve may never be answered
  NoSpender     \* Python's None in LeasedLimiter._spender

ASSUME FleetAssumption ==
  /\ LimiterOf \in [Tasks -> Limiters]
  /\ Costs \subseteq Int
  /\ Drifts \subseteq Int
  /\ Batch \in Nat \ {0}
  /\ MaxRounds \in Nat \ {0}
  /\ Limit \in Nat
  /\ WindowMs \in Nat \ {0}
  /\ MaxTime \in Nat
  /\ Hanging \subseteq Tasks
  /\ NoSpender \notin Spender

VARIABLES
  clock,     \* the server's clock
  boundary,  \* the end of the server's current window
  granted,   \* granted[w]: units of the window ending at w leased so far
  spender,   \* spender[l]: the limiter's LeaseSpender, or NoSpender
  pc,        \* pc[t]: where the task is
  cost,      \* cost[t]: the argument of the call in progress
  ts,        \* ts[t]: the clock reading of the call in progress
  rounds,    \* rounds[t]: refreshes made by the call in progress
  lease,     \* lease[t]: the grant in the reply on its way to the task
  answer,    \* answer[t]: what the call returned or raised, until the next one
  allotted,  \* allotted[l][w]: units of window w granted to the limiter
  served     \* served[l][w]: units served with reset_at = w

serverVars == <<clock, boundary, granted, allotted>>
callVars   == <<cost, ts>>
vars == <<clock, boundary, granted, spender, pc, cost, ts, rounds, lease,
          answer, allotted, served>>

\* A window is named by its end, the lease's expiry_ms.
Windows == 1 .. (MaxTime + WindowMs)

NoLease == [capacity |-> 0, expiresAt |-> 0]
Nothing == [kind |-> "nothing", resetAt |-> 0]

Answers == [kind : {"nothing", "allow", "deny", "invalid", "unavailable", "exhausted"},
            resetAt : Int]

Credits(l) == IF spender[l] = NoSpender THEN 0 ELSE spender[l].credits

Larger(a, b)  == IF a >= b THEN a ELSE b
Smaller(a, b) == IF a <= b THEN a ELSE b

TypeOK ==
  /\ clock \in 0 .. MaxTime
  /\ boundary \in Windows
  /\ granted \in [Windows -> 0 .. Limit]
  /\ spender \in [Limiters -> Spender \cup {NoSpender}]
  /\ pc \in [Tasks -> {"idle", "sent", "replied"}]
  /\ cost \in [Tasks -> Int]
  /\ ts \in [Tasks -> Int]
  /\ rounds \in [Tasks -> 0 .. MaxRounds]
  /\ lease \in [Tasks -> Grant]
  /\ answer \in [Tasks -> Answers]
  /\ allotted \in [Limiters -> [Windows -> Nat]]
  /\ served \in [Limiters -> [Windows -> Nat]]

Init ==
  /\ clock = 0
  /\ boundary = WindowMs
  /\ granted = [w \in Windows |-> 0]
  /\ spender = [l \in Limiters |-> NoSpender]
  /\ pc = [t \in Tasks |-> "idle"]
  /\ cost = [t \in Tasks |-> 0]
  /\ ts = [t \in Tasks |-> 0]
  /\ rounds = [t \in Tasks |-> 0]
  /\ lease = [t \in Tasks |-> NoLease]
  /\ answer = [t \in Tasks |-> Nothing]
  /\ allotted = [l \in Limiters |-> [w \in Windows |-> 0]]
  /\ served = [l \in Limiters |-> [w \in Windows |-> 0]]

-----------------------------------------------------------------------------
(* The pieces of check().  s is the limiter's spender when the piece runs, *)
(* now and c are the call's clock reading and cost.                        *)

\* The call ends.
Return(t, kind, resetAt) ==
  /\ pc' = [pc EXCEPT ![t] = "idle"]
  /\ rounds' = [rounds EXCEPT ![t] = 0]
  /\ lease' = [lease EXCEPT ![t] = NoLease]
  /\ answer' = [answer EXCEPT ![t] = [kind |-> kind, resetAt |-> resetAt]]

\* The call starts one more refresh and is suspended.
Ask(t) ==
  /\ pc' = [pc EXCEPT ![t] = "sent"]
  /\ rounds' = [rounds EXCEPT ![t] = @ + 1]
  /\ lease' = [lease EXCEPT ![t] = NoLease]
  /\ answer' = [answer EXCEPT ![t] = Nothing]
  /\ UNCHANGED served

\* _require_cost raises before anything is spent.
Reject(t, s, c) ==
  /\ ~ ValidCost(c)
  /\ spender' = [spender EXCEPT ![LimiterOf[t]] = s]
  /\ Return(t, "invalid", 0)
  /\ UNCHANGED served

\* Credits suffice: a local allow whose reset_at is the window of the credits.
Serve(t, s, now, c) ==
  LET l == LimiterOf[t] IN
  /\ ValidCost(c)
  /\ Serves(s, now, c)
  /\ spender' = [spender EXCEPT ![l] = AfterSpend(s, now, c)]
  /\ served' = [served EXCEPT ![l][s.expiresAt] = @ + c]
  /\ Return(t, "allow", s.expiresAt)

\* Fault: the server is asked although the credits suffice.
RefreshEarly(t, s, now, c) ==
  /\ ValidCost(c)
  /\ spender' = [spender EXCEPT ![LimiterOf[t]] = s]
  /\ Ask(t)

\* Fault: a shortfall of the lease on hand is answered with a denial.
RefreshDenies(t, s, now, c) ==
  /\ ValidCost(c)
  /\ ~ Serves(s, now, c)
  /\ spender' = [spender EXCEPT ![LimiterOf[t]] = AfterSpend(s, now, c)]
  /\ \/ /\ s.expiresAt # NoInstant
        /\ Return(t, "deny", s.expiresAt)
        /\ UNCHANGED served
     \/ /\ s.expiresAt = NoInstant
        /\ Ask(t)

\* spend() returned None: reserve again.
Refresh(t, s, now, c) ==
  /\ ValidCost(c)
  /\ ~ Serves(s, now, c)
  /\ spender' = [spender EXCEPT ![LimiterOf[t]] = AfterSpend(s, now, c)]
  /\ Ask(t)

\* The head of the loop, up to the answer or to the next await.
TrySpend(t, s, now, c) ==
  \/ Reject(t, s, c)
  \/ Serve(t, s, now, c)
  \/ Refresh(t, s, now, c)

-----------------------------------------------------------------------------

\* check() is called: the clock is read once, for the whole call.  The first
\* call of a limiter has no spender to ask (nor to validate the cost).
Call(t, c, drift) ==
  LET s == spender[LimiterOf[t]]
      now == clock + drift
  IN /\ pc[t] = "idle"
     /\ cost' = [cost EXCEPT ![t] = c]
     /\ ts' = [ts EXCEPT ![t] = now]
     /\ \/ s = NoSpender /\ Ask(t) /\ UNCHANGED spender
        \/ s # NoSpender /\ TrySpend(t, s, now, c)
     /\ UNCHANGED serverVars

\* The server handles Reserve: min(wants, available), for its current window.
ServerReserve(t) ==
  LET l == LimiterOf[t]
      wants == Larger(cost[t], Batch)
      capacity == Smaller(wants, Limit - granted[boundary])
  IN /\ pc[t] = "sent"
     /\ pc' = [pc EXCEPT ![t] = "replied"]
     /\ lease' = [lease EXCEPT ![t] = [capacity |-> capacity, expiresAt |-> boundary]]
     /\ granted' = [granted EXCEPT ![boundary] = @ + capacity]
     /\ allotted' = [allotted EXCEPT ![l][boundary] = @ + capacity]
     /\ UNCHANGED <<clock, boundary, spender, cost, ts, rounds, answer, served>>

\* Fault: a new spender starts with the batch it asked for, and the grant is
\* added to it.
SpenderPrefilled(l) ==
  IF spender[l] = NoSpender THEN [Fresh EXCEPT !.credits = Batch] ELSE spender[l]

\* The limiter's spender when the task resumes, built on the first reply.
SpenderOnReply(l) == IF spender[l] = NoSpender THEN Fresh ELSE spender[l]

\* Fault: a refusal is retried, and the retry does not count as a round.
DeniedRetries(t) ==
  /\ pc[t] = "replied"
  /\ lease[t].capacity = 0
  /\ pc' = [pc EXCEPT ![t] = "sent"]
  /\ UNCHANGED <<serverVars, callVars, spender, rounds, lease, answer, served>>

\* The reply is a refusal: it is the answer, whatever credits there are by now.
Denied(t) ==
  LET l == LimiterOf[t] IN
  /\ pc[t] = "replied"
  /\ lease[t].capacity = 0
  /\ spender' = [spender EXCEPT ![l] = SpenderOnReply(l)]
  /\ Return(t, "deny", lease[t].expiresAt)
  /\ UNCHANGED <<serverVars, callVars, served>>

\* The reply is a grant: it is applied and the loop goes round, with the
\* clock reading the call began with.  The grant of the last round is applied
\* but no longer tried.
Granted(t) ==
  LET l == LimiterOf[t]
      s == ApplyLease(SpenderOnReply(l), lease[t])
  IN /\ pc[t] = "replied"
     /\ lease[t].capacity > 0
     /\ \/ /\ rounds[t] < MaxRounds
           /\ TrySpend(t, s, ts[t], cost[t])
        \/ /\ rounds[t] = MaxRounds
           /\ spender' = [spender EXCEPT ![l] = s]
           /\ Return(t, "exhausted", 0)
           /\ UNCHANGED served
     /\ UNCHANGED <<serverVars, callVars>>

\* The RPC fails, or its task is cancelled: before the server saw the request
\* or after it granted it, in which case the grant is lost.
RpcFails(t) ==
  /\ pc[t] \in {"sent", "replied"}
  /\ Return(t, "unavailable", 0)
  /\ UNCHANGED <<serverVars, callVars, spender, served>>

\* The limiter's process dies and starts again, with no spender.
Crash(l) ==
  LET its(f, v) == [t \in Tasks |-> IF LimiterOf[t] = l THEN v ELSE f[t]] IN
  /\ spender' = [spender EXCEPT ![l] = NoSpender]
  /\ pc' = its(pc, "idle")
  /\ cost' = its(cost, 0)
  /\ ts' = its(ts, 0)
  /\ rounds' = its(rounds, 0)
  /\ lease' = its(lease, NoLease)
  /\ answer' = its(answer, Nothing)
  /\ UNCHANGED <<serverVars, served>>

\* Time passes; a new window begins at the end of the current one.
Tick ==
  /\ clock < MaxTime
  /\ clock' = clock + 1
  /\ boundary' = IF clock' = boundary THEN boundary + WindowMs ELSE boundary
  /\ UNCHANGED <<granted, allotted, spender, pc, cost, ts, rounds, lease, answer, served>>

Check(t) == \E c \in Costs, drift \in Drifts : Call(t, c, drift)
Reply(t) == Denied(t) \/ Granted(t)

Next ==
  \/ \E t \in Tasks : Check(t) \/ ServerReserve(t) \/ Reply(t) \/ RpcFails(t)
  \/ \E l \in Limiters : Crash(l)
  \/ Tick

Spec == Init /\ [][Next]_vars

-----------------------------------------------------------------------------
(* How callers may use the limiters, and the fairness of a run.            *)

\* One call at a time per limiter: one task each.
SerialUse == \A t, u \in Tasks : LimiterOf[t] = LimiterOf[u] => t = u

\* No call costs more than one unit.
UnitCosts == \A c \in Costs : c <= 1

\* No client reads a clock that is ahead of the server's.
NoFastClock == \A drift \in Drifts : drift <= 0

\* gRPC answers a Reserve or reports it failed, unless the server holds on to it:
\* the call has no deadline.  The event loop then resumes the task.
Answered(t) == ServerReserve(t) \/ RpcFails(t)

FairSpec ==
  /\ Spec
  /\ \A t \in Tasks : WF_vars(Reply(t)) /\ (t \notin Hanging => WF_vars(Answered(t)))

-----------------------------------------------------------------------------
(* Properties.                                                             *)

\* A limiter serves, in each window, no more than the server granted it for
\* that window: discarding the remainder at the boundary leaves nothing to
\* carry over.  Of apply_lease's "+=" and spend()'s discard, under serial use
\* and unit costs.
PerWindow == \A l \in Limiters, w \in Windows : served[l][w] <= allotted[l][w]

\* A local allow is never stamped with a window already over at the call's
\* clock reading: spend() discards credits at, not after, their boundary.
AllowIsCurrent ==
  WindowCoupled =>
    \A t \in Tasks : answer[t].kind = "allow" => ts[t] < answer[t].resetAt

\* The client never invents a denial: when check() denies, the server has
\* leased out the whole window the denial speaks of.
DenialIsServers ==
  \A t \in Tasks : answer[t].kind = "deny" => granted[answer[t].resetAt] = Limit

\* "A grant always makes progress" (fleet_backend.py): a call whose grant
\* covers its cost is served from it and does not go back to the server.
GrantMakesProgress ==
  [][\A t \in Tasks :
       pc[t] = "replied" /\ pc'[t] = "sent" => lease[t].capacity < cost[t]]_vars

\* The bound on rounds only trips on a server that neither grants nor denies,
\* which this one never is.
RoundsNeverExhausted == \A t \in Tasks : answer[t].kind # "exhausted"

\* check() serves locally if credits remain: a call is denied only when the
\* limiter's credits cannot serve it.
DenialMeansDry ==
  [][\A t \in Tasks :
       LET l == LimiterOf[t] IN
       pc[t] = "replied" /\ pc'[t] = "idle" /\ answer'[t].kind = "deny"
         /\ spender[l] # NoSpender
       => ~ Serves(spender[l], ts[t], cost[t])]_vars

\* The abstract budget that leasing promises to implement.
Budget == INSTANCE WindowBudget WITH
            pool <- [w \in Windows |-> Limit - granted[w]],
            allowance <- allotted,
            spent <- served

\* Under serial use and unit costs the leases, local credits, discards, lost
\* replies and crashes implement a budget handed out by the window.
ImplementsBudget == Budget!Spec

\* Every call of check() whose Reserve is answered returns, whatever the other
\* tasks, the clock and the server's budget do meanwhile: a refresh that hangs
\* holds no one else up, though they wait for the same limiter.
CheckReturns == \A t \in Tasks \ Hanging : pc[t] # "idle" ~> pc[t] = "idle"
=============================================================================
