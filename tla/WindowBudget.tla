---------------------------- MODULE WindowBudget ----------------------------
(***************************************************************************)
(* What the fleet promises together: a budget of Limit units per window    *)
(* from which each limiter holds an allowance and spends within it.  There *)
(* are no leases in flight, credits, clocks or failures here.              *)
(***************************************************************************)
EXTENDS Integers

CONSTANTS Limiters, Windows, Limit

VARIABLES
  pool,       \* pool[w]: units of the window no limiter has been given
  allowance,  \* allowance[l][w]: units of the window given to the limiter
  spent       \* spent[l][w]: units of the window the limiter has used up

vars == <<pool, allowance, spent>>

Init ==
  /\ pool = [w \in Windows |-> Limit]
  /\ allowance = [l \in Limiters |-> [w \in Windows |-> 0]]
  /\ spent = [l \in Limiters |-> [w \in Windows |-> 0]]

\* Units move from the pool to a limiter.
Allot(l, w, n) ==
  /\ n <= pool[w]
  /\ pool' = [pool EXCEPT ![w] = @ - n]
  /\ allowance' = [allowance EXCEPT ![l][w] = @ + n]
  /\ UNCHANGED spent

\* A limiter admits work for n of the units it was given.
Spend(l, w, n) ==
  /\ spent[l][w] + n <= allowance[l][w]
  /\ spent' = [spent EXCEPT ![l][w] = @ + n]
  /\ UNCHANGED <<pool, allowance>>

Next == \E l \in Limiters, w \in Windows, n \in 1 .. Limit :
          Allot(l, w, n) \/ Spend(l, w, n)

Spec == Init /\ [][Next]_vars
=============================================================================
