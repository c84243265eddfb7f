----------------------------- MODULE FleetBudget ----------------------------
(***************************************************************************)
(* What the limiters of FleetLease add up to.                              *)
(***************************************************************************)
EXTENDS FleetLease, Functions, FiniteSets

ASSUME FiniteFleet == IsFiniteSet(Limiters) /\ IsFiniteSet(Tasks)

\* The fleet never over-admits: whatever windows its limiters think they are
\* in, the units served for one window add up to at most the policy's limit
\* (README.md on Fleet leasing).
FleetBound ==
  \A w \in Windows : SumFunctionOnSet([l \in Limiters |-> served[l][w]], Limiters) <= Limit

\* The units granted to a limiter by replies that are still on their way.
Coming(l) ==
  SumFunctionOnSet([t \in Tasks |-> lease[t].capacity], {t \in Tasks : LimiterOf[t] = l})

\* A limiter never has more than the server gave it: what it served, holds as
\* credits and has coming in replies is within what it was granted over all
\* windows, however its calls interleave, fail and crash.
NeverCreatesBudget ==
  \A l \in Limiters :
    SumFunctionOnSet(served[l], Windows) + Credits(l) + Coming(l)
      <= SumFunctionOnSet(allotted[l], Windows)
=============================================================================
