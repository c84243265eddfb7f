---------------------------- MODULE MCFleetLease ----------------------------
(***************************************************************************)
(* Instances of FleetLease for TLC.                                        *)
(***************************************************************************)
EXTENDS FleetBudget, TLC

\* Serial use: every limiter has one caller, which goes by its name.
OwnLimiter == [t \in Tasks |-> t]

\* Overlapping calls: all callers share one limiter.
SharedLimiter == [t \in Tasks |-> CHOOSE l \in Limiters : TRUE]

\* Limiters with a caller each are interchangeable, and so are the callers of
\* a shared limiter.
Symmetric == Permutations(Tasks)

ExactClock == {0}
FastClock  == {0, 1}
LooseClock == {-1, 1}
=============================================================================
