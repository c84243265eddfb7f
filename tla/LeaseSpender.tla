---------------------------- MODULE LeaseSpender ----------------------------
(***************************************************************************)
(* The client-side lease arithmetic of throttlekit/lease_spender.py, as    *)
(* pure operators on the state of one LeaseSpender.                        *)
(*                                                                         *)
(* The class holds two mutable fields, _credits and _expires_at; every     *)
(* operation takes the current instant as an argument and does no I/O, so  *)
(* an operation is an operator from a spender to a spender.  Instants are  *)
(* integers, as the epoch milliseconds of the code are.                    *)
(***************************************************************************)
EXTENDS Integers

CONSTANTS
  WindowCoupled,   \* the window_coupled flag: discard credits of a past window
  NoInstant        \* Python's None in _expires_at: nothing granted yet

ASSUME SpenderAssumption ==
  /\ WindowCoupled \in BOOLEAN
  /\ NoInstant \notin Int

Grant == [capacity : Nat, expiresAt : Int]

Spender == [credits : Nat, expiresAt : Int \cup {NoInstant}]

\* LeaseSpender.__init__; reset() brings a used spender back to this state.
Fresh == [credits |-> 0, expiresAt |-> NoInstant]

\* apply_lease: the credits on hand are kept and move to the grant's window.
ApplyLease(s, grant) ==
  [credits |-> s.credits + grant.capacity, expiresAt |-> grant.expiresAt]

\* Fault: the boundary itself still counts as inside the window.
RolledLate(s, now) ==
  /\ WindowCoupled
  /\ s.expiresAt # NoInstant
  /\ now > s.expiresAt

\* The granting window of the credits on hand is over at `now`.
Rolled(s, now) ==
  /\ WindowCoupled
  /\ s.expiresAt # NoInstant
  /\ now >= s.expiresAt

\* What spend() has on hand once it has discarded the remainder of a past window.
OnHand(s, now) == IF Rolled(s, now) THEN 0 ELSE s.credits

\* _require_cost lets the cost through.
ValidCost(cost) == cost > 0

\* Fault: the last credits are never served.
ServesShort(s, now, cost) == OnHand(s, now) > cost

\* spend() answers with an allow, and otherwise with None: "refresh needed".
Serves(s, now, cost) == OnHand(s, now) >= cost

\* Fault: a served cost is not deducted.
AfterSpendFree(s, now, cost) == [s EXCEPT !.credits = OnHand(s, now)]

\* Fault: the cost is deducted whether it is served or not.
AfterSpendEager(s, now, cost) == [s EXCEPT !.credits = OnHand(s, now) - cost]

\* The spender spend() leaves behind: the discard happens whatever the answer is.
AfterSpend(s, now, cost) ==
  [s EXCEPT !.credits =
     OnHand(s, now) - (IF Serves(s, now, cost) THEN cost ELSE 0)]
=============================================================================
