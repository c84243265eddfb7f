------------------------ MODULE AsyncAdmissionProofs ------------------------
(***************************************************************************)
(* Theorems about AsyncAdmission, for any number of admissions.            *)
(***************************************************************************)
EXTENDS AsyncAdmission, TLAPS

USE AdmissionAssumption

\* Each admission asks for a slot once, and no slot exists before it is granted.
AsksOnce ==
  \A a \in Admissions :
    /\ owner[a] = "start" => lease[a] = "none" /\ <<"Admit", a>> \notin requests
    /\ <<"Admit", a>> \in requests => lease[a] = "none"

\* Nobody gives back what was not handed out, and every Release, on its way or
\* served, comes from an admission marked released.
ReleasesAreMarked ==
  \A a \in Admissions :
    /\ owner[a] \in {"start", "admitting"} => ~ released[a]
    /\ <<"Release", a>> \in requests => released[a]
    /\ lease[a] = "released" => released[a]

\* There is a beat only while the pump awaits it, and no pump after aclose().
BeatIsAwaited ==
  /\ task # "beating" => beat = NoBeat
  /\ phase = "closed" => task = "none"

\* A beat names admissions that were held; what its reply calls reclaimed is
\* reclaimed, unless its owner has given it back meanwhile.
ReportsAreTrue ==
  /\ \A a \in beat.ids : owner[a] \notin {"start", "admitting"}
  /\ beat.gone \subseteq beat.ids
  /\ \A a \in beat.gone \cap open : lease[a] = "reclaimed"

AdmissionInv ==
  /\ TypeOK
  /\ AsksOnce
  /\ ReleasesAreMarked
  /\ BeatIsAwaited
  /\ ReportsAreTrue
  /\ ReclaimedIsTrue
  /\ EveryHoldIsRenewed
  /\ RenewsOnlyHeld

-----------------------------------------------------------------------------

\* With nothing asked for, the invariant holds.
LEMMA InitAdmission == Init => AdmissionInv
BY DEF Init, AdmissionInv, TypeOK, AsksOnce, ReleasesAreMarked, BeatIsAwaited,
       ReportsAreTrue, ReclaimedIsTrue, EveryHoldIsRenewed, RenewsOnlyHeld, NoBeat, Live

\* The steps of an owner keep the invariant.
LEMMA OwnerStep ==
  ASSUME AdmissionInv, NEW a \in Admissions,
         Admit(a) \/ Hold(a) \/ GoWithout(a) \/ Release(a) \/ Released(a)
  PROVE  AdmissionInv'
<1> USE DEF AdmissionInv, TypeOK, AsksOnce, ReleasesAreMarked, BeatIsAwaited,
            ReportsAreTrue, ReclaimedIsTrue, EveryHoldIsRenewed, RenewsOnlyHeld,
            pumpVars, serverVars
<1>1. CASE Admit(a)
  BY <1>1 DEF Admit
<1>2. CASE Hold(a)
  <2>1. TypeOK'
    BY <1>2 DEF Hold, Register
  <2>2. (AsksOnce /\ ReleasesAreMarked)'
    BY <1>2 DEF Hold, Register
  <2>3. BeatIsAwaited'
    BY <1>2 DEF Hold, Register
  <2>4. ReportsAreTrue'
    BY <1>2 DEF Hold, Register
  <2>5. ReclaimedIsTrue'
    BY <1>2 DEF Hold, Register
  <2>6. EveryHoldIsRenewed'
    BY <1>2 DEF Hold, Register
  <2>7. RenewsOnlyHeld'
    BY <1>2 DEF Hold, Register
  <2>. QED
    BY <2>1, <2>2, <2>3, <2>4, <2>5, <2>6, <2>7
<1>3. CASE GoWithout(a)
  BY <1>3 DEF GoWithout
<1>4. CASE Release(a)
  BY <1>4 DEF Release
<1>5. CASE Released(a)
  BY <1>5 DEF Released
<1>. QED
  BY <1>1, <1>2, <1>3, <1>4, <1>5

\* The steps of the pump, aclose() and a crash keep it.
LEMMA PumpStep ==
  ASSUME AdmissionInv, Beat \/ BeatReply \/ BeatFails \/ Close \/ TornDown \/ Crash
  PROVE  AdmissionInv'
<1> USE DEF AdmissionInv, TypeOK, AsksOnce, ReleasesAreMarked, BeatIsAwaited,
            ReportsAreTrue, ReclaimedIsTrue, EveryHoldIsRenewed, RenewsOnlyHeld,
            pumpVars, serverVars, NoBeat
<1>1. CASE Beat
  BY <1>1 DEF Beat
<1>2. CASE BeatReply
  BY <1>2 DEF BeatReply
<1>3. CASE BeatFails
  BY <1>3 DEF BeatFails
<1>4. CASE Close
  BY <1>4 DEF Close
<1>5. CASE TornDown
  BY <1>5 DEF TornDown
<1>6. CASE Crash
  BY <1>6 DEF Crash
<1>. QED
  BY <1>1, <1>2, <1>3, <1>4, <1>5, <1>6

\* The steps of the server and the network keep it.
LEMMA ServerStep ==
  ASSUME AdmissionInv,
         \/ ServeBeat
         \/ \E a \in Admissions : ServeAdmit(a) \/ ServeRelease(a) \/ Age(a)
         \/ \E r \in requests : Lose(r)
  PROVE  AdmissionInv'
<1> USE DEF AdmissionInv, TypeOK, AsksOnce, ReleasesAreMarked, BeatIsAwaited,
            ReportsAreTrue, ReclaimedIsTrue, EveryHoldIsRenewed, RenewsOnlyHeld,
            pumpVars, Live
<1>1. CASE ServeBeat
  <2>1. PICK unknown \in SUBSET {a \in beat.ids : lease[a] = "released"} :
          beat' = [beat EXCEPT
            !.at = "served",
            !.gone = unknown \cup {a \in beat.ids : lease[a] = "reclaimed"}]
    BY <1>1 DEF ServeBeat
  <2>2. /\ beat'.at = "served"
        /\ beat'.ids = beat.ids
        /\ beat'.gone = unknown \cup {a \in beat.ids : lease[a] = "reclaimed"}
        /\ beat' \in [at : {"none", "sent", "served"},
                      ids : SUBSET Renewed, gone : SUBSET Renewed]
    BY <2>1
  <2>3. TypeOK'
    BY <1>1, <2>2 DEF ServeBeat
  <2>4. (AsksOnce /\ ReleasesAreMarked)'
    BY <1>1 DEF ServeBeat
  <2>5. BeatIsAwaited'
    <3>1. NoBeat.at # "sent"
      BY DEF NoBeat
    <3>2. task = "beating"
      BY <1>1, <3>1 DEF ServeBeat
    <3>. QED
      BY <1>1, <3>2 DEF ServeBeat
  <2>6. ReportsAreTrue'
    BY <1>1, <2>2 DEF ServeBeat
  <2>7. (ReclaimedIsTrue /\ EveryHoldIsRenewed /\ RenewsOnlyHeld)'
    BY <1>1 DEF ServeBeat
  <2>. QED
    BY <2>3, <2>4, <2>5, <2>6, <2>7
<1>2. ASSUME NEW a \in Admissions, ServeAdmit(a)
      PROVE  AdmissionInv'
  BY <1>2 DEF ServeAdmit
<1>3. ASSUME NEW a \in Admissions, ServeRelease(a)
      PROVE  AdmissionInv'
  BY <1>3 DEF ServeRelease
<1>4. ASSUME NEW a \in Admissions, Age(a)
      PROVE  AdmissionInv'
  BY <1>4 DEF Age
<1>5. ASSUME NEW r \in requests, Lose(r)
      PROVE  AdmissionInv'
  BY <1>5 DEF Lose
<1>. QED
  BY <1>1, <1>2, <1>3, <1>4, <1>5

\* Every step keeps the invariant, a stutter too.
LEMMA StepAdmission == AdmissionInv /\ [Next]_vars => AdmissionInv'
<1> SUFFICES ASSUME AdmissionInv, [Next]_vars
             PROVE  AdmissionInv'
  OBVIOUS
<1>1. CASE Next
  BY <1>1, OwnerStep, PumpStep, ServerStep DEF Next
<1>2. CASE UNCHANGED vars
  BY <1>2 DEF vars, AdmissionInv, TypeOK, AsksOnce, ReleasesAreMarked, BeatIsAwaited,
              ReportsAreTrue, ReclaimedIsTrue, EveryHoldIsRenewed, RenewsOnlyHeld
<1>. QED
  BY <1>1, <1>2

\* The invariant holds of every reachable state.
LEMMA AdmissionInvariant == Spec => []AdmissionInv
BY InitAdmission, StepAdmission, PTL DEF Spec

\* Type correctness: only leases that asked for it are in the pump or in a beat.
THEOREM AdmissionTypeOK == Spec => []TypeOK
<1>1. AdmissionInv => TypeOK
  BY DEF AdmissionInv
<1>. QED
  BY <1>1, AdmissionInvariant, PTL

\* Nobody is told that a slot was reclaimed unless it was: not even when the
\* server calls a released lease reclaimed in a beat that raced the release.
THEOREM ReclaimsAreTrue == Spec => []ReclaimedIsTrue
<1>1. AdmissionInv => ReclaimedIsTrue
  BY DEF AdmissionInv
<1>. QED
  BY <1>1, AdmissionInvariant, PTL

\* Whoever holds an opt-in slot of an open backend is renewed by a running pump.
THEOREM HoldsAreRenewed == Spec => []EveryHoldIsRenewed
<1>1. AdmissionInv => EveryHoldIsRenewed
  BY DEF AdmissionInv
<1>. QED
  BY <1>1, AdmissionInvariant, PTL

\* The pump holds no lease whose owner gave it back or never had it.
THEOREM OnlyHeldAreRenewed == Spec => []RenewsOnlyHeld
<1>1. AdmissionInv => RenewsOnlyHeld
  BY DEF AdmissionInv
<1>. QED
  BY <1>1, AdmissionInvariant, PTL

\* The channel is closed only when no beat is in flight.
THEOREM ChannelClosesQuietly == Spec => []NoBeatOnClosedChannel
<1>1. AdmissionInv => NoBeatOnClosedChannel
  BY DEF AdmissionInv, BeatIsAwaited, NoBeatOnClosedChannel, NoBeat
<1>. QED
  BY <1>1, AdmissionInvariant, PTL
=============================================================================
