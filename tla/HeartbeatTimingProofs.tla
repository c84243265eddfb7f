------------------------ MODULE HeartbeatTimingProofs ------------------------
(***************************************************************************)
(* Theorems about HeartbeatTiming, for every interval and every delay its  *)
(* assumption allows.                                                      *)
(***************************************************************************)
EXTENDS HeartbeatTiming, TLAPS

USE TimingAssumption

\* As long as no beat failed, what is left of the TTL outlasts what is left of
\* the wait and the longest way of the beat that follows it.
InTime ==
  ~ missed =>
    /\ pump = "waiting" => left > wait + MaxDelay
    /\ pump = "sent" => left + flight > MaxDelay
    /\ pump = "served" => left + flight >= Ttl

\* A beat renews for two intervals at most, of which every beat not served uses
\* up one.
RunsOut ==
  /\ pump = "served" => unserved = "no"
  /\ unserved = "no" /\ pump = "waiting" => left <= wait + Interval
  /\ unserved = "no" /\ pump = "sent" => left <= Interval
  /\ unserved = "yes" /\ pump = "waiting" => left <= wait
  /\ MissIsLoss

TimingInv == TypeOK /\ InTime /\ RunsOut

\* Init establishes the invariant: a pump at the very start of its cycle still
\* beats a new lease in time.
LEMMA InitTiming == Init => TimingInv
<1> SUFFICES ASSUME Init
             PROVE  TimingInv
  OBVIOUS
<1>1. left \in 0 .. Ttl
  BY DEF Init
<1>2. wait \in 0 .. (Interval + MaxDelay)
  BY DEF Init
<1>3. missed \in BOOLEAN
  BY Zenon DEF Init
<1>4. TypeOK
  BY <1>1, <1>2, <1>3 DEF Init, TypeOK
<1>5. InTime
  BY <1>1, <1>2 DEF Init, InTime
<1>6. RunsOut
  BY DEF Init, RunsOut, MissIsLoss
<1>. QED
  BY <1>4, <1>5, <1>6 DEF TimingInv

\* Every step keeps it.
LEMMA StepTiming == TimingInv /\ [Next]_vars => TimingInv'
<1> SUFFICES ASSUME TimingInv, [Next]_vars
             PROVE  TimingInv'
  OBVIOUS
<1> USE DEF TimingInv, TypeOK, InTime, RunsOut, MissIsLoss
<1>1. CASE Beat
  BY <1>1 DEF Beat
<1>2. CASE ServeBeat
  BY <1>2 DEF ServeBeat
<1>3. CASE BeatReply
  BY <1>3 DEF BeatReply
<1>4. CASE BeatFails
  BY <1>4 DEF BeatFails
<1>5. CASE Tick
  BY <1>5 DEF Tick
<1>6. CASE UNCHANGED vars
  BY <1>6 DEF vars
<1>. QED
  BY <1>1, <1>2, <1>3, <1>4, <1>5, <1>6 DEF Next

\* The invariant holds of every reachable state.
LEMMA TimingInvariant == Spec => []TimingInv
BY InitTiming, StepTiming, PTL DEF Spec

\* Type correctness: no span runs below zero or past its length.
THEOREM TimingTypeOK == Spec => []TypeOK
<1>1. TimingInv => TypeOK
  BY DEF TimingInv
<1>. QED
  BY <1>1, TimingInvariant, PTL

\* The pump's pace suffices whatever the interval, as long as a call takes less
\* than a third of it: a lease none of whose beats failed is not reclaimed.
THEOREM PaceSuffices == Spec => []NoMissNoLoss
<1>1. TimingInv => NoMissNoLoss
  BY DEF TimingInv, TypeOK, InTime, NoMissNoLoss
<1>. QED
  BY <1>1, TimingInvariant, PTL

\* And it is no better than that: one beat that does not reach the server costs
\* the lease, whatever the interval, because the next is an interval away.
THEOREM MissCostsLease == Spec => []MissIsLoss
<1>1. TimingInv => MissIsLoss
  BY DEF TimingInv, RunsOut
<1>. QED
  BY <1>1, TimingInvariant, PTL
=============================================================================
