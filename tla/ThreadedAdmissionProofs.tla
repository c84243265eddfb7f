----------------------- MODULE ThreadedAdmissionProofs -----------------------
(***************************************************************************)
(* Theorems about ThreadedAdmission, for any number of threads.            *)
(***************************************************************************)
EXTENDS ThreadedAdmission, TLAPS

USE ThreadedAssumption

\* Every step but a stutter, by who takes it.
Server(a) == ServeAdmit(a) \/ ServeRelease(a) \/ ServeBeat(a) \/ Reclaim(a)

LEMMA StepsOfNext ==
  [Next]_vars <=>
    \/ \E a \in Admissions : Owner(a) \/ Daemon(a) \/ Server(a)
    \/ Close \/ Joined
    \/ \E r \in requests : Lose(r)
    \/ UNCHANGED vars
BY DEF Next, Server

-----------------------------------------------------------------------------
(* Types.                                                                  *)

Beats == [at : {"none", "sent", "served"}, ids : SUBSET Admissions, gone : SUBSET Admissions]

\* A step of an owner changes no beat, and its types follow one variable at a time.
LEMMA OwnerTypes ==
  ASSUME TypeOK, NEW a \in Admissions, Owner(a)
  PROVE  TypeOK'
<1> USE DEF TypeOK, Go, serverVars, markVars, pumpVars
<1>1. CASE Admit(a)
  BY <1>1 DEF Admit
<1>2. CASE Admitted(a)
  BY <1>2 DEF Admitted
<1>3. CASE GoWithout(a)
  BY <1>3 DEF GoWithout
<1>4. CASE SeePump(a)
  BY <1>4 DEF SeePump
<1>5. CASE BuildPump(a)
  BY <1>5 DEF BuildPump, Pumps
<1>6. CASE Register(a)
  BY <1>6 DEF Register, Pumps, Running
<1>7. CASE Release(a)
  BY <1>7 DEF Release
<1>8. CASE SendRelease(a)
  <2>1. open' \in [Pumps -> SUBSET Admissions]
    BY <1>8 DEF SendRelease
  <2>2. requests' \subseteq {"Admit", "Release"} \X Admissions
    BY <1>8 DEF SendRelease
  <2>3. owner' = [owner EXCEPT ![a] = IF phase = "closed" THEN "done" ELSE "waiting"]
    BY <1>8 DEF SendRelease
  <2>4. UNCHANGED <<lease, reply, released, reclaimed, pump, thread, stop, beat, phase>>
    BY <1>8 DEF SendRelease
  <2> QED
    BY <2>1, <2>2, <2>3, <2>4
<1>9. CASE Released(a)
  BY <1>9 DEF Released
<1> QED
  BY <1>1, <1>2, <1>3, <1>4, <1>5, <1>6, <1>7, <1>8, <1>9 DEF Owner

LEMMA DaemonTypes ==
  ASSUME TypeOK, NEW p \in Admissions, Daemon(p)
  PROVE  TypeOK'
<1> USE DEF TypeOK, Pumps, Running, serverVars, markVars, pumpVars
<1>0. NoBeat \in Beats
  BY DEF NoBeat, Beats
<1>1. CASE Leave(p)
  BY <1>1 DEF Leave
<1>2. CASE Beat(p)
  <2>1. [at |-> "sent", ids |-> open[p], gone |-> {}] \in Beats
    BY DEF Beats
  <2>2. beat' \in [Pumps -> Beats]
    BY <1>2, <2>1 DEF Beat, Beats
  <2> QED
    BY <1>2, <2>2 DEF Beat, Beats
<1>3. CASE BeatReply(p)
  BY <1>3, <1>0 DEF BeatReply, Beats
<1>4. CASE BeatFails(p)
  BY <1>4, <1>0 DEF BeatFails, Beats
<1> QED
  BY <1>1, <1>2, <1>3, <1>4 DEF Daemon

\* The new value of a beat the server has served.
Served(p, unknown) ==
  [beat[p] EXCEPT !.at = "served",
                  !.gone = unknown \cup {a \in beat[p].ids : lease[a] = "reclaimed"}]

LEMMA ServeBeatCases ==
  ASSUME TypeOK, NEW p \in Admissions, ServeBeat(p)
  PROVE  \E unknown \in SUBSET {a \in beat[p].ids : lease[a] = "released"} :
           /\ Served(p, unknown) \in Beats
           /\ Served(p, unknown).ids = beat[p].ids
           /\ Served(p, unknown).gone =
                unknown \cup {a \in beat[p].ids : lease[a] = "reclaimed"}
           /\ beat' = [beat EXCEPT ![p] = Served(p, unknown)]
<1>1. PICK unknown \in SUBSET {a \in beat[p].ids : lease[a] = "released"} :
        beat' = [beat EXCEPT
          ![p].at = "served",
          ![p].gone = unknown \cup {a \in beat[p].ids : lease[a] = "reclaimed"}]
  BY DEF ServeBeat
<1>2. beat[p] \in Beats
  BY DEF TypeOK, Pumps, Beats
<1>3. /\ Served(p, unknown) \in Beats
      /\ Served(p, unknown).ids = beat[p].ids
      /\ Served(p, unknown).gone =
           unknown \cup {a \in beat[p].ids : lease[a] = "reclaimed"}
  BY <1>2 DEF Served, Beats
<1>4. beat' = [beat EXCEPT ![p] = Served(p, unknown)]
  BY <1>1, <1>2 DEF Served, Beats, TypeOK, Pumps
<1> QED
  BY <1>3, <1>4

LEMMA ServerTypes ==
  ASSUME TypeOK, NEW a \in Admissions, Server(a)
  PROVE  TypeOK'
<1> USE DEF TypeOK, serverVars, markVars, pumpVars
<1>1. CASE ServeAdmit(a)
  BY <1>1 DEF ServeAdmit
<1>2. CASE ServeRelease(a)
  BY <1>2 DEF ServeRelease
<1>3. CASE ServeBeat(a)
  <2>1. PICK b \in Beats : beat' = [beat EXCEPT ![a] = b]
    BY <1>3, ServeBeatCases
  <2>2. beat' \in [Pumps -> Beats]
    BY <2>1 DEF Beats
  <2> QED
    BY <1>3, <2>2 DEF ServeBeat, Beats
<1>4. CASE Reclaim(a)
  BY <1>4 DEF Reclaim
<1> QED
  BY <1>1, <1>2, <1>3, <1>4 DEF Server

\* The types hold in every reachable state; a thread that registers has a pump.
THEOREM ThreadedTypeOK == Spec => []TypeOK
<1>1. Init => TypeOK
  BY DEF Init, TypeOK, Pumps, Running, NoBeat
<1>2. TypeOK /\ [Next]_vars => TypeOK'
  <2> SUFFICES ASSUME TypeOK, [Next]_vars PROVE TypeOK'
    OBVIOUS
  <2>1. CASE Close \/ Joined
    BY <2>1 DEF Close, Joined, TypeOK, Pumps, serverVars, markVars, pumpVars
  <2>2. ASSUME NEW r \in requests, Lose(r) PROVE TypeOK'
    BY <2>2 DEF Lose, TypeOK, markVars, pumpVars
  <2>3. CASE UNCHANGED vars
    BY <2>3 DEF vars, TypeOK
  <2> QED
    BY <2>1, <2>2, <2>3, OwnerTypes, DaemonTypes, ServerTypes, StepsOfNext
<1> QED
  BY <1>1, <1>2, PTL DEF Spec

-----------------------------------------------------------------------------
(* Every hold is renewed.                                                  *)

\* Nobody stops a thread of an open backend, and none ends.
OpenRuns ==
  phase = "open" => \A p \in Pumps : ~ stop[p] /\ thread[p] # "gone"

RenewInv == TypeOK /\ OpenRuns /\ EveryHoldIsRenewed

LEMMA RenewStep ==
  ASSUME RenewInv, [Next]_vars
  PROVE  OpenRuns' /\ EveryHoldIsRenewed'
<1> USE DEF RenewInv, OpenRuns, EveryHoldIsRenewed, TypeOK, Pumps, Running,
            serverVars, markVars, pumpVars, Go
<1>1. ASSUME NEW a \in Admissions, Owner(a) PROVE OpenRuns' /\ EveryHoldIsRenewed'
  <2>1. CASE Admit(a) \/ Admitted(a) \/ GoWithout(a) \/ SeePump(a) \/ BuildPump(a)
    BY <2>1 DEF Admit, Admitted, GoWithout, SeePump, BuildPump
  <2>2. CASE Register(a)
    BY <2>2 DEF Register
  <2>3. CASE Release(a) \/ Released(a)
    BY <2>3 DEF Release, Released
  <2>4. CASE SendRelease(a)
    BY <2>4 DEF SendRelease
  <2> QED
    BY <1>1, <2>1, <2>2, <2>3, <2>4 DEF Owner
<1>2. ASSUME NEW p \in Admissions, Daemon(p) PROVE OpenRuns' /\ EveryHoldIsRenewed'
  <2>1. CASE Leave(p)
    <3>1. phase # "open"
      BY <2>1 DEF Leave
    <3> QED
      BY <2>1, <3>1 DEF Leave
  <2>2. CASE Beat(p)
    BY <2>2 DEF Beat
  <2>3. CASE BeatReply(p)
    <3>1. /\ UNCHANGED <<owner, stop, phase>>
          /\ thread' = [thread EXCEPT ![p] = "waiting"]
          /\ thread[p] = "beating"
      BY <2>3 DEF BeatReply
    <3>2. OpenRuns'
      BY <3>1
    <3>3. ASSUME NEW a \in Admissions, NEW q \in Pumps, a \in open[q], ~ released'[a]
          PROVE  ~ released[a] /\ a \in open'[q]
      BY <2>3, <3>3 DEF BeatReply
    <3>4. \A a \in Admissions : ~ released'[a] => ~ released[a]
      BY <2>3 DEF BeatReply
    <3>5. \A q \in Pumps : thread[q] \in Running => thread'[q] \in Running
      BY <3>1
    <3>6. EveryHoldIsRenewed'
      BY <3>1, <3>3, <3>4, <3>5
    <3> QED
      BY <3>2, <3>6
  <2>4. CASE BeatFails(p)
    BY <2>4 DEF BeatFails
  <2> QED
    BY <1>2, <2>1, <2>2, <2>3, <2>4 DEF Daemon
<1>3. ASSUME NEW a \in Admissions, Server(a) PROVE OpenRuns' /\ EveryHoldIsRenewed'
  BY <1>3 DEF Server, ServeAdmit, ServeRelease, ServeBeat, Reclaim
<1>4. CASE Close \/ Joined
  BY <1>4 DEF Close, Joined
<1>5. ASSUME NEW r \in requests, Lose(r) PROVE OpenRuns' /\ EveryHoldIsRenewed'
  BY <1>5 DEF Lose
<1>6. CASE UNCHANGED vars
  BY <1>6 DEF vars
<1> QED
  BY <1>1, <1>2, <1>3, <1>4, <1>5, <1>6, StepsOfNext

\* However many threads race to build a pump, whoever holds an opt-in slot of an
\* open backend is in the pump of a running thread.
THEOREM ThreadedHoldsAreRenewed == Spec => []EveryHoldIsRenewed
<1>1. Init => OpenRuns /\ EveryHoldIsRenewed
  BY DEF Init, OpenRuns, EveryHoldIsRenewed, Pumps
<1> QED
  BY <1>1, RenewStep, ThreadedTypeOK, PTL DEF Spec, RenewInv

-----------------------------------------------------------------------------
(* close() reaches a pump that was there first.                            *)

WarmInv ==
  /\ \A a \in Warm : owner[a] = "done"
  /\ pump \in Warm =>
       /\ \A a \in Admissions : owner[a] # "building"
       /\ \A p \in Pumps \ {pump} : thread[p] = "none"
       /\ phase # "open" => stop[pump]

LEMMA WarmStep ==
  ASSUME TypeOK, WarmInv, [Next]_vars
  PROVE  WarmInv'
<1> USE DEF WarmInv, TypeOK, Pumps, Running, serverVars, markVars, pumpVars, Go
<1>1. ASSUME NEW a \in Admissions, Owner(a) PROVE WarmInv'
  <2>1. CASE Admit(a) \/ Admitted(a) \/ GoWithout(a) \/ SeePump(a)
    BY <2>1 DEF Admit, Admitted, GoWithout, SeePump
  <2>2. CASE BuildPump(a)
    BY <2>2 DEF BuildPump
  <2>3. CASE Register(a)
    BY <2>3 DEF Register
  <2>4. CASE Release(a) \/ Released(a) \/ SendRelease(a)
    BY <2>4 DEF Release, Released, SendRelease
  <2> QED
    BY <1>1, <2>1, <2>2, <2>3, <2>4 DEF Owner
<1>2. ASSUME NEW p \in Admissions, Daemon(p) PROVE WarmInv'
  BY <1>2 DEF Daemon, Leave, Beat, BeatReply, BeatFails
<1>3. ASSUME NEW a \in Admissions, Server(a) PROVE WarmInv'
  BY <1>3 DEF Server, ServeAdmit, ServeRelease, ServeBeat, Reclaim
<1>4. CASE Close
  <2>1. UNCHANGED <<owner, pump, thread>>
    BY <1>4 DEF Close
  <2>2. pump \in Pumps => stop'[pump]
    BY <1>4 DEF Close
  <2> QED
    BY <2>1, <2>2
<1>7. CASE Joined
  BY <1>7 DEF Joined
<1>5. ASSUME NEW r \in requests, Lose(r) PROVE WarmInv'
  BY <1>5 DEF Lose
<1>6. CASE UNCHANGED vars
  BY <1>6 DEF vars
<1> QED
  BY <1>1, <1>2, <1>3, <1>4, <1>5, <1>6, <1>7, StepsOfNext

\* A pump built before the threads met is stopped by close(), for good.
THEOREM WarmPumpIsStopped == Spec => []CloseReachesThePump
<1>1. Init => WarmInv
  BY DEF Init, WarmInv, Pumps
<1>2. WarmInv => CloseReachesThePump
  BY DEF WarmInv, CloseReachesThePump, Pumps, Running
<1> QED
  BY <1>1, <1>2, WarmStep, ThreadedTypeOK, PTL DEF Spec

-----------------------------------------------------------------------------
(* What is marked reclaimed was reclaimed, and what is renewed is held.    *)

Early == {"start", "admitting", "admitted", "building"}
Late == {"holding", "releasing", "waiting", "done"}

\* A pump has no thread before it is built, nor a lease or a beat before its thread.
PumpsInOrder ==
  /\ \A a \in Admissions : owner[a] \in Early => thread[a] = "none" /\ pump # a
  /\ \A p \in Pumps : open[p] # {} => thread[p] # "none"
  /\ \A p \in Pumps : thread[p] # "beating" => beat[p] = NoBeat

\* Pumps and beats name admissions that were held once.
NamesWereHeld ==
  \A p \in Pumps :
    /\ \A a \in open[p] \cup beat[p].ids : owner[a] \in Late
    /\ beat[p].gone \subseteq beat[p].ids

\* Each admission asks once, and gives back after it has left the pump.
OncePerAdmission ==
  \A a \in Admissions :
    /\ owner[a] = "start" => lease[a] = "none" /\ <<"Admit", a>> \notin requests
    /\ <<"Admit", a>> \in requests => lease[a] = "none"
    /\ <<"Release", a>> \in requests \/ lease[a] = "released" => owner[a] \in {"waiting", "done"}
    /\ owner[a] \notin Late => ~ released[a]

OrderInv == PumpsInOrder /\ NamesWereHeld /\ OncePerAdmission

\* With one pump, the marks and the reports are true.
Truth ==
  /\ \A p \in Pumps : \A a \in open[p] :
       /\ owner[a] \in {"holding", "releasing"}
       /\ owner[a] = "holding" => ~ released[a]
       /\ a \in beat[p].gone => lease[a] = "reclaimed"
  /\ \A a \in Admissions : reclaimed[a] => lease[a] = "reclaimed"

Places == {"start", "admitting", "admitted", "building", "built",
           "holding", "releasing", "waiting", "done"}

\* The types the steps below need.
LEMMA Domains ==
  ASSUME TypeOK
  PROVE  /\ lease \in [Admissions -> {"none", "live", "released", "reclaimed"}]
         /\ owner \in [Admissions -> Places]
         /\ released \in [Admissions -> BOOLEAN]
         /\ open \in [Admissions -> SUBSET Admissions]
         /\ thread \in [Admissions -> {"none", "gone", "waiting", "beating"}]
         /\ beat \in [Admissions -> Beats]
         /\ \A a \in Admissions : owner[a] = "built" => pump \in Admissions
BY DEF TypeOK, Places, Beats, Pumps, Running

LEMMA PumpsStep ==
  ASSUME TypeOK, PumpsInOrder, [Next]_vars
  PROVE  PumpsInOrder'
<1> USE Domains DEF PumpsInOrder, Early, Pumps, serverVars, markVars, pumpVars, Go
<1>1. ASSUME NEW a \in Admissions, Owner(a) PROVE PumpsInOrder'
  <2>1. CASE Admit(a)
    BY <2>1 DEF Admit
  <2>2. CASE Admitted(a)
    BY <2>2 DEF Admitted
  <2>3. CASE GoWithout(a)
    BY <2>3 DEF GoWithout
  <2>4. CASE SeePump(a)
    BY <2>4 DEF SeePump
  <2>5. CASE BuildPump(a)
    BY <2>5 DEF BuildPump
  <2>6. CASE Register(a)
    BY <2>6 DEF Register
  <2>7. CASE Release(a)
    BY <2>7 DEF Release
  <2>8. CASE SendRelease(a)
    BY <2>8 DEF SendRelease
  <2>9. CASE Released(a)
    BY <2>9 DEF Released
  <2> QED
    BY <1>1, <2>1, <2>2, <2>3, <2>4, <2>5, <2>6, <2>7, <2>8, <2>9 DEF Owner
<1>2. ASSUME NEW p \in Admissions, Daemon(p) PROVE PumpsInOrder'
  <2>1. CASE Leave(p)
    BY <2>1 DEF Leave
  <2>2. CASE Beat(p)
    <3>1. UNCHANGED <<owner, pump, open>>
      BY <2>2 DEF Beat
    <3>2. CASE phase # "closed"
      BY <2>2, <3>1, <3>2 DEF Beat
    <3>3. CASE phase = "closed"
      BY <2>2, <3>1, <3>3 DEF Beat
    <3> QED
      BY <3>2, <3>3
  <2>3. CASE BeatReply(p)
    BY <2>3 DEF BeatReply
  <2>4. CASE BeatFails(p)
    BY <2>4 DEF BeatFails
  <2> QED
    BY <1>2, <2>1, <2>2, <2>3, <2>4 DEF Daemon
<1>3. ASSUME NEW a \in Admissions, Server(a) PROVE PumpsInOrder'
  <2>1. CASE ServeBeat(a)
    <3>1. UNCHANGED <<owner, pump, open, thread>>
      BY <2>1 DEF ServeBeat
    <3>2. beat[a] # NoBeat
      BY <2>1 DEF ServeBeat, NoBeat
    <3>3. PICK b \in Beats : beat' = [beat EXCEPT ![a] = b]
      BY <2>1, ServeBeatCases
    <3> QED
      BY <3>1, <3>2, <3>3
  <2> QED
    BY <1>3, <2>1 DEF Server, ServeAdmit, ServeRelease, Reclaim
<1>4. CASE Close \/ Joined \/ (\E r \in requests : Lose(r)) \/ UNCHANGED vars
  BY <1>4 DEF Close, Joined, Lose, vars
<1> QED
  BY <1>1, <1>2, <1>3, <1>4, StepsOfNext

LEMMA NamesStep ==
  ASSUME TypeOK, NamesWereHeld, [Next]_vars
  PROVE  NamesWereHeld'
<1> USE Domains DEF NamesWereHeld, Late, Pumps, serverVars, markVars, pumpVars, Go
<1>1. ASSUME NEW a \in Admissions, Owner(a) PROVE NamesWereHeld'
  <2>0. UNCHANGED beat
    BY <1>1 DEF Owner, Admit, Admitted, GoWithout, SeePump, BuildPump, Register, Release,
                SendRelease, Released
  <2>1. \A b \in Admissions : owner[b] \in Late => owner'[b] \in Late
    BY <1>1 DEF Owner, Admit, Admitted, GoWithout, SeePump, BuildPump, Register, Release,
                SendRelease, Released
  <2>2. \A p \in Admissions : \A b \in open'[p] : b \in open[p] \/ owner'[b] \in Late
    <3>1. CASE Register(a)
      BY <3>1 DEF Register
    <3>2. CASE SendRelease(a)
      BY <3>2 DEF SendRelease
    <3>3. CASE ~ Register(a) /\ ~ SendRelease(a)
      BY <1>1, <3>3 DEF Owner, Admit, Admitted, GoWithout, SeePump, BuildPump, Release,
                        Released
    <3> QED
      BY <3>1, <3>2, <3>3
  <2>3. \A p \in Admissions : open[p] \subseteq Admissions /\ beat[p].ids \subseteq Admissions
    BY DEF TypeOK
  <2> QED
    BY <2>0, <2>1, <2>2, <2>3
<1>2. ASSUME NEW p \in Admissions, Daemon(p) PROVE NamesWereHeld'
  <2>0. UNCHANGED owner
    BY <1>2 DEF Daemon, Leave, Beat, BeatReply, BeatFails
  <2>1. \A q \in Admissions : open'[q] \subseteq open[q]
    BY <1>2 DEF Daemon, Leave, Beat, BeatReply, BeatFails
  <2>2. \A q \in Admissions : \/ beat'[q] = beat[q]
                              \/ beat'[q].ids \subseteq open[q] /\ beat'[q].gone = {}
    BY <1>2 DEF Daemon, Leave, Beat, BeatReply, BeatFails, NoBeat
  <2> QED
    BY <2>0, <2>1, <2>2
<1>3. ASSUME NEW a \in Admissions, Server(a) PROVE NamesWereHeld'
  <2>1. CASE ServeBeat(a)
    <3>1. UNCHANGED <<owner, open>>
      BY <2>1 DEF ServeBeat
    <3>2. PICK unknown \in SUBSET {b \in beat[a].ids : lease[b] = "released"} :
            /\ Served(a, unknown).ids = beat[a].ids
            /\ Served(a, unknown).gone =
                 unknown \cup {b \in beat[a].ids : lease[b] = "reclaimed"}
            /\ beat' = [beat EXCEPT ![a] = Served(a, unknown)]
      BY <2>1, ServeBeatCases
    <3>3. \A q \in Admissions : /\ beat'[q].ids = beat[q].ids
                                /\ beat'[q].gone \subseteq beat[q].ids
      BY <3>2
    <3> QED
      BY <3>1, <3>3
  <2> QED
    BY <1>3, <2>1 DEF Server, ServeAdmit, ServeRelease, Reclaim
<1>4. CASE Close \/ Joined \/ (\E r \in requests : Lose(r)) \/ UNCHANGED vars
  BY <1>4 DEF Close, Joined, Lose, vars
<1> QED
  BY <1>1, <1>2, <1>3, <1>4, StepsOfNext

LEMMA OnceStep ==
  ASSUME TypeOK, NamesWereHeld, OncePerAdmission, [Next]_vars
  PROVE  OncePerAdmission'
<1> USE Domains DEF OncePerAdmission, Late, Pumps, serverVars, markVars, pumpVars, Go
<1>1. ASSUME NEW a \in Admissions, Owner(a) PROVE OncePerAdmission'
  <2>1. CASE Admit(a)
    BY <2>1 DEF Admit
  <2>2. CASE Admitted(a)
    BY <2>2 DEF Admitted
  <2>3. CASE GoWithout(a)
    BY <2>3 DEF GoWithout
  <2>4. CASE SeePump(a)
    BY <2>4 DEF SeePump
  <2>5. CASE BuildPump(a)
    BY <2>5 DEF BuildPump
  <2>6. CASE Register(a)
    BY <2>6 DEF Register
  <2>7. CASE Release(a)
    BY <2>7 DEF Release
  <2>8. CASE SendRelease(a)
    BY <2>8 DEF SendRelease
  <2>9. CASE Released(a)
    BY <2>9 DEF Released
  <2> QED
    BY <1>1, <2>1, <2>2, <2>3, <2>4, <2>5, <2>6, <2>7, <2>8, <2>9 DEF Owner
<1>2. ASSUME NEW p \in Admissions, Daemon(p) PROVE OncePerAdmission'
  <2>1. UNCHANGED <<lease, requests, owner>>
    BY <1>2 DEF Daemon, Leave, Beat, BeatReply, BeatFails
  <2>2. \A a \in Admissions : released'[a] => released[a] \/ owner[a] \in Late
    <3>1. CASE BeatReply(p)
      BY <3>1 DEF BeatReply, NamesWereHeld
    <3> QED
      BY <1>2, <3>1 DEF Daemon, Leave, Beat, BeatFails
  <2> QED
    BY <2>1, <2>2
<1>3. ASSUME NEW a \in Admissions, Server(a) PROVE OncePerAdmission'
  <2>1. CASE ServeAdmit(a)
    BY <2>1 DEF ServeAdmit
  <2>2. CASE ServeRelease(a)
    BY <2>2 DEF ServeRelease
  <2>3. CASE Reclaim(a)
    BY <2>3 DEF Reclaim
  <2>4. CASE ServeBeat(a)
    BY <2>4 DEF ServeBeat
  <2> QED
    BY <1>3, <2>1, <2>2, <2>3, <2>4 DEF Server
<1>4. CASE Close \/ Joined \/ (\E r \in requests : Lose(r)) \/ UNCHANGED vars
  BY <1>4 DEF Close, Joined, Lose, vars
<1> QED
  BY <1>1, <1>2, <1>3, <1>4, StepsOfNext

LEMMA OrderStep ==
  ASSUME TypeOK, OrderInv, [Next]_vars
  PROVE  OrderInv'
BY PumpsStep, NamesStep, OnceStep DEF OrderInv

\* Once orphaned, a pump with a thread stays an orphan.
LEMMA OrphansStay ==
  ASSUME TypeOK, OrderInv, [Next]_vars, NoOrphan'
  PROVE  NoOrphan
<1> USE DEF NoOrphan, OrderInv, PumpsInOrder, Early, Pumps, Go
<1>1. ASSUME NEW a \in Admissions, Owner(a) PROVE NoOrphan
  <2>1. CASE BuildPump(a)
    BY <2>1 DEF BuildPump
  <2>2. CASE Register(a)
    BY <2>2 DEF Register, TypeOK
  <2>3. CASE ~ BuildPump(a) /\ ~ Register(a)
    BY <1>1, <2>3 DEF Owner, Admit, Admitted, GoWithout, SeePump, Release, SendRelease,
                      Released, pumpVars
  <2> QED
    BY <2>1, <2>2, <2>3
<1>2. ASSUME NEW p \in Admissions, Daemon(p) PROVE NoOrphan
  BY <1>2 DEF Daemon, Leave, Beat, BeatReply, BeatFails, TypeOK
<1>3. ASSUME NEW a \in Admissions, Server(a) PROVE NoOrphan
  BY <1>3 DEF Server, ServeAdmit, ServeRelease, ServeBeat, Reclaim, pumpVars
<1>4. CASE Close \/ Joined \/ (\E r \in requests : Lose(r)) \/ UNCHANGED vars
  BY <1>4 DEF Close, Joined, Lose, vars, pumpVars
<1> QED
  BY <1>1, <1>2, <1>3, <1>4, StepsOfNext

LEMMA TruthStep ==
  ASSUME TypeOK, OrderInv, NoOrphan, Truth, [Next]_vars
  PROVE  Truth'
<1> USE DEF Truth, Pumps, serverVars, markVars, pumpVars, Go
<1>0. \A p \in Pumps : open[p] # {} => p = pump
  BY DEF NoOrphan, OrderInv, PumpsInOrder
<1>1. ASSUME NEW a \in Admissions, Owner(a) PROVE Truth'
  <2>1. CASE Admit(a) \/ Admitted(a) \/ GoWithout(a) \/ SeePump(a) \/ BuildPump(a)
    BY <2>1 DEF Admit, Admitted, GoWithout, SeePump, BuildPump, TypeOK
  <2>2. CASE Register(a)
    <3>1. ~ released[a] /\ \A p \in Pumps : a \notin beat[p].gone
      BY <2>2 DEF Register, OrderInv, NamesWereHeld, OncePerAdmission, Late
    <3> QED
      BY <2>2, <3>1 DEF Register, TypeOK
  <2>3. CASE Release(a) \/ Released(a)
    BY <2>3 DEF Release, Released, TypeOK
  <2>4. CASE SendRelease(a)
    BY <2>4, <1>0 DEF SendRelease, TypeOK
  <2> QED
    BY <1>1, <2>1, <2>2, <2>3, <2>4 DEF Owner
<1>2. ASSUME NEW p \in Admissions, Daemon(p) PROVE Truth'
  <2>1. CASE Leave(p)
    BY <2>1 DEF Leave
  <2>2. CASE Beat(p)
    BY <2>2 DEF Beat, TypeOK
  <2>3. CASE BeatReply(p)
    BY <2>3, <1>0 DEF BeatReply, TypeOK, NoBeat
  <2>4. CASE BeatFails(p)
    BY <2>4 DEF BeatFails, TypeOK, NoBeat
  <2> QED
    BY <1>2, <2>1, <2>2, <2>3, <2>4 DEF Daemon
<1>3. ASSUME NEW a \in Admissions, Server(a) PROVE Truth'
  <2>1. CASE ServeAdmit(a)
    <3>1. lease[a] = "none"
      BY <2>1 DEF ServeAdmit, OrderInv, OncePerAdmission
    <3>2. \A b \in Admissions : b # a => lease'[b] = lease[b]
      BY <2>1, Domains DEF ServeAdmit
    <3>3. UNCHANGED <<owner, released, reclaimed, open, beat>>
      BY <2>1 DEF ServeAdmit
    <3>4. \A p \in Admissions : open[p] \subseteq Admissions
      BY Domains
    <3> QED
      BY <3>1, <3>2, <3>3, <3>4
  <2>2. CASE ServeRelease(a) \/ Reclaim(a)
    BY <2>2 DEF ServeRelease, Reclaim, TypeOK
  <2>3. CASE ServeBeat(a)
    <3>1. UNCHANGED <<lease, owner, released, reclaimed, open>>
      BY <2>3 DEF ServeBeat
    <3>2. \A b \in open[a] : lease[b] # "released"
      BY Domains DEF OrderInv, OncePerAdmission
    <3>3. PICK unknown \in SUBSET {b \in beat[a].ids : lease[b] = "released"} :
            /\ Served(a, unknown).gone =
                 unknown \cup {b \in beat[a].ids : lease[b] = "reclaimed"}
            /\ beat' = [beat EXCEPT ![a] = Served(a, unknown)]
      BY <2>3, ServeBeatCases
    <3>4. beat'[a].gone = unknown \cup {b \in beat[a].ids : lease[b] = "reclaimed"}
      BY <3>3, Domains
    <3>5. \A q \in Admissions : q # a => beat'[q] = beat[q]
      BY <3>3, Domains
    <3>6. \A b \in open[a] : b \in beat'[a].gone => lease[b] = "reclaimed"
      BY <3>2, <3>3, <3>4
    <3> QED
      BY <3>1, <3>5, <3>6
  <2> QED
    BY <1>3, <2>1, <2>2, <2>3 DEF Server
<1>4. CASE Close \/ Joined
  BY <1>4 DEF Close, Joined
<1>5. ASSUME NEW r \in requests, Lose(r) PROVE Truth'
  BY <1>5 DEF Lose
<1>6. CASE UNCHANGED vars
  BY <1>6 DEF vars
<1> QED
  BY <1>1, <1>2, <1>3, <1>4, <1>5, <1>6, StepsOfNext

LEMMA TruthInvariant == Spec => [](OrderInv /\ (NoOrphan => Truth))
<1>1. ASSUME Init PROVE OrderInv /\ Truth
  <2>1. \A p \in Admissions : open[p] = {} /\ beat[p] = NoBeat
    BY <1>1 DEF Init, Pumps
  <2>2. NoBeat.ids = {} /\ NoBeat.gone = {}
    BY DEF NoBeat
  <2>3. PumpsInOrder
    BY <1>1, <2>1 DEF Init, PumpsInOrder, Early, Pumps
  <2>4. NamesWereHeld
    BY <2>1, <2>2 DEF NamesWereHeld, Pumps
  <2>5. OncePerAdmission
    BY <1>1 DEF Init, OncePerAdmission, Late
  <2>6. Truth
    BY <1>1, <2>1 DEF Init, Truth, Pumps
  <2> QED
    BY <2>3, <2>4, <2>5, <2>6 DEF OrderInv
<1>2. TypeOK /\ OrderInv /\ (NoOrphan => Truth) /\ [Next]_vars
        => OrderInv' /\ (NoOrphan' => Truth')
  BY OrderStep, OrphansStay, TruthStep
<1> QED
  BY <1>1, <1>2, ThreadedTypeOK, PTL DEF Spec

\* Unless two threads raced to build the pump: whoever is told that a slot was
\* reclaimed has lost it, though another thread's release raced the beat.
THEOREM ThreadedReclaimsAreTrue == Spec => []ReclaimedIsTrue
<1>1. (NoOrphan => Truth) => ReclaimedIsTrue
  BY DEF Truth, ReclaimedIsTrue
<1> QED
  BY <1>1, TruthInvariant, PTL

\* Under the same condition no pump renews a slot whose Release was sent.
THEOREM ThreadedRenewsOnlyHeld == Spec => []RenewsOnlyHeld
<1>1. (NoOrphan => Truth) => RenewsOnlyHeld
  BY DEF Truth, RenewsOnlyHeld
<1> QED
  BY <1>1, TruthInvariant, PTL
=============================================================================
