--------------------------- MODULE AsyncAdmission ---------------------------
(***************************************************************************)
(* The life of concurrency slots held through AsyncServiceBackend.admit    *)
(* (throttlekit/service_backend_async.py): admit, hold, release, the       *)
(* background task that renews opt-in leases, and aclose.                  *)
(*                                                                         *)
(* Everything on the client runs on one event loop, so a step is the code  *)
(* between two awaits.  Requests and replies are separate steps of the     *)
(* server, which is outside the repository and modelled from the contract  *)
(* the client relies on: a lease not renewed for its TTL is reclaimed,     *)
(* Release is idempotent, and a heartbeat reports the reclaimed leases     *)
(* among those it names.  The TTL is two phases of a lease, fresh and then *)
(* stale, with no clock: a lease may lapse at any time if it is not        *)
(* renewed meanwhile.                                                      *)
(***************************************************************************)
EXTENDS Naturals, FiniteSets

CONSTANTS
  Admissions,   \* the calls of admit(); each is granted a lease id of its own
  Renewed       \* those with heartbeat=True

ASSUME AdmissionAssumption == Renewed \subseteq Admissions

VARIABLES
  lease,      \* lease[a]: the server's record of the slot
  requests,   \* Admit and Release requests on their way to the server
  reply,      \* reply[a]: the Admit reply on its way to the owner
  owner,      \* owner[a]: the task that called admit
  released,   \* released[a]: AsyncAdmission._released
  reclaimed,  \* reclaimed[a]: AsyncAdmission._reclaimed
  open,       \* _AsyncHeartbeatPump._open
  task,       \* _AsyncHeartbeatPump._task
  beat,       \* the Heartbeat call the pump awaits
  phase       \* how far aclose() is, or that the client is gone

vars == <<lease, requests, reply, owner, released, reclaimed, open, task, beat, phase>>
serverVars == <<lease, requests>>
pumpVars == <<open, task, beat>>

Live == {"fresh", "stale"}

NoBeat == [at |-> "none", ids |-> {}, gone |-> {}]

TypeOK ==
  /\ lease \in [Admissions -> {"none", "released", "reclaimed"} \cup Live]
  /\ requests \subseteq {"Admit", "Release"} \X Admissions
  /\ reply \in [Admissions -> {"none", "granted", "refused"}]
  /\ owner \in [Admissions -> {"start", "admitting", "holding", "releasing", "done"}]
  /\ released \in [Admissions -> BOOLEAN]
  /\ reclaimed \in [Admissions -> BOOLEAN]
  /\ open \subseteq Renewed
  /\ task \in {"none", "waiting", "beating"}
  /\ beat \in [at : {"none", "sent", "served"}, ids : SUBSET Renewed, gone : SUBSET Renewed]
  /\ phase \in {"open", "stopping", "closed", "crashed"}

Init ==
  /\ lease = [a \in Admissions |-> "none"]
  /\ requests = {}
  /\ reply = [a \in Admissions |-> "none"]
  /\ owner = [a \in Admissions |-> "start"]
  /\ released = [a \in Admissions |-> FALSE]
  /\ reclaimed = [a \in Admissions |-> FALSE]
  /\ open = {}
  /\ task = "none"
  /\ beat = NoBeat
  /\ phase = "open"

-----------------------------------------------------------------------------
(* The owner of an admission.                                              *)

\* admit() sends its request.
Admit(a) ==
  /\ owner[a] = "start"
  /\ phase = "open"
  /\ owner' = [owner EXCEPT ![a] = "admitting"]
  /\ requests' = requests \cup {<<"Admit", a>>}
  /\ UNCHANGED <<lease, reply, released, reclaimed, pumpVars, phase>>

\* register() puts the admission among the leases to renew and starts the pump
\* if there is none.  Once aclose() has set _stop, a pump started here returns
\* before its first beat: as good as none.
Register(a) ==
  /\ open' = open \cup {a}
  /\ task' = IF task = "none" /\ phase = "open" THEN "waiting" ELSE task
  /\ UNCHANGED beat

\* Fault: every admission is registered, whatever its heartbeat flag.
HoldAll(a) ==
  /\ owner[a] = "admitting"
  /\ reply[a] = "granted"
  /\ phase \in {"open", "stopping"}
  /\ owner' = [owner EXCEPT ![a] = "holding"]
  /\ reply' = [reply EXCEPT ![a] = "none"]
  /\ Register(a)
  /\ UNCHANGED <<serverVars, released, reclaimed, phase>>

\* admit() returns an admission that holds a slot.
Hold(a) ==
  /\ owner[a] = "admitting"
  /\ reply[a] = "granted"
  /\ phase \in {"open", "stopping"}
  /\ owner' = [owner EXCEPT ![a] = "holding"]
  /\ reply' = [reply EXCEPT ![a] = "none"]
  /\ IF a \in Renewed THEN Register(a) ELSE UNCHANGED pumpVars
  /\ UNCHANGED <<serverVars, released, reclaimed, phase>>

\* admit() ends with no slot the owner knows of: it is refused, or the call
\* fails or is cancelled, before the server saw the request or after it.
GoWithout(a) ==
  /\ owner[a] = "admitting"
  /\ owner' = [owner EXCEPT ![a] = "done"]
  /\ reply' = [reply EXCEPT ![a] = "none"]
  /\ UNCHANGED <<serverVars, released, reclaimed, pumpVars, phase>>

\* Fault: the lease stays with the pump while it is released.
ReleaseKeepsOpen(a) ==
  /\ owner[a] = "holding"
  /\ phase \in {"open", "stopping"}
  /\ ~ released[a]
  /\ released' = [released EXCEPT ![a] = TRUE]
  /\ owner' = [owner EXCEPT ![a] = "releasing"]
  /\ requests' = requests \cup {<<"Release", a>>}
  /\ UNCHANGED <<lease, reply, reclaimed, pumpVars, phase>>

\* release(), called at the end of the block.  The admission leaves the pump
\* before the Release is sent; a marked admission sends none.  On a closed
\* channel the call raises instead of sending.
Release(a) ==
  /\ owner[a] = "holding"
  /\ released' = [released EXCEPT ![a] = TRUE]
  /\ \/ /\ released[a]
        /\ owner' = [owner EXCEPT ![a] = "done"]
        /\ UNCHANGED <<requests, open>>
     \/ /\ ~ released[a]
        /\ open' = open \ {a}
        /\ IF phase = "closed"
             THEN owner' = [owner EXCEPT ![a] = "done"] /\ UNCHANGED requests
             ELSE /\ owner' = [owner EXCEPT ![a] = "releasing"]
                  /\ requests' = requests \cup {<<"Release", a>>}
  /\ UNCHANGED <<lease, reply, reclaimed, task, beat, phase>>

\* The Release call ends: answered, failed (an error that is swallowed) or
\* cancelled with its task.  A second release() is a no-op.
Released(a) ==
  /\ owner[a] = "releasing"
  /\ owner' = [owner EXCEPT ![a] = "done"]
  /\ UNCHANGED <<serverVars, reply, released, reclaimed, pumpVars, phase>>

-----------------------------------------------------------------------------
(* The heartbeat pump, _AsyncHeartbeatPump._run, and aclose.               *)

\* The interval is over: one Heartbeat names every open lease.
Beat ==
  /\ task = "waiting"
  /\ phase = "open"
  /\ open # {}
  /\ task' = "beating"
  /\ beat' = [at |-> "sent", ids |-> open, gone |-> {}]
  /\ UNCHANGED <<serverVars, reply, owner, released, reclaimed, open, phase>>

\* Fault: a reclaimed lease is marked and goes on being renewed.
BeatReplyKeeps ==
  LET marked == beat.gone \cap open IN
  /\ task = "beating"
  /\ phase = "open"
  /\ beat.at = "served"
  /\ reclaimed' = [a \in Admissions |-> reclaimed[a] \/ a \in marked]
  /\ released' = [a \in Admissions |-> released[a] \/ a \in marked]
  /\ task' = "waiting"
  /\ beat' = NoBeat
  /\ UNCHANGED <<serverVars, reply, owner, open, phase>>

\* The reply: reclaimed leases still open are marked, and renewed no more.
BeatReply ==
  LET marked == beat.gone \cap open IN
  /\ task = "beating"
  /\ phase = "open"
  /\ beat.at = "served"
  /\ open' = open \ marked
  /\ reclaimed' = [a \in Admissions |-> reclaimed[a] \/ a \in marked]
  /\ released' = [a \in Admissions |-> released[a] \/ a \in marked]
  /\ task' = "waiting"
  /\ beat' = NoBeat
  /\ UNCHANGED <<serverVars, reply, owner, phase>>

\* Fault: an error of one beat ends the pump.
BeatFailsForGood ==
  /\ task = "beating"
  /\ phase = "open"
  /\ task' = "none"
  /\ beat' = NoBeat
  /\ UNCHANGED <<serverVars, reply, owner, released, reclaimed, open, phase>>

\* The call raises: the pump carries on, the next beat names the leases again.
BeatFails ==
  /\ task = "beating"
  /\ phase = "open"
  /\ task' = "waiting"
  /\ beat' = NoBeat
  /\ UNCHANGED <<serverVars, reply, owner, released, reclaimed, open, phase>>

\* Fault: the channel is closed without waiting for the cancelled task.
CloseAtOnce ==
  /\ phase = "open"
  /\ phase' = "closed"
  /\ UNCHANGED <<serverVars, reply, owner, released, reclaimed, pumpVars>>

\* aclose() stops the pump and cancels its task, if there is one.
Close ==
  /\ phase = "open"
  /\ phase' = IF task = "none" THEN "closed" ELSE "stopping"
  /\ UNCHANGED <<serverVars, reply, owner, released, reclaimed, pumpVars>>

\* The task is torn down, wherever it was; then the channel is closed.
TornDown ==
  /\ phase = "stopping"
  /\ phase' = "closed"
  /\ task' = "none"
  /\ beat' = NoBeat
  /\ UNCHANGED <<serverVars, reply, owner, released, reclaimed, open>>

\* The client process dies.
Crash ==
  /\ phase # "crashed"
  /\ phase' = "crashed"
  /\ owner' = [a \in Admissions |-> "done"]
  /\ reply' = [a \in Admissions |-> "none"]
  /\ open' = {}
  /\ task' = "none"
  /\ beat' = NoBeat
  /\ UNCHANGED <<serverVars, released, reclaimed>>

-----------------------------------------------------------------------------
(* The server.                                                             *)

\* Admit takes a slot, or the policy refuses.
ServeAdmit(a) ==
  /\ <<"Admit", a>> \in requests
  /\ requests' = requests \ {<<"Admit", a>>}
  /\ \E verdict \in {"granted", "refused"} :
       /\ lease' = [lease EXCEPT ![a] = IF verdict = "granted" THEN "fresh" ELSE @]
       /\ reply' = [reply EXCEPT ![a] = IF owner[a] = "admitting" THEN verdict ELSE "none"]
  /\ UNCHANGED <<owner, released, reclaimed, pumpVars, phase>>

\* Release frees the slot, if it is still held.
ServeRelease(a) ==
  /\ <<"Release", a>> \in requests
  /\ requests' = requests \ {<<"Release", a>>}
  /\ lease' = [lease EXCEPT ![a] = IF @ \in Live THEN "released" ELSE @]
  /\ UNCHANGED <<reply, owner, released, reclaimed, pumpVars, phase>>

\* A heartbeat renews the live leases it names and reports the reclaimed ones.
\* Nothing says what it reports of a released one: it may call it reclaimed too.
ServeBeat ==
  /\ beat.at = "sent"
  /\ lease' = [a \in Admissions |->
                 IF a \in beat.ids /\ lease[a] \in Live THEN "fresh" ELSE lease[a]]
  /\ \E unknown \in SUBSET {a \in beat.ids : lease[a] = "released"} :
       beat' = [beat EXCEPT !.at = "served",
                            !.gone = unknown \cup {a \in beat.ids : lease[a] = "reclaimed"}]
  /\ UNCHANGED <<requests, reply, owner, released, reclaimed, open, task, phase>>

\* A lease's TTL runs: half of it is over, then all of it.
Age(a) ==
  /\ lease[a] \in Live
  /\ lease' = [lease EXCEPT ![a] = IF @ = "fresh" THEN "stale" ELSE "reclaimed"]
  /\ UNCHANGED <<requests, reply, owner, released, reclaimed, pumpVars, phase>>

\* A request is lost on its way.
Lose(r) ==
  /\ r \in requests
  /\ requests' = requests \ {r}
  /\ UNCHANGED <<lease, reply, owner, released, reclaimed, pumpVars, phase>>

Next ==
  \/ \E a \in Admissions :
       \/ Admit(a) \/ Hold(a) \/ GoWithout(a) \/ Release(a) \/ Released(a)
       \/ ServeAdmit(a) \/ ServeRelease(a) \/ Age(a)
  \/ Beat \/ BeatReply \/ BeatFails \/ Close \/ TornDown \/ Crash
  \/ ServeBeat
  \/ \E r \in requests : Lose(r)

Spec == Init /\ [][Next]_vars

-----------------------------------------------------------------------------
(* Fairness.  The server's TTL runs and the loop's timer fires.  Beats may *)
(* fail on the way there or back any number of times, but not every time.  *)

FairSpec ==
  /\ Spec
  /\ \A a \in Admissions : WF_vars(Age(a))
  /\ WF_vars(Beat)
  /\ SF_vars(ServeBeat)
  /\ SF_vars(BeatReply)

-----------------------------------------------------------------------------
(* Properties.                                                             *)

\* An admission the client marks reclaimed was reclaimed by the server: a lease
\* the owner released meanwhile is never mistaken for one, though a beat that
\* named it was in flight.
ReclaimedIsTrue == \A a \in Admissions : reclaimed[a] => lease[a] = "reclaimed"

\* Every opt-in admission held while the backend is open is renewed: it is among
\* the leases the next beat names, and there is a pump to beat, whatever beats
\* failed and however often the pump ran out of leases before.
EveryHoldIsRenewed ==
  \A a \in Renewed :
    owner[a] = "holding" /\ ~ released[a] /\ phase = "open" => a \in open /\ task # "none"

\* The pump renews nothing its owner gave back or never got: what it would name
\* next is held and not released.
RenewsOnlyHeld == \A a \in open : owner[a] = "holding" /\ ~ released[a]

\* The pump is torn down before the channel is closed: no beat is in flight then.
NoBeatOnClosedChannel == phase = "closed" => beat.at = "none"

\* No slot leaks: once its owner is done, was refused, gave up or crashed, the
\* slot is given back or reclaimed, though the Admit reply or the Release be
\* lost and the pump go on renewing the other leases.
SlotsComeBack ==
  \A a \in Admissions : owner[a] = "done" ~> lease[a] \notin Live

\* A holder with heartbeat=True learns that its slot was reclaimed, unless it
\* stops holding it or the backend is closed.
ReclaimIsSignalled ==
  \A a \in Renewed :
    owner[a] = "holding" /\ lease[a] = "reclaimed"
      ~> reclaimed[a] \/ owner[a] # "holding" \/ phase # "open"
=============================================================================
