-------------------------- MODULE ThreadedAdmission --------------------------
(***************************************************************************)
(* The synchronous twin of AsyncAdmission: concurrency slots held through  *)
(* ServiceBackend.admit by threads, renewed by daemon threads and torn     *)
(* down by close() (throttlekit/service_backend.py).                       *)
(*                                                                         *)
(* Every owner is a thread of its own and any two of them interleave, so   *)
(* a step is what happens under a pump's lock, one access to the backend's *)
(* _pump, or one end of an RPC.  All admissions here have heartbeat=True.  *)
(* _ensure_pump takes no lock: a pump is named after the admission whose   *)
(* thread built it.  The server and the network are those of               *)
(* AsyncAdmission; an admission is live there until released or reclaimed. *)
(***************************************************************************)
EXTENDS Naturals

CONSTANTS
  Admissions,   \* the calls of admit(heartbeat=True), one thread each
  NoPump,       \* Python's None in ServiceBackend._pump
  Warm          \* admissions long over, which may have left the backend a pump

ASSUME ThreadedAssumption ==
  /\ NoPump \notin Admissions
  /\ Warm \subseteq Admissions

VARIABLES
  lease,      \* lease[a]: the server's record of the slot
  requests,   \* Admit and Release requests on their way to the server
  reply,      \* reply[a]: the Admit reply on its way to the owner
  owner,      \* owner[a]: where the thread is
  released,   \* released[a]: Admission._released
  reclaimed,  \* reclaimed[a]: Admission._reclaimed
  pump,       \* ServiceBackend._pump
  open,       \* open[p]: _open of pump p
  thread,     \* thread[p]: the daemon thread of pump p
  stop,       \* stop[p]: _stop of pump p is set
  beat,       \* beat[p]: the Heartbeat call of pump p
  phase       \* how far close() is

vars == <<lease, requests, reply, owner, released, reclaimed, pump, open, thread,
          stop, beat, phase>>
serverVars == <<lease, requests>>
markVars == <<released, reclaimed>>
pumpVars == <<pump, open, thread, stop, beat>>

Pumps == Admissions

NoBeat == [at |-> "none", ids |-> {}, gone |-> {}]

Running == {"waiting", "beating"}

TypeOK ==
  /\ lease \in [Admissions -> {"none", "live", "released", "reclaimed"}]
  /\ requests \subseteq {"Admit", "Release"} \X Admissions
  /\ reply \in [Admissions -> {"none", "granted", "refused"}]
  /\ owner \in [Admissions -> {"start", "admitting", "admitted", "building", "built",
                               "holding", "releasing", "waiting", "done"}]
  /\ released \in [Admissions -> BOOLEAN]
  /\ reclaimed \in [Admissions -> BOOLEAN]
  /\ pump \in Pumps \cup {NoPump}
  /\ open \in [Pumps -> SUBSET Admissions]
  /\ thread \in [Pumps -> {"none", "gone"} \cup Running]
  /\ stop \in [Pumps -> BOOLEAN]
  /\ beat \in [Pumps -> [at : {"none", "sent", "served"},
                         ids : SUBSET Admissions, gone : SUBSET Admissions]]
  /\ phase \in {"open", "joining", "closed"}
  /\ \A a \in Admissions : owner[a] = "built" => pump # NoPump

\* A backend with no pump yet, or one whose pump was built for an admission that
\* is over by now.
Init ==
  /\ lease = [a \in Admissions |-> "none"]
  /\ requests = {}
  /\ reply = [a \in Admissions |-> "none"]
  /\ owner = [a \in Admissions |-> IF a \in Warm THEN "done" ELSE "start"]
  /\ released = [a \in Admissions |-> a \in Warm]
  /\ reclaimed = [a \in Admissions |-> FALSE]
  /\ pump \in {NoPump} \cup Warm
  /\ open = [p \in Pumps |-> {}]
  /\ thread = [p \in Pumps |-> IF p = pump THEN "waiting" ELSE "none"]
  /\ stop = [p \in Pumps |-> FALSE]
  /\ beat = [p \in Pumps |-> NoBeat]
  /\ phase = "open"

\* A thread goes from one place to the next.
Go(a, from, to) ==
  /\ owner[a] = from
  /\ owner' = [owner EXCEPT ![a] = to]

-----------------------------------------------------------------------------
(* The thread of an admission.                                             *)

\* admit() sends its request; a closed channel refuses it.
Admit(a) ==
  /\ Go(a, "start", "admitting")
  /\ phase # "closed"
  /\ requests' = requests \cup {<<"Admit", a>>}
  /\ UNCHANGED <<lease, reply, markVars, pumpVars, phase>>

\* The reply grants a slot.
Admitted(a) ==
  /\ Go(a, "admitting", "admitted")
  /\ reply[a] = "granted"
  /\ reply' = [reply EXCEPT ![a] = "none"]
  /\ UNCHANGED <<serverVars, markVars, pumpVars, phase>>

\* admit() ends with no slot the owner knows of: refused, or the call fails.
GoWithout(a) ==
  /\ Go(a, "admitting", "done")
  /\ reply' = [reply EXCEPT ![a] = "none"]
  /\ UNCHANGED <<serverVars, markVars, pumpVars, phase>>

\* Fault: there is no look, the pump is taken to be there.
SeePumpBlindly(a) ==
  /\ Go(a, "admitted", "built")
  /\ UNCHANGED <<serverVars, reply, markVars, pumpVars, phase>>

\* _ensure_pump looks whether there is a pump.
SeePump(a) ==
  /\ Go(a, "admitted", IF pump = NoPump THEN "building" ELSE "built")
  /\ UNCHANGED <<serverVars, reply, markVars, pumpVars, phase>>

\* There was none when it looked: it builds one.
BuildPump(a) ==
  /\ Go(a, "building", "built")
  /\ pump' = a
  /\ UNCHANGED <<serverVars, reply, markVars, open, thread, stop, beat, phase>>

\* Fault: a new thread is started only for the first lease registered.
RegisterUnstarted(a) ==
  /\ Go(a, "built", "holding")
  /\ open' = [open EXCEPT ![pump] = @ \cup {a}]
  /\ UNCHANGED <<serverVars, reply, markVars, pump, thread, stop, beat, phase>>

\* register(), under the lock of the pump _ensure_pump returned.
Register(a) ==
  /\ Go(a, "built", "holding")
  /\ open' = [open EXCEPT ![pump] = @ \cup {a}]
  /\ thread' = [thread EXCEPT ![pump] = IF @ = "none" THEN "waiting" ELSE @]
  /\ UNCHANGED <<serverVars, reply, markVars, pump, stop, beat, phase>>

\* release(): a no-op on a marked admission.
Release(a) ==
  /\ Go(a, "holding", IF released[a] THEN "done" ELSE "releasing")
  /\ released' = [released EXCEPT ![a] = TRUE]
  /\ UNCHANGED <<serverVars, reply, reclaimed, pumpVars, phase>>

\* Fault: the Release is sent with the lease still in the pump.
SendReleaseOnly(a) ==
  /\ Go(a, "releasing", IF phase = "closed" THEN "done" ELSE "waiting")
  /\ requests' = IF phase = "closed" THEN requests ELSE requests \cup {<<"Release", a>>}
  /\ UNCHANGED <<lease, reply, markVars, pumpVars, phase>>

\* _release_lease: the lease leaves the backend's pump, under its lock, and the
\* Release is sent; a closed channel raises.
SendRelease(a) ==
  /\ Go(a, "releasing", IF phase = "closed" THEN "done" ELSE "waiting")
  /\ open' = [open EXCEPT ![pump] = @ \ {a}]
  /\ requests' = IF phase = "closed" THEN requests ELSE requests \cup {<<"Release", a>>}
  /\ UNCHANGED <<lease, reply, markVars, pump, thread, stop, beat, phase>>

\* The Release call ends: answered, or failed with an error that is swallowed.
Released(a) ==
  /\ Go(a, "waiting", "done")
  /\ UNCHANGED <<serverVars, reply, markVars, pumpVars, phase>>

-----------------------------------------------------------------------------
(* The daemon thread of a pump, and close().                               *)

\* Fault: a thread told to stop goes on waiting while leases are open.
LeaveIdle(p) ==
  /\ thread[p] = "waiting"
  /\ stop[p]
  /\ open[p] = {}
  /\ thread' = [thread EXCEPT ![p] = "gone"]
  /\ UNCHANGED <<serverVars, reply, owner, markVars, pump, open, stop, beat, phase>>

\* A thread whose stop event is set leaves its loop at the next wait.
Leave(p) ==
  /\ thread[p] = "waiting"
  /\ stop[p]
  /\ thread' = [thread EXCEPT ![p] = "gone"]
  /\ UNCHANGED <<serverVars, reply, owner, markVars, pump, open, stop, beat, phase>>

\* The interval is over: one Heartbeat names every open lease.  On a closed
\* channel the call raises what the loop does not catch, and the thread dies.
Beat(p) ==
  /\ thread[p] = "waiting"
  /\ ~ stop[p]
  /\ open[p] # {}
  /\ \/ /\ phase # "closed"
        /\ thread' = [thread EXCEPT ![p] = "beating"]
        /\ beat' = [beat EXCEPT ![p] = [at |-> "sent", ids |-> open[p], gone |-> {}]]
     \/ /\ phase = "closed"
        /\ thread' = [thread EXCEPT ![p] = "gone"]
        /\ UNCHANGED beat
  /\ UNCHANGED <<serverVars, reply, owner, markVars, pump, open, stop, phase>>

\* The reply: reclaimed leases still open are marked, and renewed no more.
BeatReply(p) ==
  LET marked == beat[p].gone \cap open[p] IN
  /\ thread[p] = "beating"
  /\ beat[p].at = "served"
  /\ open' = [open EXCEPT ![p] = @ \ marked]
  /\ reclaimed' = [a \in Admissions |-> reclaimed[a] \/ a \in marked]
  /\ released' = [a \in Admissions |-> released[a] \/ a \in marked]
  /\ thread' = [thread EXCEPT ![p] = "waiting"]
  /\ beat' = [beat EXCEPT ![p] = NoBeat]
  /\ UNCHANGED <<serverVars, reply, owner, pump, stop, phase>>

\* The call fails with an RpcError: the next beat names the leases again.
BeatFails(p) ==
  /\ thread[p] = "beating"
  /\ thread' = [thread EXCEPT ![p] = "waiting"]
  /\ beat' = [beat EXCEPT ![p] = NoBeat]
  /\ UNCHANGED <<serverVars, reply, owner, markVars, pump, open, stop, phase>>

\* Fault: the thread is joined without being told to stop.
CloseUntold ==
  /\ phase = "open"
  /\ phase' = "joining"
  /\ UNCHANGED <<serverVars, reply, owner, markVars, pumpVars>>

\* close() tells the backend's pump to stop, and joins its thread if there is one.
Close ==
  /\ phase = "open"
  /\ stop' = [p \in Pumps |-> stop[p] \/ p = pump]
  /\ phase' = IF \E p \in Pumps : p = pump /\ thread[p] # "none" THEN "joining" ELSE "closed"
  /\ UNCHANGED <<serverVars, reply, owner, markVars, pump, open, thread, beat>>

\* The join returns: the thread is gone, or its beat has lasted longer than the
\* join's timeout.  Then the channel is closed.
Joined ==
  /\ phase = "joining"
  /\ \A p \in Pumps : stop[p] => thread[p] # "waiting"
  /\ phase' = "closed"
  /\ UNCHANGED <<serverVars, reply, owner, markVars, pumpVars>>

-----------------------------------------------------------------------------
(* The server and the network.                                             *)

ServeAdmit(a) ==
  /\ <<"Admit", a>> \in requests
  /\ requests' = requests \ {<<"Admit", a>>}
  /\ \E verdict \in {"granted", "refused"} :
       /\ lease' = [lease EXCEPT ![a] = IF verdict = "granted" THEN "live" ELSE @]
       /\ reply' = [reply EXCEPT ![a] = IF owner[a] = "admitting" THEN verdict ELSE "none"]
  /\ UNCHANGED <<owner, markVars, pumpVars, phase>>

ServeRelease(a) ==
  /\ <<"Release", a>> \in requests
  /\ requests' = requests \ {<<"Release", a>>}
  /\ lease' = [lease EXCEPT ![a] = IF @ = "live" THEN "released" ELSE @]
  /\ UNCHANGED <<reply, owner, markVars, pumpVars, phase>>

\* The reply to a heartbeat names the reclaimed leases of its request, and may
\* name a released one, which the server knows no more.
ServeBeat(p) ==
  /\ beat[p].at = "sent"
  /\ \E unknown \in SUBSET {a \in beat[p].ids : lease[a] = "released"} :
       beat' = [beat EXCEPT
         ![p].at = "served",
         ![p].gone = unknown \cup {a \in beat[p].ids : lease[a] = "reclaimed"}]
  /\ UNCHANGED <<serverVars, reply, owner, markVars, pump, open, thread, stop, phase>>

\* A lease is reclaimed: it was not renewed for its TTL.
Reclaim(a) ==
  /\ lease[a] = "live"
  /\ lease' = [lease EXCEPT ![a] = "reclaimed"]
  /\ UNCHANGED <<requests, reply, owner, markVars, pumpVars, phase>>

Lose(r) ==
  /\ r \in requests
  /\ requests' = requests \ {r}
  /\ UNCHANGED <<lease, reply, owner, markVars, pumpVars, phase>>

Owner(a) ==
  \/ Admit(a) \/ Admitted(a) \/ GoWithout(a)
  \/ SeePump(a) \/ BuildPump(a) \/ Register(a)
  \/ Release(a) \/ SendRelease(a) \/ Released(a)

Daemon(p) == Leave(p) \/ Beat(p) \/ BeatReply(p) \/ BeatFails(p)

Next ==
  \/ \E a \in Admissions :
       Owner(a) \/ Daemon(a) \/ ServeAdmit(a) \/ ServeRelease(a) \/ ServeBeat(a) \/ Reclaim(a)
  \/ Close \/ Joined
  \/ \E r \in requests : Lose(r)

Spec == Init /\ [][Next]_vars

\* Threads are scheduled; a beat is answered or fails, sooner or later.
FairSpec ==
  /\ Spec
  /\ \A p \in Pumps : WF_vars(Daemon(p))
  /\ WF_vars(Joined)

-----------------------------------------------------------------------------
(* Properties.                                                             *)

\* No pump but the backend's has a thread: _ensure_pump was not raced.
NoOrphan == \A p \in Pumps : p # pump => thread[p] = "none"

\* An admission marked reclaimed was reclaimed by the server: a release on one
\* thread racing a beat in flight on another is never mistaken for one.
ReclaimedIsTrue ==
  NoOrphan => \A a \in Admissions : reclaimed[a] => lease[a] = "reclaimed"

\* An admission held while the backend is open is in the pump of a thread that
\* runs and was not told to stop, whoever built that pump and however many
\* threads built one at once.
EveryHoldIsRenewed ==
  \A a \in Admissions :
    owner[a] = "holding" /\ ~ released[a] /\ phase = "open" =>
      \E p \in Pumps : a \in open[p] /\ thread[p] \in Running /\ ~ stop[p]

\* No pump goes on renewing a slot whose Release was sent.
RenewsOnlyHeld ==
  NoOrphan => \A p \in Pumps : \A a \in open[p] : owner[a] \in {"holding", "releasing"}

\* close() stops the heartbeat thread: every thread that runs when it is called
\* is told to stop.
CloseStopsThread ==
  [][Close => \A p \in Pumps : thread[p] \in Running => stop'[p]]_vars

\* Where the pump was there before these admissions, so that no thread builds one
\* beside it or after close() has found none: once the channel is closed, every
\* thread still running was told to stop.
CloseReachesThePump ==
  pump \in Warm /\ phase = "closed" => \A p \in Pumps : thread[p] \in Running => stop[p]

\* close() returns, and then every thread it told to stop ends, whatever beat it
\* was in and although the join may have given up on it.
CloseEnds ==
  phase = "joining" ~>
    phase = "closed" /\ \A p \in Pumps : stop[p] => thread[p] \notin Running
=============================================================================
