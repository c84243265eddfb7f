--------------------------- MODULE HeartbeatTiming ---------------------------
(***************************************************************************)
(* Time in the renewal of one lease: the pump waits its interval, beats,   *)
(* waits for the reply, and only then waits its interval again             *)
(* (service_backend.py and service_backend_async.py, _run), while the      *)
(* server's TTL, twice the interval, runs since the last renewal.          *)
(*                                                                         *)
(* Time is discrete and only what is left of each span is kept, so the     *)
(* model needs no bound on time.  A call takes at most MaxDelay from       *)
(* request to reply or failure.  The server is outside the repository.     *)
(***************************************************************************)
EXTENDS Integers

CONSTANTS
  Interval,   \* heartbeat_interval
  Ttl,        \* the server's lease TTL
  MaxDelay    \* the longest an RPC takes

\* The TTL is the one the docstring of ServiceBackend names; that calls take
\* less than a third of an interval is the reader's to judge.
ASSUME TimingAssumption ==
  /\ Interval \in Nat
  /\ MaxDelay \in Nat
  /\ Ttl = 2 * Interval
  /\ 3 * MaxDelay < Interval

VARIABLES
  left,     \* what is left of the lease's TTL; 0 once it is reclaimed
  pump,     \* the pump waits, or its beat was sent, or was served
  wait,     \* what is left until the next beat
  flight,   \* how long the beat in progress has taken
  missed,   \* a beat that named the lease has failed
  unserved  \* a beat never reached the server since it last renewed the lease
            \* for a beat

vars == <<left, pump, wait, flight, missed, unserved>>

TypeOK ==
  /\ left \in 0 .. Ttl
  /\ pump \in {"waiting", "sent", "served"}
  /\ wait \in 0 .. (Interval + MaxDelay)
  /\ flight \in 0 .. MaxDelay
  /\ missed \in BOOLEAN
  /\ unserved \in {"first", "no", "yes"}

\* admit() has returned and registered its lease, up to MaxDelay after it was
\* granted; the pump is anywhere in its cycle, perhaps awaiting the reply to a
\* beat that does not name the lease.
Init ==
  /\ left \in (Ttl - MaxDelay) .. Ttl
  /\ pump = "waiting"
  /\ wait \in 0 .. (Interval + MaxDelay)
  /\ flight = 0
  /\ missed = FALSE
  /\ unserved = "first"

\* The wait is over: the beat is sent.
Beat ==
  /\ pump = "waiting"
  /\ wait = 0
  /\ pump' = "sent"
  /\ flight' = 0
  /\ UNCHANGED <<left, wait, missed, unserved>>

\* The server renews the lease, unless it has reclaimed it.
ServeBeat ==
  /\ pump = "sent"
  /\ pump' = "served"
  /\ left' = IF left > 0 THEN Ttl ELSE 0
  /\ unserved' = "no"
  /\ UNCHANGED <<wait, flight, missed>>

\* Fault: the pump waits for the whole TTL.
BeatReplyLazy ==
  /\ pump = "served"
  /\ pump' = "waiting"
  /\ wait' = Ttl
  /\ flight' = 0
  /\ UNCHANGED <<left, missed, unserved>>

\* The reply arrives: the interval starts anew.
BeatReply ==
  /\ pump = "served"
  /\ pump' = "waiting"
  /\ wait' = Interval
  /\ flight' = 0
  /\ UNCHANGED <<left, missed, unserved>>

\* Fault: a failed beat is repeated at once.
BeatFailsEager ==
  /\ pump \in {"sent", "served"}
  /\ pump' = "waiting"
  /\ wait' = 0
  /\ flight' = 0
  /\ missed' = TRUE
  /\ unserved' = IF pump = "sent" /\ unserved # "first" THEN "yes" ELSE unserved
  /\ UNCHANGED left

\* The call fails on its way there or back: the interval starts anew.
BeatFails ==
  /\ pump \in {"sent", "served"}
  /\ pump' = "waiting"
  /\ wait' = Interval
  /\ flight' = 0
  /\ missed' = TRUE
  /\ unserved' = IF pump = "sent" /\ unserved # "first" THEN "yes" ELSE unserved
  /\ UNCHANGED left

\* One unit of time passes; nothing that is due is overtaken.
Tick ==
  /\ \/ /\ pump = "waiting"
        /\ wait > 0
        /\ wait' = wait - 1
        /\ UNCHANGED flight
     \/ /\ pump # "waiting"
        /\ flight < MaxDelay
        /\ flight' = flight + 1
        /\ UNCHANGED wait
  /\ left' = IF left > 0 THEN left - 1 ELSE 0
  /\ UNCHANGED <<pump, missed, unserved>>

Next == Beat \/ ServeBeat \/ BeatReply \/ BeatFails \/ Tick

Spec == Init /\ [][Next]_vars

-----------------------------------------------------------------------------
(* Properties.                                                             *)

\* The pump's pace is enough: a lease none of whose beats failed is never
\* reclaimed, wherever in its cycle the pump was when the lease was registered.
NoMissNoLoss == ~ missed => left > 0

\* "If a beat is missed the server reclaims the slot" (Admission): once a beat
\* has not reached the server, the lease is gone before the next one is sent.
\* The interval between two beats is never less than half the TTL, so a lease
\* renewed by a beat does not last until the second beat after it.
MissIsLoss == unserved = "yes" /\ pump = "sent" => left = 0

\* "The next beat retries while the lease TTL still holds" (_run): a beat that
\* failed is followed by another that finds the lease alive.
RetryFindsLease == missed /\ pump = "sent" => left > 0
=============================================================================
