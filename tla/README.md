# Verification of throttlekit-py

TLA+ models of the ThrottleKit Python client (`src/src/throttlekit/`), the TLC
runs that check them on small instances, and the theorems about them that TLAPS
checks for every instance.

The package is a *client*: the rate-limit decisions of the service door are
computed by a Node server that is not in the repository. What the client
decides for itself is which leased units it may still spend, which concurrency
slots it must renew or give back, which script call it must repeat, and what an
HTTP request becomes when a decision or an error comes back. That is what is
modelled; servers, networks and clocks are modelled as far as the client relies
on them, and marked external in `PROJECT.json`.

## 1. Inventory

| Component | Source | State | Operations | Hard part |
|---|---|---|---|---|
| Lease arithmetic | `lease_spender.py` | `_credits`, `_expires_at` of one `LeaseSpender` | `apply_lease`, `spend`, `reset` | the discard at the window boundary |
| Fleet leasing | `fleet_backend.py`, `fleet_backend_async.py` | one `LeaseSpender` per limiter, created on the first reply | `check` (loop of spend and Reserve), `reserve` | callers share the spender across an await; the clock is read once per call; lost replies; window roll-over meanwhile |
| Admissions (asyncio) | `service_backend_async.py` | `_released`, `_reclaimed` per admission; `_open`, `_task`, `_stop` of the pump | `admit`, `release`, `_run`, `aclose` | a beat in flight while leases come and go; lost Release; teardown order |
| Admissions (threads) | `service_backend.py` | the same, with a lock and a daemon thread | `admit`, `_ensure_pump`, `release`, `_run`, `close` | lazy creation without a lock; join with a timeout; the error that ends the thread |
| Redis door | `redis_backend.py`, `redis_backend_async.py`, `_scripts/*.check.lua` | one Redis key per limit, the script cache | `check` (EVALSHA, then EVAL on NOSCRIPT), five scripts | exactly-once execution of a script; arithmetic of the scripts at boundaries; key expiry |
| Web adapters | `ratelimit.py`, `contrib/*.py`, `headers.py`, `errors.py` | the headers a request waits with, per request | decorator, middleware, dependency, the checker called on a loop, a worker or a thread | which errors fail open; a sync checker on an event loop; a hung check; headers made on one clock and read on another |
| Stateless RPCs | `service_backend*.py` (`check`, `check_many`, `peek`, `forecast`, `debit`), `monitor_backend*.py`, `_grpc.py` | none | one RPC each, errors mapped | none: marshalling |
| Packaging and contract | `_contract.py`, `__init__.py`, `_version.py`, `hatch_build.py`, `scripts/` | cached files | load, vendor, generate | none: pure I/O |

How they interact: a `LeasedLimiter` calls its `FleetBackend` (RPC) and its
`LeaseSpender` (in process); the tasks or threads of a process share the
limiter. An `Admission` calls back into its backend to leave the pump and send
Release; the pump calls into the admission to mark it reclaimed; all share
`_open`. The adapters call a checker, which is a bound method of a backend.

What makes each correct:

* leasing: nothing is served that was not granted, in the window it was granted
  for; a denial is the server's; a call ends; the fleet stays within the limit;
* admissions: a held slot is renewed, a slot given back or lost is not, a
  reclaimed holder learns it and nobody else is told so, no slot leaks;
* Redis door: a call is charged at most once, and as its answer says; a script
  keeps its ceiling, and its `remaining`, `reset_at` and `retry_after_ms` are
  true; the key's expiry forgets nothing that matters;
* adapters: a view runs when admitted, or when the limiter is reported unreachable
  and the adapter is told to fail open, and it runs once; the headers are the
  request's own, and who waits as they say has waited long enough; a check that
  hangs delays no other request.

## 2. Modules

| Module | Models | Extends |
|---|---|---|
| `LeaseSpender` | `lease_spender.py` as pure operators on one spender | |
| `FleetLease` | `LeasedLimiter.check` by overlapping callers, the Fleet server, process crashes, the clock | `LeaseSpender` |
| `WindowBudget` | the abstract promise: a budget per window, handed out and spent | |
| `FleetBudget` | sums over limiters and windows | `FleetLease` |
| `SumProofs` | lemmas about the library's sum over a finite set | `TLAPS` |
| `FleetProofs` | theorems about `FleetLease` and `FleetBudget` | `FleetBudget`, `SumProofs` |
| `AsyncAdmission` | admissions, pump task and `aclose` on one event loop | |
| `AsyncAdmissionProofs` | theorems about it | `AsyncAdmission`, `TLAPS` |
| `ThreadedAdmission` | the same with threads, a lazily built pump, a daemon thread and `close` | |
| `ThreadedAdmissionProofs` | theorems about it | `ThreadedAdmission`, `TLAPS` |
| `HeartbeatTiming` | one lease's TTL against the pump's pace, in discrete time | |
| `HeartbeatTimingProofs` | theorems about it | `HeartbeatTiming`, `TLAPS` |
| `LuaScripts` | the five check scripts as pure operators | |
| `RedisLimiter` | `RedisBackend.check` by concurrent callers of one key | `LuaScripts` |
| `RedisLimiterProofs` | that a call is charged once, and lemmas on `gcra` and `tokenBucket` | `RedisLimiter`, `TLAPS` |
| `RedisScriptProofs` | theorems about the answers, ceilings, expiry and types of all five scripts | `RedisLimiterProofs`, `SumProofs` |
| `WebGate` | requests through the adapters and the decorator, over any checker, with one event loop or threads | |
| `WebGateProofs` | theorems about it | `WebGate`, `TLAPS` |
| `MCFleetLease`, `MCRedisLimiter`, `MCWebGate` | symmetry and values for TLC | the module of that name (`FleetBudget` for the first) |

Operators commented "Fault:" are plausible mistakes in the definition that
follows them. No specification uses them: each shows, put in the place of that
definition, that some property notices.

### From the code to the models

**Leasing.** `spender[l]` is `_spender` (`NoSpender` for `None`) with its
`_credits` and `_expires_at`. `check` is cut at its awaits: `Call` is the code up
to the first Reserve or the answer, `Denied` and `Granted` the code after a
reply, up to the next Reserve or the answer. `TrySpend` is the head of the loop:
`Reject` (`_require_cost`), `Serve`, `Refresh`. `ts[t]` is the clock reading,
taken once per call. `RpcFails` is an error or a cancellation, before the server
saw the request or after it granted it. `ServerReserve` is `min(wants, available)`
of the current window, the contract in the comments of `check`. With one task
per limiter the model is the synchronous limiter with one caller. `Hanging` holds
the tasks whose Reserve may never be answered: the code gives it no deadline.
`allotted` and `served` only record, by window, what the properties compare.

**Admissions.** `owner[a]` is where the caller of `admit` is; `released[a]` and
`reclaimed[a]` are the flags of the admission; `open`, `task` (or `thread[p]`)
and `stop[p]` are the pump's fields; `beat` is the Heartbeat in progress with the
snapshot it names. `lease` and `requests` are the server's and the network's. In
`ThreadedAdmission` the look at `_pump`, the assignment to it and the
registration under the pump's lock are three steps, since `_ensure_pump` takes no
lock; a pump is named after the admission whose thread built it. `Lose` drops a
request; a lost reply is `GoWithout`, `Released` or `BeatFails`. The server may
report a released lease as reclaimed or not: nothing says which.

**Pace.** `left` is what is left of the TTL, `wait` of the interval, `flight`
what the beat has taken so far. Because only what is left is kept, the model
needs no bound on time.

**Redis.** A key's data is a set (empty when missing). A script takes data,
instant and cost to the reply, the data it leaves and the TTL it sets; `EvalSha`
and `Eval` run it atomically, which is what Redis does. Fractions (arrival
times, tokens, weights) are integers scaled by their denominator. `Flush` makes
Redis forget its scripts; `Fails` loses a command or a reply. An explicit `now`
of 0 is the sentinel for the server's clock, as in the code; `own` says whether
the callers of a run may pass one, and `Explicit` of which kinds they may. What a
call was answered and charged is forgotten when it ends.

**Web.** `app` is one way of setting an application up: the site (`dependency` is
FastAPI's `RateLimit`, `middleware` Starlette's, `flask`, `django` with or without
its middleware, and the two forms of `ratelimit.py`'s decorator), the checker, and
the options that change what happens. A request is cut where it may wait: `Enter`
is the call of the adapter, `Call` the call of the checker (on the loop, on a
worker of the executor or on the request's thread: `CheckRunsOn`), `Serve` the
limiter's decision and charge, `Return` the reply or the failure of the call (with
or without the charge), `Resume` everything the adapter does with the outcome up
to the view or the response, `ViewReturns` and `ViewRaises` the end of the view.
`_resolve_sync` raising `TypeError` at an awaitable is the second branch of
`Call`. `extra` holds the headers made before the view for the response after it:
those Starlette's middleware keeps in its closure and those FastAPI puts on the
response it is injected. `hung` is the set of requests whose check is never
answered. `MayRun` is the event loop: no handler of an asynchronous site takes a
step while a check blocks it.

## 3. Runs

| Run | Question | Bounds |
|---|---|---|
| `fleet_serial` | Is a window ever overspent, and does leasing implement `WindowBudget`? | 2 limiters with a caller each, unit costs, batch 2, limit 3, clocks off by one either way, 2 windows |
| `fleet_overlap` | Do overlapping callers of one limiter create budget, invent denials, waste a grant or never return? | 2 tasks, costs 0 (invalid), 1, 2, batch 2, limit 3, 2 rounds, 2 windows |
| `admission` | Does the pump renew, mark and drop exactly the right leases; does every slot come back and every holder learn of a reclaim? | 3 admissions, 2 renewed; losses, expiry, `aclose` and a crash at any time |
| `threads` | The same of threads that build the pump under each other, and of `close`. | a backend with or without a pump, 2 threads |
| `heartbeat` | Is the pace enough, and for how many lost beats? | interval 10, TTL 20, delay up to 3 |
| `redis` | Is a call charged at most once and as answered; does each script keep its ceiling, and are its answers true? | 2 callers, limit 3, costs 1 and 2, 7 instants: a window of 4 and most of the next; flushes and losses; gcra also with instants that lag |
| `web` | Who runs unpaid, how often does a view run, are the headers enough and the request's own, whom does a hung check delay? | 2 requests, all sites and checkers, quota 1, window 3, seconds of 2, skew 1, 5 instants; 1 or 2 workers |
| `fleet_carry_over`, `fleet_fast_clock`, `threads_pump_race`, `heartbeat_retry`, `web_outage` | The findings of section 6. | the smallest that show them |

Why the bounds suffice: two windows are what a roll-over needs, and a third adds
no new relation between a lease and a boundary. Two callers give every pair of a
reply and another call's step, and limit 3 with batch 2 gives the full grant, the
partial grant and the refusal. In the admission models leases interact only
through the shared pump, its one beat and `close`, so a pair of renewed leases
and one that is not show the interactions. In `redis` the parameters are
chosen so that units come back between instants (2 cells in 3 ms, 2 tokens in
3 ms) and that a bucket of the sliding window weighs in part. Times of a few
milliseconds stand for any: the scripts only add, compare and round them. In
`web` requests meet at the limiter, on the loop and in the executor only: with a
quota of 1, two requests are admitted and denied in either order, and one worker
is one too few for both. The window of 3 and the second of 2 make every wait one
that must be rounded. Applications that differ only in an option the site ignores
are left out, as are options crossed with every checker.

`CHECK_DEADLOCK FALSE` appears where the system really comes to rest: every
admission over and the backend closed, every request answered or hung.

What the properties leave to assumptions:

* `PerWindow`, `FleetBound` and `ImplementsBudget` are checked for serial use and
  unit costs. For larger costs they fail (section 6); for overlapping calls
  `NeverCreatesBudget` is what remains true.
* `DenialMeansDry` is checked for serial use. With overlapping callers a refusal
  on its way is returned even if another call's grant has meanwhile left credits.
* `GrantMakesProgress` needs clocks that are not ahead of the server's.
* `AllowIsCurrent` speaks of the clock reading a call began with: a grant whose
  window ends while the reply travels is still spent with that reading.
* `Ceiling` is checked on the server's clock. Explicit instants that go back
  break it for any limiter that stores the last instant, and the docstring of
  `RedisBackend.check` asks a fleet not to pass them.
* `ResetIsFull` leaves out `slidingWindowLog`: its `reset_at` is when the oldest
  unit comes back, not when `decision.py` says, "fully replenished".
* `RemainingIsSpendable`, `RetryIsNeeded` and `RetryIsEnough` are about a key
  nobody else uses in between. `RetryIsEnough` leaves out `slidingWindow`, which
  only estimates.
* `CheckReturns` is about callers whose Reserve is answered or fails; in
  `fleet_overlap` the other caller's may hang. `DenialIsServers` and
  `GrantMakesProgress` hold of both.
* `AdviceIsEnough` allows `RateLimit-Reset` to be short by the difference of the
  clocks (`Skew`): the reset is an instant of the server minus the client's now.
  `Retry-After` is a duration and is exact.
* `UnpaidOnlyInOutage` says nothing of the other direction: a check that fails
  after it was charged is an outage for the adapter, and a request paid for may be
  turned away.
* `HangsAreIsolated` excludes the case that the executor has no thread left,
  where requests really wait for ever.
* `CloseReachesThePump` speaks of a pump that predates the admissions. A thread
  that registers after `close` on a backend without a pump starts one nobody
  stops.

### Fairness

* `FleetLease!FairSpec`: weak fairness of the task resuming and, for the tasks
  outside `Hanging`, of "the server answers or the call fails". gRPC fails a call
  when the connection breaks and the event loop runs ready tasks. A task in
  `Hanging` need not be answered: Reserve has no deadline, so a server that holds
  the call open hangs it, and the run shows that it takes nobody along.
* `AsyncAdmission!FairSpec`: the TTL of a lease runs (weak), the loop's timer
  fires (weak), and beats may be lost any number of times but not for ever
  (strong fairness of `ServeBeat` and `BeatReply`): a beat is sent and dropped
  again and again, so weak fairness would not say that one gets through.
* `ThreadedAdmission!FairSpec`: daemon threads and `close` are scheduled (weak).
* `WebGate!Fairness`: weak fairness of each request's handler steps (the loop
  runs ready tasks, the server its threads, and views end), of the start of its
  check (executor queue) and of `Return`, which is not enabled for hung checks. `Serve` needs
  none: a call may fail before it is served.
* `fleet_serial`, `heartbeat` and `redis` assume none.

## 4. Proofs

All theorems hold for every value of the constants that satisfies the named
assumptions (`SpenderAssumption`, `FleetAssumption`, `FiniteFleet`,
`AdmissionAssumption`, `ThreadedAssumption`, `TimingAssumption`, `ScriptAssumption`,
`RedisAssumption`, `WebAssumption`), which TLC evaluates on the runs. Every safety
invariant that a passing run checks is stated by one of them.

Leasing (`FleetProofs`):

* `TypeCorrect`. `TypeOK` is not inductive: that a served unit
  has a window, and that a grant's window exists, need `TypeInv`, which adds that
  the clock is inside the current window, that credits and replies carry a
  window, and that an idle task has used no round.
* `AllowsAreCurrent`: from `TypeInv`, since `Serves` implies that the spender is
  not `Rolled` at the reading of the call.
* `DenialsAreServers`: a refusal in flight implies that its window is exhausted,
  and an exhausted window stays so (`DenialInv`).
* `GrantsMakeProgress` (assuming `NoFastClock`): a reply in flight carries a
  boundary later than the reading of its call.
* `DenialsMeanDry` (assuming `SerialUse`): a call in flight has tried the credits on
  hand in vain (`TriedInVain`), and with one call at a time nobody adds to them before
  its refusal arrives. Trying again with the same reading changes nothing
  (`StillNotServed`), which is what the step that answers needs.
* `PerWindowHolds` (assuming `SerialUse` and `UnitCosts`):
  the invariant `BudgetInv` says that what a limiter served for a window, plus
  the credits and the reply it holds of that window, is within its allotment, and
  that with unit costs a call that goes to the server has nothing on hand, so
  `apply_lease` never merges two windows. Without that conjunct the invariant is
  not inductive, and for larger costs it is false.
* `LeasingImplementsBudget`: under the same assumptions each step maps to a step
  of `WindowBudget` or to a stutter, by the same invariant.
* `FleetNeverOverAdmits`: under the same assumptions, for any number of limiters. The
  server's books balance (`GrantsAddUp`: the allotments of a window add up to what was
  granted of it, which `TypeInv` bounds by the limit), and each limiter is within its
  allotment by `PerWindowHolds`; the sum is monotone.
* `NoBudgetIsCreated`: no assumption on use, costs or clocks. `CreatedInv` adds to the
  property that a call without a reply has no grant on its way. A served unit moves
  from the credits to the served, a grant from the reply to the credits; what a crash,
  a lost reply or the discard of a stale lease takes away makes the left side smaller.

The sums of these theorems, and of `Ceiling`, are the library's fold over a set. Its
value for every finite set is not shown by induction, which the provers cannot
instantiate, but by exhibiting the function: `SumProofs` shows that the cardinality of
the pairs of an element and a number up to its value satisfies the recursion of the
fold (`SumIsUnits`), and takes what it says of sums (`SumOfUnion`, `SumWithout`,
`SumIsMonotone`, `SumWithOther`) from the library's theorems on finite sets.

Admissions:

* `AsyncAdmissionProofs!ReclaimsAreTrue`, `HoldsAreRenewed`, `OnlyHeldAreRenewed`,
  `ChannelClosesQuietly`: one invariant, `AdmissionInv`, for all. The delicate part
  is that the server may call a released lease reclaimed. The mark is right because
  a release marks its admission and takes it out of `open` in one step
  (`ReleasesAreMarked`), so what a reply names and the pump still holds really is
  reclaimed (`ReportsAreTrue`), and because an admission that is not held yet is
  named by no beat (also `ReportsAreTrue`) and asks only once (`AsksOnce`).
* `ThreadedAdmissionProofs!ThreadedHoldsAreRenewed`: for any number of threads
  that race to build a pump. `RenewInv` adds that no thread of an open backend is
  stopped or gone; a hold then stays in the pump it registered with, whether or not
  that is still the backend's.
* `WarmPumpIsStopped`: a pump that was there first is never replaced (`WarmInv`: no
  thread is ever about to build one), so `close` stops the only thread there is.
* `ThreadedReclaimsAreTrue`, `ThreadedRenewsOnlyHeld`: here the orphan matters, and
  the two properties are guarded by `NoOrphan`. An orphan stays one (`OrphansStay`),
  so at a state without one there never was one; up to there `Truth` is inductive,
  relative to `OrderInv`: a pump has no thread before it is built, what pumps and
  beats name was held once, an admission asks once and gives back after it has left
  the pump. `OrderInv` holds with orphans as well.
* `HeartbeatTimingProofs!TimingTypeOK`, `PaceSuffices`, `MissCostsLease`: the
  invariant `TimingInv` bounds what is left of the TTL by what is left of the
  cycle, from below while no beat failed and from above after a renewal.

Redis (`RedisScriptProofs`, but for the first):

* `RedisLimiterProofs!RedisChargesOnce`: a call that has not been replied to is
  charged nothing (`Unanswered`). What the scripts compute is not used.
* `RedisTypeCorrect`: for all callers and clocks, so also where a script finds in its
  key what was written later. `TypeOK` leaves `data` open; `TypeInv` adds what a key of
  each strategy holds at least (`Held`), from which each script's verdict is shown to
  be in range (`IsVerdict`) and to leave such a key behind.
* `RedisKeepsTheCeiling`: by `CeilingInv`, the conjunction of one invariant per
  script. None of the ceilings is inductive: what a script admitted has to be tied
  to what its key says, over expiry and over writes to the key.
  * `gcra` and `tokenBucket` (`RateInv`): what was spent since any instant, *plus what
    could be spent now* (`Free`), is at most the burst plus what came back since
    (`Paced`). A script moves units from one summand to the other; a tick adds at most
    the rate to `Free`.
  * `fixedWindow` (`WindowInv`): the key counts at least what the current window was
    admitted, because it lives as long as its window.
  * `slidingWindowLog` (`LogInv`): what was admitted since any instant of the window is
    at most the log's members since then. The members of one instant are numbered, and
    `IsLog` says that these numbers are not reused, or `ZADD` would lose some.
  * `slidingWindow` (`SlotInv`): what was admitted since the start of any bucket of the
    window is in the slots from that bucket on, although a slot is reused after
    `Buckets + 1` buckets.
* `RedisRemainingIsExact`, `RedisRetryIsNeeded`, `RedisRetryIsEnough`,
  `RedisResetIsFull`, `RedisForgetsNothing`: consequences of what the key holds,
  `SoundKey`, by one lemma on arithmetic for each script and promise. On the server's
  clock `SoundKey` follows from `ScriptInv`, which adds to `CeilingInv` that the
  estimate of `slidingWindow` never exceeds the limit (`EstimateBound`; it falls within
  a bucket, and at the start of one what was full becomes the oldest). What carries the
  lemmas: `CeilDivIsEnough` and `CeilDivIsLeast` are the rounding of a wait,
  `UnitsThatFit` that of a remainder; for the first two scripts the key lives until it
  would be answered like a missing one (`KeepsArrival`, `KeepsBucket`), without which a
  caller who comes back early would be admitted, and no arrival time is further ahead
  than the burst (`InReach`), so that a `remaining` of 0 is not a clamped debt; for the
  log, `ScoreOfRank` is about the oldest member with whose departure enough have left
  (fewer are older than units are missing), and `RetryOfLogIsExact` about its wait.
* The same five on clocks that lag. Callers may pass instants behind the server's
  clock (`NoneAhead`): what a script writes is then stamped earlier than the instant its
  time to live is counted from. Of each script but `slidingWindow` the key stays sound (`GcraLags`, `BucketLags`,
  `WindowLags`, `LogLags`; `LagInv` adds that no call in progress is ahead), so the
  theorems are stated for `InStep`: the server's clock, or lagging clocks and not
  `slidingWindow`. For `gcra`, `RedisRetryIsEnough` and `RedisResetIsFull` hold on any
  clock.

Web adapters (`WebGateProofs`):

* `UnpaidViewsAreOutages`, `ViewsRunOnce`: by `WebInv`, which ties
  where a request is to the views it started and to the outcome that justified them.
* `AdviceSuffices`, `AdviceIsNobodyElses`: by `AdviceInv`: headers made at an instant
  fit the verdict of their own request, and a verdict is given once. The rounding is
  a lemma on `CeilSeconds` for any second.

Only model-checked: liveness (`CheckReturns`, `SlotsComeBack`, `ReclaimIsSignalled`,
`CloseEnds`, `HangsAreIsolated`), which is out of TLAPS's reach. Only proved: the
advice of `fixedWindow`, `slidingWindowLog` and `tokenBucket` on clocks that lag, since
the run `redis` has such callers of `gcra` alone. Neither: `slidingWindow` with callers
who pass instants of their own, beyond the types of its replies.

## 5. Not modelled

* The one-shot RPCs and the monitor: no state, one call each. What becomes of
  their errors is part of `WebGate` (`Mapped`, `Raised`).
* `*.read.lua`: vendored, but called by nothing in the package.
* Packaging, contract and generated stubs: pure I/O.
* In the adapters: key functions, costs (a request costs one unit) and the two
  header styles, which differ in wording. That each framework runs its hooks in the
  documented order is assumed.
* Threads that share one synchronous `LeasedLimiter`, which claims no thread safety:
  two of them may both find no spender and build one, and the grant applied to the
  overwritten one is lost, as with a lost reply. The asynchronous limiter is modelled
  with overlapping callers.
* Fractional costs of a `LeaseSpender`, negative costs of a Redis call (validated by
  nobody), the rounding of doubles in the scripts.

## 6. Findings

| Run | What the code does |
|---|---|
| `fleet_carry_over` | `apply_lease` adds a grant to the credits on hand and moves them all to the new window. A leftover smaller than a call's cost survives if the call read its clock before the boundary, and is then served on top of the next window's whole budget: the fleet exceeds the limit that the README says it never over-admits. |
| `fleet_fast_clock` | With a client clock at or past the server's boundary, each grant is discarded as it arrives and the loop reserves again: the call drains the window and can run out of rounds (1024 in the code, 2 in the run), although the comment says only a misbehaving server can cause it. |
| `threads_pump_race` | Two first admissions at once each build a pump. The one that is overwritten keeps its thread, and `close` does not stop it. |
| `heartbeat_retry` | The beat after a failed one leaves a whole TTL after the last renewal. The comment says the retry comes "while the lease TTL still holds". |
| `web_outage` | An adapter over `RedisBackend.check` catches `ServiceUnavailableError`, which that backend never raises: with Redis unreachable a request ends in a server error, although the README says adapters fail open by default. |

Seen while modelling, without a run of its own: `ratelimit.py` documents a plain
callable that returns an awaitable as a checker, but at an asynchronous site
`_resolve_async` hands it to a worker, where `_resolve_sync` raises `TypeError`
(the outcome `"TypeError"` of `WebGate`).

## 7. Plan

Done, in the order of importance: leasing, admissions, Redis, pace, web adapters,
and the proofs of section 4. What would come next:

1. **Threads sharing a synchronous limiter** (`ThreadedLease`): `check` cut between
   its look at `_spender` and the assignment to it.
2. **An abstract slot lease** (granted, held, returned or reclaimed) implemented by
   both admission models.
3. **`slidingWindow` on lagging clocks**: what its estimate still promises there, the
   one strategy whose advice is proved on the server's clock only.
4. **Serial use with larger costs**: which part of `PerWindow` survives the carry-over
   of section 6, and by how much a window can be exceeded.
