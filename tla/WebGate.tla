------------------------------ MODULE WebGate -------------------------------
(***************************************************************************)
(* The web adapters of throttlekit.contrib and the rate_limit decorator    *)
(* over one checker: each request asks the limiter first, and its view     *)
(* runs, or not, as the answer says (ratelimit.py, headers.py, contrib/).  *)
(*                                                                         *)
(* Asynchronous sites share one event loop, which one blocking call stops; *)
(* a synchronous checker of theirs runs on a worker thread of the loop's   *)
(* executor.  Synchronous sites have a thread of the server for each       *)
(* request.  The limiter, a fixed window of Quota units, and the network   *)
(* are outside the repository: a call may be answered, may fail before or  *)
(* after it was charged, or may hang for ever, as no call has a deadline.  *)
(***************************************************************************)
EXTENDS Integers, FiniteSets

CONSTANTS
  Requests,   \* the requests of a run
  Apps,       \* the ways an application may be set up
  Quota,      \* units the limiter admits in a window
  Window,     \* length of a window
  Second,     \* what a second is, on the scale of the clock
  Skew,       \* how far the application's clock is ahead of the limiter's
  MaxTime     \* bound of the model: the clock stops here

AsyncSites == {"dependency", "middleware", "async function"}
Decorators == {"function", "async function"}
Djangos == {"django", "django with middleware"}
Sites == AsyncSites \cup Djangos \cup Decorators \cup {"flask"}

\* The checkers: bind_policy over the two service backends, the check method of
\* the two Redis backends, and a plain function that returns an awaitable.
Checkers == {"service", "async service", "redis", "async redis", "awaitable"}

\* outage is the adapters' on_unavailable, block the argument of Django's decorator,
\* stamp stands for stamp_headers and headers_enabled; workers are the threads of
\* the executor of the event loop.
Setups == [site : Sites, checker : Checkers, outage : {"allow", "deny"},
           block : BOOLEAN, stamp : BOOLEAN,
           workers : Nat \ {0}]

ASSUME WebAssumption ==
  /\ Apps \subseteq Setups
  /\ {Quota, Window, Second} \subseteq Nat \ {0}
  /\ {Skew, MaxTime} \subseteq Nat

VARIABLES
  app,       \* how the application is set up
  hung,      \* the requests whose check is never answered
  clock,     \* the clock of the limiter
  pc,        \* pc[r]: where request r is
  verdict,   \* verdict[r]: what the limiter decided, before anyone knows it
  outcome,   \* outcome[r]: what the checker returned or raised
  extra,     \* extra[r]: headers computed before the view, to be stamped after
  views,     \* views[r]: how often the view was started
  response   \* response[r]: status, headers, and the instant they were made

vars == <<app, hung, clock, pc, verdict, outcome, extra, views, response>>

NoVerdict == [allowed |-> FALSE, resetAt |-> 0, retryAfter |-> 0]
NoHeaders == [reset |-> 0, retryAfter |-> 0, at |-> 0]
NoResponse == [status |-> "none", headers |-> NoHeaders]

Errors == {"ServiceUnavailableError", "ThrottleKitError", "ConnectionError",
           "ResponseError", "TypeError"}

Outcomes == {"none", "decision", "not asked"} \cup Errors
Verdicts == [allowed : BOOLEAN, resetAt : Nat, retryAfter : Nat]
Headers == [reset : Nat, retryAfter : Nat, at : Nat]
Responses ==
  [status : {"none", "served", "429", "403", "503", "RateLimited", "error"},
   headers : Headers]

TypeOK ==
  /\ app \in Apps
  /\ hung \subseteq Requests
  /\ clock \in 0 .. MaxTime
  /\ pc \in [Requests -> {"new", "called", "checking", "answered", "view", "done"}]
  /\ verdict \in [Requests -> Verdicts]
  /\ outcome \in [Requests -> Outcomes]
  /\ extra \in [Requests -> Headers]
  /\ views \in [Requests -> Nat]
  /\ response \in [Requests -> Responses]

Init ==
  /\ app \in Apps
  /\ hung \in SUBSET Requests
  /\ clock = 0
  /\ pc = [r \in Requests |-> "new"]
  /\ verdict = [r \in Requests |-> NoVerdict]
  /\ outcome = [r \in Requests |-> "none"]
  /\ extra = [r \in Requests |-> NoHeaders]
  /\ views = [r \in Requests |-> 0]
  /\ response = [r \in Requests |-> NoResponse]

-----------------------------------------------------------------------------
(* Where a checker is called.                                              *)

IsAsyncSite == app.site \in AsyncSites

IsAsyncCallable == app.checker \in {"async service", "async redis"}

IsAwaitable == IsAsyncCallable \/ app.checker = "awaitable"

\* Fault: the checker is called where its result is needed.
ResolveOnLoop == IF IsAsyncCallable THEN "awaited" ELSE "loop"

\* _resolve_async branches on the callable: a coroutine function is awaited on
\* the loop, anything else is handed to a worker thread.
ResolveAsync == IF IsAsyncCallable THEN "awaited" ELSE "worker"

CheckRunsOn == IF IsAsyncSite THEN ResolveAsync ELSE "thread of the request"

LoopBlocked == CheckRunsOn = "loop" /\ \E r \in Requests : pc[r] = "checking"

\* A step of a handler takes the loop, at the asynchronous sites.
MayRun == IsAsyncSite => ~ LoopBlocked

\* The adapter is called, and calls or hands over the checker.  The middleware
\* lets everything that is not HTTP pass.
Enter(r) ==
  /\ pc[r] = "new"
  /\ MayRun
  /\ \/ /\ pc' = [pc EXCEPT ![r] = "called"]
        /\ UNCHANGED <<outcome, views>>
     \/ /\ app.site = "middleware"
        /\ pc' = [pc EXCEPT ![r] = "view"]
        /\ outcome' = [outcome EXCEPT ![r] = "not asked"]
        /\ views' = [views EXCEPT ![r] = 1]
  /\ UNCHANGED <<app, hung, clock, verdict, extra, response>>

\* The call starts, on a free worker if it needs one.  _resolve_sync closes an
\* awaitable it is given unawaited, and raises TypeError.
Call(r) ==
  /\ pc[r] = "called"
  /\ CheckRunsOn = "worker" =>
       Cardinality({q \in Requests : pc[q] = "checking"}) < app.workers
  /\ IF CheckRunsOn # "awaited" /\ IsAwaitable
     THEN /\ pc' = [pc EXCEPT ![r] = "answered"]
          /\ outcome' = [outcome EXCEPT ![r] = "TypeError"]
     ELSE /\ pc' = [pc EXCEPT ![r] = "checking"]
          /\ UNCHANGED outcome
  /\ UNCHANGED <<app, hung, clock, verdict, extra, views, response>>

-----------------------------------------------------------------------------
(* The limiter, and how the checker reports what became of the call.       *)

Decided(r) == verdict[r] # NoVerdict

\* The limiter decides, and charges what it allows.
Serve(r) ==
  LET end  == (clock \div Window + 1) * Window
      paid == {q \in Requests : verdict[q].allowed /\ verdict[q].resetAt = end}
  IN /\ pc[r] = "checking"
     /\ ~ Decided(r)
     /\ verdict' = [verdict EXCEPT ![r] =
          IF Cardinality(paid) < Quota
          THEN [allowed |-> TRUE, resetAt |-> end, retryAfter |-> 0]
          ELSE [allowed |-> FALSE, resetAt |-> end, retryAfter |-> end - clock]]
     /\ UNCHANGED <<app, hung, clock, pc, outcome, extra, views, response>>

\* _mapped: PolicyNotFoundError and OperationNotSupportedError
\* are ThrottleKitErrors that no adapter tells apart.
Mapped(code) ==
  IF code = "UNAVAILABLE" THEN "ServiceUnavailableError" ELSE "ThrottleKitError"

\* The Redis backends let the errors of the Redis client through.
Raised(code) ==
  IF app.checker \in {"service", "async service"} THEN Mapped(code)
  ELSE IF code = "UNAVAILABLE" THEN "ConnectionError" ELSE "ResponseError"

\* The reply arrives, or a failure of the call, which may follow the charge.
Return(r) ==
  /\ pc[r] = "checking"
  /\ r \notin hung
  /\ pc' = [pc EXCEPT ![r] = "answered"]
  /\ \/ Decided(r) /\ outcome' = [outcome EXCEPT ![r] = "decision"]
     \/ \E code \in {"UNAVAILABLE", "other"} :
          outcome' = [outcome EXCEPT ![r] = Raised(code)]
  /\ UNCHANGED <<app, hung, clock, verdict, extra, views, response>>

-----------------------------------------------------------------------------
(* decision_headers, and the ends of a request.                            *)

\* Fault: rounded down.
CeilSecondsFloor(ms) == ms \div Second

CeilSeconds(ms) == - ((- ms) \div Second)

\* Fault: a reset that is over is not clamped.
DecisionHeadersSigned(v) ==
  [reset |-> CeilSeconds(v.resetAt - (clock + Skew)),
   retryAfter |-> CeilSeconds(v.retryAfter), at |-> clock]

\* RateLimit-Reset and Retry-After, in seconds from the instant they are made;
\* 0 where Retry-After is left out.
DecisionHeaders(v) ==
  LET delta == CeilSeconds(v.resetAt - (clock + Skew))
  IN [reset |-> IF delta > 0 THEN delta ELSE 0,
      retryAfter |-> CeilSeconds(v.retryAfter), at |-> clock]

\* The view is started; headers already made for its response are kept.
RunView(r, headers) ==
  /\ pc' = [pc EXCEPT ![r] = "view"]
  /\ views' = [views EXCEPT ![r] = @ + 1]
  /\ extra' = [extra EXCEPT ![r] = headers]
  /\ UNCHANGED response

Finish(r, status, headers) ==
  /\ pc' = [pc EXCEPT ![r] = "done"]
  /\ response' = [response EXCEPT ![r] = [status |-> status, headers |-> headers]]
  /\ UNCHANGED <<extra, views>>

Admitted(r) == outcome[r] = "decision" /\ verdict[r].allowed
Denied(r) == outcome[r] = "decision" /\ ~ verdict[r].allowed

\* Fault: every error of the backend is taken for an outage.
UnavailableWide(r) == outcome[r] \in {"ServiceUnavailableError", "ThrottleKitError"}

\* The one exception the adapters catch.
Unavailable(r) == outcome[r] = "ServiceUnavailableError"

OnUnavailable(r) ==
  /\ Unavailable(r)
  /\ IF app.outage = "deny" THEN Finish(r, "503", NoHeaders) ELSE RunView(r, NoHeaders)

HeadersIf(enabled, r) == IF enabled THEN DecisionHeaders(verdict[r]) ELSE NoHeaders

\* FastAPI's RateLimit stamps the response before the route runs.
Dependency(r) ==
  \/ OnUnavailable(r)
  \/ Denied(r) /\ Finish(r, "429", DecisionHeaders(verdict[r]))
  \/ Admitted(r) /\ RunView(r, HeadersIf(app.stamp, r))

\* The ASGI middleware keeps the headers for the start of the response.
Middleware(r) ==
  \/ OnUnavailable(r)
  \/ Denied(r) /\ Finish(r, "429", DecisionHeaders(verdict[r]))
  \/ Admitted(r) /\ RunView(r, DecisionHeaders(verdict[r]))

\* Flask and Django stamp when the view has returned.
Flask(r) ==
  \/ OnUnavailable(r)
  \/ Denied(r) /\ Finish(r, "429", HeadersIf(app.stamp, r))
  \/ Admitted(r) /\ RunView(r, NoHeaders)

\* Ratelimited is a PermissionDenied, which Django makes a 403 where the
\* middleware does not make it a 429.
ProcessException(r) ==
  IF app.site = "django" THEN Finish(r, "403", NoHeaders)
  ELSE Finish(r, "429", DecisionHeaders(verdict[r]))

\* With block=False the view is run whatever the decision, and reads it.
Django(r) ==
  \/ OnUnavailable(r)
  \/ Denied(r) /\ app.block /\ ProcessException(r)
  \/ Admitted(r) /\ RunView(r, NoHeaders)
  \/ Denied(r) /\ ~ app.block /\ RunView(r, NoHeaders)

\* The decorator of ratelimit.py catches nothing.
RateLimit(r) ==
  \/ Denied(r) /\ Finish(r, "RateLimited", NoHeaders)
  \/ Admitted(r) /\ RunView(r, NoHeaders)

\* What no adapter catches goes to the framework.
Propagate(r) ==
  /\ outcome[r] \in Errors
  /\ Unavailable(r) => app.site \in Decorators
  /\ Finish(r, "error", NoHeaders)

\* The answer is back with the adapter.
Resume(r) ==
  /\ pc[r] = "answered"
  /\ MayRun
  /\ \/ app.site = "dependency" /\ Dependency(r)
     \/ app.site = "middleware" /\ Middleware(r)
     \/ app.site = "flask" /\ Flask(r)
     \/ app.site \in Djangos /\ Django(r)
     \/ app.site \in Decorators /\ RateLimit(r)
     \/ Propagate(r)
  /\ UNCHANGED <<app, hung, clock, verdict, outcome>>

\* Fault: the middleware keeps the headers on itself, for all its requests.
KeptShared(r) ==
  LET last == CHOOSE q \in Requests : \A p \in Requests : extra[p].at <= extra[q].at
  IN IF outcome[r] = "decision" THEN extra[last] ELSE NoHeaders

\* send_wrapper: the headers of the closure.
Kept(r) == extra[r]

\* What the response of a view is stamped with.
Stamp(r) ==
  CASE app.site \in {"dependency", "middleware"} -> Kept(r)
    [] app.site \in Decorators                   -> NoHeaders
    [] outcome[r] = "decision"                   -> HeadersIf(app.stamp, r)
    [] OTHER                                     -> NoHeaders

ViewReturns(r) ==
  /\ pc[r] = "view"
  /\ MayRun
  /\ Finish(r, "served", Stamp(r))
  /\ UNCHANGED <<app, hung, clock, verdict, outcome>>

\* Fault: the view runs inside the try, and its own outage is taken for the
\* limiter's.
ViewRaisesInTry(r) ==
  /\ pc[r] = "view"
  /\ MayRun
  /\ views' = [views EXCEPT ![r] = @ + 1]
  /\ views[r] < 2
  /\ UNCHANGED <<app, hung, clock, pc, verdict, outcome, extra, response>>

\* The view fails, with an error of its own or one of a backend it uses.
ViewRaises(r) ==
  /\ pc[r] = "view"
  /\ MayRun
  /\ Finish(r, "error", NoHeaders)
  /\ UNCHANGED <<app, hung, clock, verdict, outcome>>

Tick ==
  /\ clock < MaxTime
  /\ clock' = clock + 1
  /\ UNCHANGED <<app, hung, pc, verdict, outcome, extra, views, response>>

Handler(r) == Enter(r) \/ Resume(r) \/ ViewReturns(r) \/ ViewRaises(r)

Backend(r) == Serve(r) \/ Return(r)

Next == Tick \/ \E r \in Requests : Handler(r) \/ Call(r) \/ Backend(r)

Spec == Init /\ [][Next]_vars

\* The loop, the threads and the views go on, and every call that does not hang
\* is answered.
Fairness ==
  \A r \in Requests : WF_vars(Handler(r)) /\ WF_vars(Call(r)) /\ WF_vars(Return(r))

FairSpec == Spec /\ Fairness

-----------------------------------------------------------------------------
(* Properties.                                                             *)

\* A view runs without a unit charged for it only where the documentation says
\* so: the service was reported unreachable and the adapter is to fail open, the
\* Django view is to look at the decision itself, or the scope is not HTTP.
UnpaidOnlyInOutage ==
  \A r \in Requests :
    views[r] > 0 /\ ~ verdict[r].allowed =>
      \/ outcome[r] = "ServiceUnavailableError" /\ app.outage = "allow"
      \/ outcome[r] = "decision" /\ app.site \in Djangos /\ ~ app.block
      \/ outcome[r] = "not asked" /\ app.site = "middleware"

\* However the check and the view fail, a request starts its view once at most:
\* an outage the view itself reports is not taken for one of the limiter.
ViewRunsOnce == \A r \in Requests : views[r] <= 1

Stamped(r) == response[r].headers # NoHeaders

\* A client that waits as long as the headers of its response say comes back when
\* the window that answered it is over: Retry-After by the limiter's clock alone,
\* RateLimit-Reset up to the difference of the clocks ("advertise >= the real wait").
AdviceIsEnough ==
  \A r \in Requests :
    Stamped(r) =>
      LET h == response[r].headers
      IN /\ h.at + h.reset * Second >= verdict[r].resetAt - Skew
         /\ response[r].status = "429" => h.at + h.retryAfter * Second >= verdict[r].resetAt

\* The headers describe the decision on this request, not that on another one
\* served meanwhile: they are less than a second longer than its own wait.
AdviceIsOwn ==
  \A r \in Requests :
    Stamped(r) =>
      LET h    == response[r].headers
          wait == verdict[r].resetAt - (h.at + Skew)
      IN /\ (h.reset - 1) * Second < (IF wait > 0 THEN wait ELSE 0)
         /\ (h.retryAfter - 1) * Second < verdict[r].retryAfter

\* Checks that hang delay no other request while a worker is left for it, nor, at
\* a synchronous site or with an asynchronous checker, ever: "a blocking network
\* check never stalls the loop".
HangsAreIsolated ==
  \A r \in Requests :
    pc[r] # "new" /\ r \notin hung
      /\ (Cardinality(hung) < app.workers \/ CheckRunsOn # "worker") ~> pc[r] = "done"

\* "Adapters fail open by default if the backend is unreachable": a check that
\* found it so lets the view run.
OutageFailsOpen ==
  \A r \in Requests :
    outcome[r] \in {"ServiceUnavailableError", "ConnectionError"}
      /\ app.site \notin Decorators /\ app.outage = "allow" /\ pc[r] = "done" => views[r] = 1
=============================================================================
