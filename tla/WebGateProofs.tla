--------------------------- MODULE WebGateProofs ----------------------------
(***************************************************************************)
(* Proofs about WebGate, for every number of requests and workers, every   *)
(* setup, and every quota, window, length of a second and skew.            *)
(***************************************************************************)
EXTENDS WebGate, TLAPS

\* The whole seconds of an advised wait are its ceiling.
LEMMA CeilSecondsIsCeil ==
  ASSUME NEW ms \in Int
  PROVE  /\ CeilSeconds(ms) \in Int
         /\ CeilSeconds(ms) * Second >= ms
         /\ (CeilSeconds(ms) - 1) * Second < ms
<1> DEFINE q == (- ms) \div Second
<1>1. Second \in Nat /\ Second > 0
  BY WebAssumption
<1>2. q \in Int /\ Second * q <= - ms /\ - ms < Second * (q + 1)
  BY <1>1
<1>3. CeilSeconds(ms) = - q
  BY DEF CeilSeconds
<1>4. (- q) * Second = - (Second * q) /\ (- q - 1) * Second = - (Second * (q + 1))
  BY <1>1, <1>2
<1> QED
  BY <1>1, <1>2, <1>3, <1>4

\* A window ends after every instant in it.
LEMMA WindowEnds ==
  ASSUME NEW t \in Nat
  PROVE  /\ (t \div Window + 1) * Window \in Nat
         /\ (t \div Window + 1) * Window > t
<1> DEFINE q == t \div Window
<1>1. Window \in Nat /\ Window > 0
  BY WebAssumption
<1>2. q \in Int /\ Window * q <= t /\ t < Window * (q + 1)
  BY <1>1
<1>3. (q + 1) * Window = Window * (q + 1)
  BY <1>1, <1>2
<1> HIDE DEF q
<1>4. Window * (q + 1) \in Int
  BY <1>1, <1>2
<1> QED
  BY <1>1, <1>2, <1>3, <1>4 DEF q

LEMMA HeadersTyped ==
  ASSUME clock \in Nat, NEW v \in Verdicts
  PROVE  DecisionHeaders(v) \in Headers
<1> DEFINE delta == CeilSeconds(v.resetAt - (clock + Skew))
<1>1. delta \in Int /\ CeilSeconds(v.retryAfter) \in Int
  BY CeilSecondsIsCeil, WebAssumption DEF Verdicts
<1>2. CeilSeconds(v.retryAfter) >= 0
  <2>1. CeilSeconds(v.retryAfter) * Second >= v.retryAfter
    BY CeilSecondsIsCeil DEF Verdicts
  <2>2. ASSUME CeilSeconds(v.retryAfter) <= -1
        PROVE  CeilSeconds(v.retryAfter) * Second <= - Second
    BY <2>2, <1>1, WebAssumption
  <2> QED
    BY <1>1, <2>1, <2>2, WebAssumption DEF Verdicts
<1> QED
  BY <1>1, <1>2 DEF DecisionHeaders, Headers

\* What a resumed adapter may do: start the view, or end the request, with headers
\* of this request's decision if any.
Own(r, h) == h = NoHeaders \/ (outcome[r] = "decision" /\ h = DecisionHeaders(verdict[r]))

Starts(r, h) ==
  /\ RunView(r, h)
  /\ Own(r, h)
  /\ \/ Admitted(r)
     \/ Denied(r) /\ ~ app.block /\ app.site \in Djangos
     \/ Unavailable(r) /\ app.outage # "deny"

Ends(r, s, h) == Finish(r, s, h) /\ Own(r, h) /\ (s = "429" => Denied(r))

Statuses == {"429", "403", "503", "RateLimited", "error"}

LEMMA ResumeCases ==
  ASSUME NEW r \in Requests, Resume(r)
  PROVE  /\ pc[r] = "answered"
         /\ UNCHANGED <<app, hung, clock, verdict, outcome>>
         /\ \/ \E h : Starts(r, h)
            \/ \E s \in Statuses : \E h : Ends(r, s, h)
<1> DEFINE Goal == (\E h : Starts(r, h)) \/ (\E s \in Statuses : \E h : Ends(r, s, h))
<1> USE DEF Own, Starts, Ends, Statuses
<1>1. OnUnavailable(r) => Goal
  BY DEF OnUnavailable
<1>2. ASSUME Denied(r) PROVE Own(r, DecisionHeaders(verdict[r]))
  BY <1>2 DEF Denied
<1>3. ASSUME Admitted(r) PROVE Own(r, DecisionHeaders(verdict[r]))
  BY <1>3 DEF Admitted
<1>4. \A b : Own(r, HeadersIf(b, r)) \/ ~ (Admitted(r) \/ Denied(r))
  BY DEF HeadersIf, Admitted, Denied
<1> HIDE DEF Own
<1>5. Own(r, NoHeaders)
  BY DEF Own
<1>6. Dependency(r) => Goal
  BY <1>1, <1>2, <1>4 DEF Dependency
<1>7. Middleware(r) => Goal
  BY <1>1, <1>2, <1>3 DEF Middleware
<1>8. Flask(r) => Goal
  BY <1>1, <1>4, <1>5 DEF Flask
<1>9. app.site \in Djangos /\ Django(r) => Goal
  BY <1>1, <1>2, <1>5 DEF Django, ProcessException
<1>10. RateLimit(r) => Goal
  BY <1>5 DEF RateLimit
<1>11. Propagate(r) => Goal
  BY <1>5 DEF Propagate
<1>12. pc[r] = "answered" /\ UNCHANGED <<app, hung, clock, verdict, outcome>>
  BY DEF Resume
<1> QED
  BY <1>6, <1>7, <1>8, <1>9, <1>10, <1>11, <1>12 DEF Resume

\* The types hold in every reachable state.
THEOREM WebTypeOK == Spec => []TypeOK
<1>1. Init => TypeOK
  BY WebAssumption DEF Init, TypeOK, NoVerdict, NoHeaders, NoResponse, Headers, Verdicts, Responses, Outcomes
<1>2. TypeOK /\ [Next]_vars => TypeOK'
  <2> SUFFICES ASSUME TypeOK, [Next]_vars PROVE TypeOK'
    OBVIOUS
  <2>0. MaxTime \in Nat
    BY WebAssumption
  <2> USE <2>0 DEF TypeOK
  <2>c. clock \in Nat
    OBVIOUS
  <2>f. \A r \in Requests, s \in {"served", "429", "403", "503", "RateLimited", "error"},
             h \in Headers, f \in [Requests -> Responses] :
          [f EXCEPT ![r] = [status |-> s, headers |-> h]] \in [Requests -> Responses]
    BY DEF Responses
  <2>1. CASE UNCHANGED vars
    BY <2>1 DEF vars
  <2>2. CASE Tick
    BY <2>2 DEF Tick
  <2>3. ASSUME NEW r \in Requests, Handler(r) PROVE TypeOK'
    <3> NoHeaders \in Headers
      BY DEF NoHeaders, Headers
    <3> DecisionHeaders(verdict[r]) \in Headers
      BY <2>c, HeadersTyped
    <3>1. CASE Enter(r)
      <4>1. pc' = [pc EXCEPT ![r] = "called"] \/ pc' = [pc EXCEPT ![r] = "view"]
        BY <3>1 DEF Enter
      <4>2. outcome' \in [Requests -> Outcomes] /\ views' \in [Requests -> Nat]
        <5>1. "not asked" \in Outcomes
          BY DEF Outcomes
        <5>2. CASE UNCHANGED <<outcome, views>>
          BY <5>2
        <5>3. CASE /\ outcome' = [outcome EXCEPT ![r] = "not asked"]
                   /\ views' = [views EXCEPT ![r] = 1]
          BY <5>1, <5>3
        <5> QED
          BY <3>1, <5>2, <5>3 DEF Enter
      <4> QED
        BY <3>1, <4>1, <4>2 DEF Enter
    <3>2. CASE Resume(r)
      <4>1. UNCHANGED <<app, hung, clock, verdict, outcome>>
        BY <3>2, ResumeCases
      <4>2. ASSUME NEW h, Starts(r, h) PROVE TypeOK'
        <5>1. h \in Headers
          BY <4>2 DEF Starts, Own
        <5> QED
          BY <4>1, <4>2, <5>1 DEF Starts, RunView
      <4>3. ASSUME NEW s \in Statuses, NEW h, Ends(r, s, h) PROVE TypeOK'
        <5>1. h \in Headers
          BY <4>3 DEF Ends, Own
        <5>2. /\ response' \in [Requests -> Responses]
              /\ pc' = [pc EXCEPT ![r] = "done"] /\ UNCHANGED <<extra, views>>
          BY <2>f, <4>3, <5>1 DEF Ends, Finish, Statuses
        <5> QED
          BY <4>1, <5>2
      <4> QED
        BY <3>2, <4>2, <4>3, ResumeCases
    <3>5. CASE ViewRaises(r)
      <4>1. /\ response' \in [Requests -> Responses]
            /\ pc' = [pc EXCEPT ![r] = "done"] /\ UNCHANGED <<extra, views>>
        BY <2>f, <3>5 DEF ViewRaises, Finish
      <4> QED
        BY <3>5, <4>1 DEF ViewRaises
    <3>6. CASE ViewReturns(r)
      <4>1. Stamp(r) \in Headers
        BY DEF Stamp, Kept, HeadersIf
      <4> QED
        BY <2>f, <3>6, <4>1 DEF ViewReturns, Finish
    <3> QED
      BY <2>3, <3>1, <3>2, <3>5, <3>6 DEF Handler
  <2>4. ASSUME NEW r \in Requests, Call(r) PROVE TypeOK'
    BY <2>4 DEF Call, Errors, Outcomes
  <2>5. ASSUME NEW r \in Requests, Serve(r) PROVE TypeOK'
    <3> DEFINE end == (clock \div Window + 1) * Window
    <3>1. end \in Nat /\ end > clock
      BY <2>c, WindowEnds
    <3> HIDE DEF end
    <3>2. end - clock \in Nat
      BY <3>1
    <3>3. \E v \in Verdicts :
            verdict' = [verdict EXCEPT ![r] = v]
      <4>1. /\ [allowed |-> TRUE, resetAt |-> end, retryAfter |-> 0] \in Verdicts
            /\ [allowed |-> FALSE, resetAt |-> end, retryAfter |-> end - clock] \in Verdicts
        BY <3>1, <3>2 DEF Verdicts
      <4> QED
        BY <2>5, <4>1 DEF Serve, end
    <3> QED
      BY <2>5, <3>3 DEF Serve
  <2>6. ASSUME NEW r \in Requests, Return(r) PROVE TypeOK'
    BY <2>6 DEF Return, Raised, Mapped, Errors, Outcomes
  <2> QED
    BY <2>1, <2>2, <2>3, <2>4, <2>5, <2>6 DEF Next, Backend
<1> QED
  BY <1>1, <1>2, PTL DEF Spec

-----------------------------------------------------------------------------
(* The invariant: what each stage of a request has behind it.              *)

\* The view is started on the way from the answer to the end only.
Stage(r) ==
  /\ pc[r] \in {"new", "called", "checking"} => outcome[r] = "none"
  /\ pc[r] \in {"new", "called", "checking", "answered"} =>
       views[r] = 0 /\ extra[r] = NoHeaders /\ response[r] = NoResponse
  /\ views[r] \in {0, 1}
  /\ outcome[r] = "decision" => Decided(r)
  /\ outcome[r] = "not asked" => app.site = "middleware"

Justified(r) ==
  views[r] > 0 /\ ~ verdict[r].allowed =>
    \/ outcome[r] = "ServiceUnavailableError" /\ app.outage = "allow"
    \/ outcome[r] = "decision" /\ app.site \in Djangos /\ ~ app.block
    \/ outcome[r] = "not asked" /\ app.site = "middleware"

WebInv == \A r \in Requests : Stage(r) /\ Justified(r)

\* A step of one request leaves the others as they are.
Untouched(r) ==
  \A q \in Requests \ {r} :
    /\ pc'[q] = pc[q] /\ verdict'[q] = verdict[q] /\ outcome'[q] = outcome[q]
    /\ extra'[q] = extra[q] /\ views'[q] = views[q] /\ response'[q] = response[q]

LEMMA StepOfOne ==
  ASSUME NEW r \in Requests, WebInv, Untouched(r), app' = app,
         Stage(r)', Justified(r)'
  PROVE  WebInv'
<1>1. ASSUME NEW q \in Requests \ {r} PROVE Stage(q)' /\ Justified(q)'
  BY <1>1 DEF WebInv, Stage, Justified, Untouched, Decided
<1> QED
  BY <1>1 DEF WebInv

LEMMA StepWeb ==
  ASSUME TypeOK, WebInv, [Next]_vars
  PROVE  WebInv'
<1>0. /\ pc = [q \in Requests |-> pc[q]] /\ outcome = [q \in Requests |-> outcome[q]]
      /\ views = [q \in Requests |-> views[q]] /\ extra = [q \in Requests |-> extra[q]]
      /\ verdict = [q \in Requests |-> verdict[q]]
      /\ response = [q \in Requests |-> response[q]]
  BY DEF TypeOK
<1>1. CASE UNCHANGED vars \/ Tick
  BY <1>1 DEF vars, Tick, WebInv, Stage, Justified, Decided
<1>2. ASSUME NEW r \in Requests, Handler(r) \/ Call(r) \/ Backend(r) PROVE WebInv'
  <2> USE <1>0
  <2>i. Stage(r) /\ Justified(r)
    BY DEF WebInv
  <2>1. CASE Enter(r)
    <3>1. Untouched(r) /\ app' = app
      BY <2>1 DEF Enter, Untouched
    <3>2. Stage(r)' /\ Justified(r)'
      BY <2>1, <2>i DEF Enter, Stage, Justified, Decided
    <3> QED
      BY <3>1, <3>2, StepOfOne
  <2>2. CASE Resume(r)
    <3>1. pc[r] = "answered" /\ UNCHANGED <<app, verdict, outcome>>
      BY <2>2, ResumeCases
    <3>2. ASSUME NEW h, Starts(r, h) PROVE WebInv'
      <4>1. Untouched(r)
        BY <3>1, <3>2 DEF Starts, RunView, Untouched
      <4>2. app.outage \in {"allow", "deny"}
        BY WebAssumption DEF TypeOK, Setups
      <4>0. views[r] = 0
        BY <2>i, <3>1 DEF Stage
      <4>3. pc'[r] = "view" /\ views'[r] = 1
        <5>1. /\ pc' = [pc EXCEPT ![r] = "view"]
              /\ views' = [views EXCEPT ![r] = @ + 1]
          BY <3>2 DEF Starts, RunView
        <5> QED
          BY <4>0, <5>1
      <4>4. /\ outcome'[r] = outcome[r] /\ verdict'[r] = verdict[r]
            /\ app' = app /\ pc[r] = "answered"
        BY <3>1
      <4>5. Stage(r)'
        BY <2>i, <4>3, <4>4 DEF Stage, Decided
      <4>6. \/ verdict[r].allowed
            \/ outcome[r] = "decision" /\ app.site \in Djangos /\ ~ app.block
            \/ outcome[r] = "ServiceUnavailableError" /\ app.outage = "allow"
        BY <3>2, <4>2 DEF Starts, Admitted, Denied, Unavailable
      <4>7. Justified(r)'
        BY <4>4, <4>6 DEF Justified
      <4> QED
        BY <3>1, <4>1, <4>5, <4>7, StepOfOne
    <3>3. ASSUME NEW s \in Statuses, NEW h, Ends(r, s, h) PROVE WebInv'
      <4>1. Untouched(r)
        BY <3>1, <3>3 DEF Ends, Finish, Untouched
      <4>2. Stage(r)' /\ Justified(r)'
        BY <2>i, <3>1, <3>3 DEF Ends, Finish, Stage, Justified, Decided
      <4> QED
        BY <3>1, <4>1, <4>2, StepOfOne
    <3> QED
      BY <2>2, <3>2, <3>3, ResumeCases
  <2>4. CASE ViewRaises(r) \/ ViewReturns(r)
    <3>1. \E s, h : Finish(r, s, h)
      BY <2>4 DEF ViewRaises, ViewReturns
    <3>2. UNCHANGED <<app, verdict, outcome, extra, views>> /\ pc[r] = "view"
      BY <2>4, <3>1 DEF ViewRaises, ViewReturns, Finish
    <3>3. Untouched(r)
      BY <3>1, <3>2 DEF Finish, Untouched
    <3>4. Stage(r)' /\ Justified(r)'
      BY <2>i, <3>1, <3>2 DEF Finish, Stage, Justified, Decided
    <3> QED
      BY <3>2, <3>3, <3>4, StepOfOne
  <2>5. CASE Call(r)
    <3>1. Untouched(r) /\ app' = app
      BY <2>5 DEF Call, Untouched
    <3>2. Stage(r)' /\ Justified(r)'
      BY <2>5, <2>i DEF Call, Stage, Justified, Decided
    <3> QED
      BY <3>1, <3>2, StepOfOne
  <2>6. CASE Serve(r)
    <3>1. Untouched(r) /\ app' = app
      BY <2>6 DEF Serve, Untouched
    <3>2. Stage(r)' /\ Justified(r)'
      BY <2>6, <2>i DEF Serve, Stage, Justified, Decided
    <3> QED
      BY <3>1, <3>2, StepOfOne
  <2>7. CASE Return(r)
    <3>1. Untouched(r) /\ app' = app
      BY <2>7 DEF Return, Untouched
    <3>2. Stage(r)' /\ Justified(r)'
      BY <2>7, <2>i DEF Return, Raised, Mapped, Stage, Justified, Decided
    <3> QED
      BY <3>1, <3>2, StepOfOne
  <2> QED
    BY <1>2, <2>1, <2>2, <2>4, <2>5, <2>6, <2>7 DEF Handler, Backend
<1> QED
  BY <1>1, <1>2 DEF Next

LEMMA WebInvariant == Spec => []WebInv
<1>1. Init => WebInv
  BY DEF Init, WebInv, Stage, Justified
<1> QED
  BY <1>1, StepWeb, WebTypeOK, PTL DEF Spec

\* For every quota, window and setup: a view without a unit charged for it runs in
\* a reported outage, by Django's block=False, or outside HTTP only.
THEOREM UnpaidViewsAreOutages == Spec => []UnpaidOnlyInOutage
<1>1. WebInv => UnpaidOnlyInOutage
  BY DEF WebInv, Justified, UnpaidOnlyInOutage
<1> QED
  BY <1>1, WebInvariant, PTL

\* However checks and views fail, no request starts its view twice.
THEOREM ViewsRunOnce == Spec => []ViewRunsOnce
<1>1. WebInv => ViewRunsOnce
  <2>1. WebInv => \A r \in Requests : views[r] \in {0, 1}
    BY DEF WebInv, Stage
  <2>2. \A n \in {0, 1} : n <= 1
    OBVIOUS
  <2> QED
    BY <2>1, <2>2 DEF ViewRunsOnce
<1> QED
  BY <1>1, WebInvariant, PTL

-----------------------------------------------------------------------------
(* The advice of the headers.                                              *)

\* Headers h, made for verdict v, advise a wait that is long enough and less than
\* a second too long.
Fits(h, v) ==
  /\ h.at + h.reset * Second >= v.resetAt - Skew
  /\ ~ v.allowed => h.at + h.retryAfter * Second >= v.resetAt
  /\ \/ (h.reset - 1) * Second < v.resetAt - (h.at + Skew)
     \/ h.reset = 0
  /\ (h.retryAfter - 1) * Second < v.retryAfter

\* The wait of a denial was reckoned from an instant that is past, and the headers
\* at hand fit the verdict.
Advised(r) ==
  /\ Decided(r) /\ ~ verdict[r].allowed =>
       verdict[r].resetAt - verdict[r].retryAfter <= clock
  /\ extra[r] # NoHeaders => Fits(extra[r], verdict[r])
  /\ Stamped(r) =>
       Fits(response[r].headers, verdict[r]) /\ (response[r].status = "429" => ~ verdict[r].allowed)

LEMMA HeadersFit ==
  ASSUME clock \in Nat, NEW v \in Verdicts,
         ~ v.allowed => v.resetAt - v.retryAfter <= clock
  PROVE  Fits(DecisionHeaders(v), v)
<1> DEFINE wait  == v.resetAt - (clock + Skew)
           delta == CeilSeconds(wait)
           retry == CeilSeconds(v.retryAfter)
           h     == DecisionHeaders(v)
<1>1. /\ Second \in Nat /\ Second > 0 /\ Skew \in Nat
      /\ v.resetAt \in Nat /\ v.retryAfter \in Nat
  BY WebAssumption DEF Verdicts
<1>2. wait \in Int
  BY <1>1
<1>3. delta \in Int /\ delta * Second >= wait /\ (delta - 1) * Second < wait
  BY <1>2, CeilSecondsIsCeil
<1>4. /\ retry \in Int /\ retry * Second >= v.retryAfter
      /\ (retry - 1) * Second < v.retryAfter
  BY <1>1, CeilSecondsIsCeil
<1>5. /\ h.at = clock /\ h.retryAfter = retry
      /\ h.reset = IF delta > 0 THEN delta ELSE 0
  BY DEF DecisionHeaders
<1> HIDE DEF delta, retry, h
<1>6. CASE delta > 0
  <2>1. h.reset = delta /\ h.reset * Second >= wait /\ (h.reset - 1) * Second < wait
    BY <1>3, <1>5, <1>6
  <2>2. retry * Second \in Int /\ delta * Second \in Int
    BY <1>1, <1>3, <1>4
  <2> QED
    BY <1>1, <1>4, <1>5, <2>1, <2>2 DEF Fits, h
<1>7. CASE ~ (delta > 0)
  <2>1. h.reset = 0 /\ h.reset * Second = 0
    BY <1>1, <1>5, <1>7
  <2>2. wait <= 0
    <3>1. delta * Second <= 0
      BY <1>1, <1>3, <1>7
    <3>2. delta * Second \in Int
      BY <1>1, <1>3
    <3> QED
      BY <1>2, <1>3, <3>1, <3>2
  <2>3. retry * Second \in Int
    BY <1>1, <1>4
  <2> QED
    BY <1>1, <1>4, <1>5, <2>1, <2>2, <2>3 DEF Fits, h
<1> QED
  BY <1>3, <1>6, <1>7

AdviceInv == \A r \in Requests : Advised(r)

\* What the adapters stamp fits the verdict it is about.
LEMMA OwnHeadersFit ==
  ASSUME TypeOK, NEW r \in Requests, Stage(r), Advised(r), outcome[r] = "decision"
  PROVE  Fits(DecisionHeaders(verdict[r]), verdict[r])
<1>1. MaxTime \in Nat
  BY WebAssumption
<1>2. verdict[r] \in Verdicts /\ clock \in 0 .. MaxTime
  BY DEF TypeOK
<1>3. clock \in Nat
  BY <1>1, <1>2
<1>4. ~ verdict[r].allowed => verdict[r].resetAt - verdict[r].retryAfter <= clock
  BY DEF Stage, Advised
<1> QED
  BY <1>2, <1>3, <1>4, HeadersFit

\* A step that leaves the clock and the other requests alone keeps their advice.
LEMMA AdviceOfOne ==
  ASSUME NEW r \in Requests, AdviceInv, Untouched(r), clock' = clock, Advised(r)'
  PROVE  AdviceInv'
<1>1. ASSUME NEW q \in Requests \ {r} PROVE Advised(q)'
  <2>1. Advised(q)
    BY DEF AdviceInv
  <2> QED
    BY <2>1 DEF Advised, Untouched, Decided, Stamped, Fits
<1> QED
  BY <1>1 DEF AdviceInv

LEMMA StepAdvice ==
  ASSUME TypeOK, WebInv, AdviceInv, [Next]_vars
  PROVE  AdviceInv'
<1>0. /\ pc = [q \in Requests |-> pc[q]] /\ extra = [q \in Requests |-> extra[q]]
      /\ outcome = [q \in Requests |-> outcome[q]]
      /\ views = [q \in Requests |-> views[q]]
      /\ verdict = [q \in Requests |-> verdict[q]]
      /\ response = [q \in Requests |-> response[q]]
  BY DEF TypeOK
<1>1. CASE UNCHANGED vars
  BY <1>1 DEF vars, AdviceInv, Advised, Decided, Stamped, Fits
<1>2. CASE Tick
  <2> SUFFICES ASSUME NEW r \in Requests PROVE Advised(r)'
    BY DEF AdviceInv
  <2>1. Advised(r)
    BY DEF AdviceInv
  <2>2. MaxTime \in Nat
    BY WebAssumption
  <2>3. clock \in 0 .. MaxTime /\ verdict[r] \in Verdicts
    BY DEF TypeOK
  <2>4. \A n \in Int : n <= clock => n <= clock + 1
    BY <2>2, <2>3
  <2>5. verdict[r].resetAt - verdict[r].retryAfter \in Int
    BY <2>3 DEF Verdicts
  <2>6. /\ clock' = clock + 1
        /\ UNCHANGED <<verdict, extra, response>>
    BY <1>2 DEF Tick
  <2> QED
    BY <2>1, <2>4, <2>5, <2>6 DEF Advised, Decided, Stamped, Fits
<1>3. ASSUME NEW r \in Requests, Handler(r) \/ Call(r) \/ Backend(r) PROVE AdviceInv'
  <2> USE <1>0
  <2>i. Stage(r) /\ Advised(r)
    BY DEF WebInv, AdviceInv
  <2>1. CASE Enter(r) \/ Call(r) \/ Return(r)
    <3>1. Untouched(r)
      <4>1. CASE Enter(r)
        BY <4>1 DEF Enter, Untouched
      <4>3. CASE Call(r)
        BY <4>3 DEF Call, Untouched
      <4>4. CASE Return(r)
        BY <4>4 DEF Return, Untouched
      <4> QED
        BY <2>1, <4>1, <4>3, <4>4
    <3>2. UNCHANGED <<clock, verdict, extra, response>>
      BY <2>1 DEF Enter, Call, Return
    <3>3. Advised(r)'
      BY <2>i, <3>2 DEF Advised, Decided, Stamped, Fits
    <3> QED
      BY <3>1, <3>2, <3>3, AdviceOfOne
  <2>2. CASE ViewRaises(r)
    <3>1. Finish(r, "error", NoHeaders) /\ UNCHANGED <<clock, verdict, extra>>
      BY <2>2 DEF ViewRaises, Finish
    <3>2. UNCHANGED <<outcome, views>>
      BY <2>2 DEF ViewRaises, Finish
    <3>3. Untouched(r) /\ response'[r].headers = NoHeaders
      BY <3>1, <3>2 DEF Finish, Untouched
    <3>4. Advised(r)'
      BY <2>i, <3>1, <3>3 DEF Advised, Decided, Stamped, Fits
    <3> QED
      BY <3>1, <3>3, <3>4, AdviceOfOne
  <2>3. CASE Resume(r)
    <3>1. UNCHANGED <<clock, verdict, outcome>>
      BY <2>3, ResumeCases
    <3>2. \A h : Own(r, h) /\ h # NoHeaders => Fits(h, verdict[r])
      BY <2>i, OwnHeadersFit DEF Own
    <3>3. ASSUME NEW h, Starts(r, h) PROVE AdviceInv'
      <4>1. Untouched(r) /\ extra'[r] = h /\ response' = response
        BY <3>1, <3>3 DEF Starts, RunView, Untouched
      <4>2. Advised(r)'
        BY <2>i, <3>1, <3>2, <3>3, <4>1 DEF Starts, Advised, Decided, Stamped, Fits
      <4> QED
        BY <3>1, <4>1, <4>2, AdviceOfOne
    <3>4. ASSUME NEW s \in Statuses, NEW h, Ends(r, s, h) PROVE AdviceInv'
      <4>1. /\ Untouched(r) /\ extra' = extra
            /\ response'[r] = [status |-> s, headers |-> h]
        BY <3>1, <3>4 DEF Ends, Finish, Untouched
      <4>2. Advised(r)'
        BY <2>i, <3>1, <3>2, <3>4, <4>1 DEF Ends, Denied, Advised, Decided, Stamped, Fits
      <4> QED
        BY <3>1, <4>1, <4>2, AdviceOfOne
    <3> QED
      BY <2>3, <3>3, <3>4, ResumeCases
  <2>5. CASE ViewReturns(r)
    <3>1. /\ Finish(r, "served", Stamp(r))
          /\ UNCHANGED <<clock, verdict, outcome, extra, views>>
      BY <2>5 DEF ViewReturns, Finish
    <3>2. \/ Stamp(r) \in {NoHeaders, extra[r]}
          \/ outcome[r] = "decision" /\ Stamp(r) = DecisionHeaders(verdict[r])
      BY DEF Stamp, Kept, HeadersIf
    <3>3. Stamp(r) # NoHeaders => Fits(Stamp(r), verdict[r])
      BY <2>i, <3>2, OwnHeadersFit DEF Advised
    <3>4. Untouched(r) /\ response'[r] = [status |-> "served", headers |-> Stamp(r)]
      BY <3>1 DEF Finish, Untouched
    <3>5. Advised(r)'
      BY <2>i, <3>1, <3>3, <3>4 DEF Advised, Decided, Stamped, Fits
    <3> QED
      BY <3>1, <3>4, <3>5, AdviceOfOne
  <2>6. CASE Serve(r)
    <3> DEFINE end == (clock \div Window + 1) * Window
    <3>1. Untouched(r) /\ UNCHANGED <<clock, extra, response>>
      BY <2>6 DEF Serve, Untouched
    <3>2. extra[r] = NoHeaders /\ response[r] = NoResponse
      BY <2>6, <2>i DEF Serve, Stage
    <3>3. MaxTime \in Nat
      BY WebAssumption
    <3>4. clock \in 0 .. MaxTime
      BY DEF TypeOK
    <3>5. clock \in Nat
      BY <3>3, <3>4
    <3>6. end \in Nat
      BY <3>5, WindowEnds
    <3>7. \/ verdict'[r].allowed
          \/ verdict'[r].resetAt = end /\ verdict'[r].retryAfter = end - clock
      BY <2>6 DEF Serve
    <3> HIDE DEF end
    <3>8. end - (end - clock) <= clock
      BY <3>5, <3>6
    <3>9. Advised(r)'
      BY <3>1, <3>2, <3>7, <3>8 DEF Advised, Stamped, NoResponse
    <3> QED
      BY <3>1, <3>9, AdviceOfOne
  <2> QED
    BY <1>3, <2>1, <2>2, <2>3, <2>5, <2>6 DEF Handler, Backend
<1> QED
  BY <1>1, <1>2, <1>3 DEF Next

LEMMA AdviceInvariant == Spec => []AdviceInv
<1>1. Init => AdviceInv
  BY DEF Init, AdviceInv, Advised, Decided, Stamped, NoResponse
<1> QED
  BY <1>1, StepAdvice, WebTypeOK, WebInvariant, PTL DEF Spec

\* For every window, every length of a second and every skew of the clocks, a
\* client that waits as its response says waits long enough.
THEOREM AdviceSuffices == Spec => []AdviceIsEnough
<1>1. AdviceInv => AdviceIsEnough
  BY DEF AdviceInv, Advised, Fits, AdviceIsEnough
<1> QED
  BY <1>1, AdviceInvariant, PTL

\* And its own decision alone makes it wait: by less than a second more.
THEOREM AdviceIsNobodyElses == Spec => []AdviceIsOwn
<1>1. TypeOK /\ AdviceInv => AdviceIsOwn
  <2> SUFFICES ASSUME TypeOK, AdviceInv, NEW r \in Requests, Stamped(r)
               PROVE  LET h    == response[r].headers
                          wait == verdict[r].resetAt - (h.at + Skew)
                      IN /\ (h.reset - 1) * Second < (IF wait > 0 THEN wait ELSE 0)
                         /\ (h.retryAfter - 1) * Second < verdict[r].retryAfter
    BY DEF AdviceIsOwn
  <2> DEFINE h == response[r].headers
             wait == verdict[r].resetAt - (h.at + Skew)
  <2>1. response[r] \in Responses /\ verdict[r] \in Verdicts
    BY DEF TypeOK
  <2>2. /\ h.at \in Nat /\ h.reset \in Nat /\ verdict[r].resetAt \in Nat
        /\ Skew \in Nat /\ Second \in Nat /\ Second > 0
    BY <2>1, WebAssumption DEF Responses, Headers, Verdicts
  <2>3. /\ (h.reset - 1) * Second < wait \/ h.reset = 0
        /\ (h.retryAfter - 1) * Second < verdict[r].retryAfter
    BY DEF AdviceInv, Advised, Fits
  <2> HIDE DEF h
  <2>4. wait \in Int /\ (h.reset - 1) * Second \in Int
    BY <2>2
  <2>5. h.reset = 0 => (h.reset - 1) * Second < 0
    BY <2>2
  <2> QED
    BY <2>3, <2>4, <2>5 DEF h
<1> QED
  BY <1>1, WebTypeOK, AdviceInvariant, PTL
=============================================================================
