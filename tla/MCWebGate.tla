----------------------------- MODULE MCWebGate ------------------------------
(***************************************************************************)
(* Instances of WebGate for TLC.                                           *)
(***************************************************************************)
EXTENDS WebGate, TLC

Site(s, c, o, b, h, w) ==
  [site |-> s, checker |-> c, outage |-> o, block |-> b, stamp |-> h, workers |-> w]

Adapters == Sites \ Decorators

Outages == {"allow", "deny"}

\* One worker is short of two requests, two are not.
Pool(s, c) == IF s \in AsyncSites /\ c \in {"service", "redis", "awaitable"} THEN {1, 2} ELSE {1}

Usual ==
  UNION {{Site(s, c, o, TRUE, TRUE, w) : w \in Pool(s, c)} :
           s \in Adapters, c \in Checkers, o \in Outages}
    \cup UNION {{Site(s, c, "allow", TRUE, TRUE, w) : w \in Pool(s, c)} :
           s \in Decorators, c \in Checkers}

Unusual ==
  {Site("django", "service", o, FALSE, h, 1) : o \in Outages, h \in BOOLEAN}
    \cup {Site(s, "service", "deny", TRUE, FALSE, 1) : s \in {"flask", "django", "dependency"}}

AllApps == Usual \cup Unusual
=============================================================================
