------------------------------ MODULE Evidence ------------------------------
(***************************************************************************)
(* The evidence model of src/src/src/domain: the stages of a probe, the    *)
(* failure classes, what one event adds to the Beta evidence of a proxy,   *)
(* how long a success may be published, and the reports a probe returns.   *)
(* Pure operators, no state.                                               *)
(*                                                                         *)
(* Evidence is counted in half points (the code's smallest weight is 0.5), *)
(* time in minutes.                                                        *)
(***************************************************************************)
EXTENDS Integers, FiniteSets, Sequences

\* TestStage, and FailureClass: the classes some probe of this code produces.
\* (HTTP_FAILURE is declared by the enum and never built.)
Stages == {"STATIC", "DNS_TCP", "RELAY", "HTTP", "DOWNLOAD"}
Classes == {"SUCCESS", "INVALID_CONFIG", "XRAY_START_FAILED", "DNS_FAILURE",
            "TCP_TIMEOUT", "CONNECTION_REFUSED", "TLS_TIMEOUT",
            "RELAY_TIMEOUT", "DOWNLOAD_TIMEOUT", "DOWNLOAD_TOO_SLOW",
            "LOCAL_OVERLOAD", "ENDPOINT_FAILURE"}

\* FailureClass::inconclusive: says nothing about the proxy.
Inconclusive(class) == class \in {"LOCAL_OVERLOAD", "ENDPOINT_FAILURE"}

\* A failure that counts against the proxy.
Conclusive(class) == class # "SUCCESS" /\ ~Inconclusive(class)

(***************************************************************************)
(* evidence::delta.  Positive evidence comes from successes only, negative *)
(* evidence from conclusive failures only; InvalidConfig and the           *)
(* inconclusive classes match before any stage does.                       *)
(***************************************************************************)
AlphaDelta(stage, class, fast) ==
  IF class # "SUCCESS" THEN 0
  ELSE CASE stage = "DOWNLOAD" -> IF fast THEN 16 ELSE 10
         [] stage = "HTTP"     -> 6
         [] stage = "RELAY"    -> 2
         [] OTHER              -> 0

BetaDelta(stage, class) ==
  CASE class = "INVALID_CONFIG"      -> 16
    [] class = "TLS_TIMEOUT"         -> 1
    [] class \in {"TCP_TIMEOUT", "DNS_FAILURE", "RELAY_TIMEOUT",
                  "DOWNLOAD_TIMEOUT", "XRAY_START_FAILED"} -> 2
    [] class = "CONNECTION_REFUSED"  -> 4
    [] class = "DOWNLOAD_TOO_SLOW"   -> IF stage = "DOWNLOAD" THEN 6 ELSE 0
    [] OTHER                         -> 0

(***************************************************************************)
(* evidence::health compared with a threshold of `percent` hundredths:     *)
(* alpha / (alpha + beta) < percent / 100, without the division.  Both     *)
(* arguments carry the prior of one point, so the total is never zero.     *)
(***************************************************************************)
ScoreBelow(alpha, beta, percent) == 100 * alpha < percent * (alpha + beta)

\* evidence::lease_until: minutes of publication a success of `stage` grants.
LeaseMinutes(stage, fast) ==
  CASE stage = "DOWNLOAD" -> IF fast THEN 720 ELSE 360
    [] stage = "HTTP"     -> 120
    [] stage = "RELAY"    -> 30
    [] OTHER              -> 0

(***************************************************************************)
(* The reports a probe can return (probe::test_batch, preflight,           *)
(* test_survivor_batch, test_through_xray, download): the events of one    *)
(* run in the order they are applied.  A run has at most one failure, and  *)
(* it is the last event; a run that reaches a download has already         *)
(* reported a relay and an HTTP success.                                   *)
(***************************************************************************)
Event(stage, class, fast) == [stage |-> stage, class |-> class, fast |-> fast]

Passed == << Event("RELAY", "SUCCESS", FALSE), Event("HTTP", "SUCCESS", FALSE) >>

DownloadEvents ==
  {Event("DOWNLOAD", "SUCCESS", f) : f \in BOOLEAN} \cup
  {Event("DOWNLOAD", c, FALSE) : c \in {"DOWNLOAD_TIMEOUT", "TLS_TIMEOUT",
                                        "DOWNLOAD_TOO_SLOW",
                                        "ENDPOINT_FAILURE"}}

StoppedEarly ==
  {Event("STATIC", "INVALID_CONFIG", FALSE)} \cup
  {Event("DNS_TCP", c, FALSE) : c \in {"DNS_FAILURE", "TCP_TIMEOUT",
                                       "CONNECTION_REFUSED"}} \cup
  {Event("RELAY", c, FALSE) : c \in {"LOCAL_OVERLOAD", "XRAY_START_FAILED",
                                     "RELAY_TIMEOUT"}} \cup
  {Event("HTTP", c, FALSE) : c \in {"RELAY_TIMEOUT", "TLS_TIMEOUT",
                                    "ENDPOINT_FAILURE"}}

Reports(downloadDue) ==
  {<< e >> : e \in StoppedEarly} \cup
  (IF downloadDue THEN {Append(Passed, e) : e \in DownloadEvents}
                  ELSE {Passed})

\* The events that can be applied: those of a report, and what an incident
\* makes of a failure (app.rs, spawn_scheduler).
Events == StoppedEarly \cup DownloadEvents \cup {Passed[1], Passed[2]} \cup
          {Event(s, "ENDPOINT_FAILURE", FALSE) : s \in Stages}
=============================================================================
