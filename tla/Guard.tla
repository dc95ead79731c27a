------------------------------- MODULE Guard --------------------------------
(***************************************************************************)
(* The network guard, the incidents found in a batch of tests, and the     *)
(* adaptive limits: spawn_network_guard and the loop of spawn_scheduler in *)
(* src/src/src/app.rs, correlated_incident in scheduler/mod.rs, and the    *)
(* part of RuntimeStatus the two tasks share.                              *)
(*                                                                         *)
(* What a claim and a report do to the rows is in module Fleet; here a     *)
(* batch is a set of proxies, and of an event that is written only whether *)
(* it counts against the proxy.                                            *)
(***************************************************************************)
EXTENDS Evidence

CONSTANTS
  Proxies,
  Origin,             \* of each proxy: its source, protocol and server
  Kinds,              \* the reports a probe may return
  Enabled,            \* network_guard.enabled
  FailureThreshold,   \* network_guard.failure_threshold
  RecoveryThreshold,  \* network_guard.recovery_threshold
  MassPercent,        \* network_guard.mass_failure_threshold_percent
  Least, Most,        \* the configured range of each limit
  MaxRestarts         \* bound: how often the process is killed and started again

Pools == {"xray", "download"}
Dimensions == {"source", "protocol", "server"}

ASSUME GuardConstants ==
  /\ IsFiniteSet(Proxies)
  /\ DOMAIN Origin = Proxies /\ \A p \in Proxies : DOMAIN Origin[p] = Dimensions
  /\ Kinds \subseteq Reports(TRUE) \cup Reports(FALSE) /\ Kinds # {}
  /\ Enabled \in BOOLEAN /\ MaxRestarts \in Nat
  /\ FailureThreshold \in Nat \ {0} /\ RecoveryThreshold \in Nat \ {0}
  /\ MassPercent \in 1..100
  /\ Least \in [Pools -> Nat \ {0}] /\ Most \in [Pools -> Nat \ {0}]
  /\ \A pool \in Pools : Least[pool] <= Most[pool]

\* system_pressure, by the thresholds the scheduler compares it with: below
\* 0.65, 0.75, 0.90, and above.
Levels == {"low", "raised", "high", "over"}

VARIABLES
  online,       \* the sentinel's targets answer
  failures,     \* the guard's counters, which saturate (here at the thresholds)
  recoveries,
  incident,     \* RuntimeStatus::network_incident
  limit,        \* RuntimeStatus::xray_concurrency and download_concurrency
  pc,           \* where the scheduler is
  pressure,     \* the pressure it read at its last tick
  batch,        \* the proxies it has claimed
  reports,      \* what their probes returned
  spike,        \* some latency of the batch was above max_relay_delay_ms
  mass,         \* the batch was taken for an incident
  left,         \* proxies whose report is not written yet
  blamed,       \* proxies of the batch a conclusive failure was written of
  restarts      \* how often the process was started again

guard == << online, failures, recoveries >>
vars == << guard, incident, limit, pc, pressure, batch, reports, spike, mass,
           left, blamed, restarts >>

TypeOK ==
  /\ online \in BOOLEAN
  /\ failures \in 0..FailureThreshold /\ recoveries \in 0..RecoveryThreshold
  /\ incident \in BOOLEAN
  /\ limit \in [Pools -> Nat] /\ \A pool \in Pools : limit[pool] \in Least[pool]..Most[pool]
  /\ pc \in {"idle", "claiming", "probing", "writing"}
  /\ pressure \in Levels
  /\ batch \subseteq Proxies /\ left \subseteq batch /\ blamed \subseteq batch \ left
  /\ reports = << >> \/ reports \in [batch -> Kinds]
  /\ spike \in BOOLEAN /\ mass \in BOOLEAN
  /\ restarts \in 0..MaxRestarts

\* A batch is forgotten when its last statement is done.
NoBatch ==
  /\ batch' = {} /\ reports' = << >> /\ spike' = FALSE /\ mass' = FALSE
  /\ left' = {} /\ blamed' = {}

Init ==
  /\ online \in BOOLEAN
  /\ failures = 0 /\ recoveries = 0 /\ incident = FALSE
  /\ limit = Least
  /\ pc = "idle" /\ pressure = "low"
  /\ batch = {} /\ reports = << >> /\ spike = FALSE /\ mass = FALSE
  /\ left = {} /\ blamed = {} /\ restarts = 0

\* The network goes down or comes back.
Sentinel ==
  /\ online' = ~online
  /\ UNCHANGED << failures, recoveries, incident, limit, pc, pressure, batch,
                  reports, spike, mass, left, blamed, restarts >>

UpTo(n, threshold) == IF n < threshold THEN n ELSE threshold

\* Mutant of Healthy: only an incident the guard has seen start is cleared.
HealthyIfSeen ==
  /\ failures' = 0
  /\ recoveries' = UpTo(recoveries + 1, RecoveryThreshold)
  /\ incident' = (incident /\ (recoveries' < RecoveryThreshold \/ failures = 0))

\* A check of the guard that finds the network healthy, and one that does not.
Healthy ==
  /\ failures' = 0
  /\ recoveries' = UpTo(recoveries + 1, RecoveryThreshold)
  /\ incident' = (incident /\ recoveries' < RecoveryThreshold)

Unhealthy ==
  /\ recoveries' = 0
  /\ failures' = UpTo(failures + 1, FailureThreshold)
  /\ incident' = (incident \/ failures' >= FailureThreshold)

Check ==
  /\ Enabled
  /\ IF online THEN Healthy ELSE Unhealthy
  /\ UNCHANGED << online, limit, pc, pressure, batch, reports, spike, mass, left,
                  blamed, restarts >>

(***************************************************************************)
(* The limits.  The multiplication by 0.7 is exact in a double below 90.   *)
(***************************************************************************)
Clamped(pool, n) ==
  IF n < Least[pool] THEN Least[pool] ELSE IF n > Most[pool] THEN Most[pool] ELSE n

\* Mutants of Cut and Raised: rounded up; a limit is not clamped.
CutRoundedUp(now) == [pool \in Pools |-> Clamped(pool, (7 * now[pool] + 9) \div 10)]
RaisedFreely(now) == [pool \in Pools |-> now[pool] + 1]

Cut(now) == [pool \in Pools |-> Clamped(pool, (7 * now[pool]) \div 10)]

Raised(now) == [pool \in Pools |-> Clamped(pool, now[pool] + 1)]

(***************************************************************************)
(* The scheduler.                                                          *)
(***************************************************************************)
Paused(level) == level = "over" \/ incident

\* A tick reads the pressure, the limits and the incident flag under one lock.
Tick(level) ==
  /\ pc = "idle"
  /\ pressure' = level
  /\ pc' = IF Paused(level) THEN "idle" ELSE "claiming"
  /\ limit' = IF level = "over" THEN Cut(limit) ELSE limit
  /\ UNCHANGED << guard, incident, batch, reports, spike, mass, left, blamed,
                  restarts >>

\* claim_due: at most xray_concurrency jobs, possibly none.
Claim(claimed) ==
  /\ pc = "claiming"
  /\ Cardinality(claimed) <= limit["xray"]
  /\ batch' = claimed
  /\ pc' = IF claimed = {} THEN "idle" ELSE "probing"
  /\ UNCHANGED << guard, incident, limit, pressure, reports, spike, mass, left,
                  blamed, restarts >>

ClassesOf(report) == {report[i].class : i \in 1..Len(report)}

\* A report correlated_incident counts as failed.
Failed(report) ==
  /\ ClassesOf(report) \cap {"SUCCESS", "INVALID_CONFIG"} = {}
  /\ \E class \in ClassesOf(report) : ~Inconclusive(class)

\* Mutant of Independent: every dimension must differ.
IndependentInAll(ps) ==
  \A d \in Dimensions : Cardinality({Origin[p][d] : p \in ps}) >= 2

\* The failures come from two sources, two protocols or two servers.
Independent(ps) ==
  \E d \in Dimensions : Cardinality({Origin[p][d] : p \in ps}) >= 2

CorrelatedIncident(returned) ==
  LET failed == {p \in batch : Failed(returned[p])}
  IN  /\ Cardinality(batch) >= 3
      /\ 100 * Cardinality(failed) >= MassPercent * Cardinality(batch)
      /\ Independent(failed)

\* The events that carry a latency; none of a download does.
Timed(event) ==
  \/ event.class = "SUCCESS" /\ event.stage # "DOWNLOAD"
  \/ event.class \in {"TCP_TIMEOUT", "CONNECTION_REFUSED"}
  \/ event.class = "RELAY_TIMEOUT" /\ event.stage = "RELAY"

\* test_batch, and the look at its reports; the incident is declared at once.
Probe(returned, slow) ==
  /\ pc = "probing"
  /\ pc' = "writing"
  /\ reports' = returned /\ left' = batch
  /\ spike' = (slow /\ \E p \in batch : \E i \in 1..Len(returned[p]) : Timed(returned[p][i]))
  /\ mass' = CorrelatedIncident(returned)
  /\ incident' = (incident \/ CorrelatedIncident(returned))
  /\ UNCHANGED << guard, limit, pressure, batch, blamed, restarts >>

\* A conclusive failure of a mass failure is written as an endpoint's.
Blames(report) ==
  \E class \in ClassesOf(report) :
    Conclusive(class) /\ (mass => class = "INVALID_CONFIG")

\* The transactions of one report.
Write(p) ==
  /\ pc = "writing" /\ p \in left
  /\ left' = left \ {p}
  /\ blamed' = IF Blames(reports[p]) THEN blamed \cup {p} ELSE blamed
  /\ UNCHANGED << guard, incident, limit, pc, pressure, batch, reports, spike,
                  mass, restarts >>

Downloaded(report) ==
  \E i \in 1..Len(report) : report[i].stage = "DOWNLOAD" /\ report[i].class = "SUCCESS"

Timeouts == {"TCP_TIMEOUT", "TLS_TIMEOUT", "RELAY_TIMEOUT", "DOWNLOAD_TIMEOUT"}

EventsOf == UNION {{p} \X (1..Len(reports[p])) : p \in batch}
TimeoutCluster ==
  LET timeouts == {e \in EventsOf : reports[e[1]][e[2]].class \in Timeouts}
  IN  Cardinality(EventsOf) >= 3 /\ 2 * Cardinality(timeouts) >= Cardinality(EventsOf)

LocalOverload == \E p \in batch : "LOCAL_OVERLOAD" \in ClassesOf(reports[p])

\* Why the window lowers the limits, and whether it raises them.
Strained == pressure \in {"high", "over"} \/ TimeoutCluster \/ spike \/ LocalOverload
Stable == pressure = "low" /\ ~spike /\ ~LocalOverload /\ \A p \in batch : Downloaded(reports[p])

\* The end of the window, with the pressure read before the batch was claimed.
Adjust ==
  /\ pc = "writing" /\ left = {}
  /\ pc' = "idle"
  /\ limit' = IF Strained THEN Cut(limit) ELSE IF Stable THEN Raised(limit) ELSE limit
  /\ NoBatch
  /\ UNCHANGED << guard, incident, pressure, restarts >>

\* The process is started again: all of this is in memory.
Restart ==
  /\ restarts < MaxRestarts
  /\ restarts' = restarts + 1
  /\ failures' = 0 /\ recoveries' = 0 /\ incident' = FALSE
  /\ limit' = Least
  /\ pc' = "idle" /\ pressure' = "low"
  /\ NoBatch
  /\ UNCHANGED online

AnyTick == \E level \in Levels : Tick(level)
AnyProbe == \E returned \in [batch -> Kinds], slow \in BOOLEAN : Probe(returned, slow)
ClaimSome == \E claimed \in SUBSET Proxies \ {{}} : Claim(claimed)

Next ==
  \/ Sentinel \/ Check \/ AnyTick \/ ClaimSome \/ Claim({})
  \/ AnyProbe
  \/ \E p \in Proxies : Write(p)
  \/ Adjust \/ Restart

Spec == Init /\ [][Next]_vars

\* Timers fire, probes have deadlines, statements return; rows become due again
\* and again.
FairSpec ==
  /\ Spec
  /\ WF_vars(Check) /\ WF_vars(AnyTick) /\ SF_vars(ClaimSome) /\ WF_vars(AnyProbe)
  /\ WF_vars(\E p \in Proxies : Write(p)) /\ WF_vars(Adjust)

(***************************************************************************)
(* Properties.                                                             *)
(***************************************************************************)
\* The probes of the batch that failed for a reason of the proxy, and did so
\* before anything worked.
Unreachable ==
  {p \in batch : \A i \in 1..Len(reports[p]) :
     Conclusive(reports[p][i].class) /\ reports[p][i].class # "INVALID_CONFIG"}

Writing == pc = "writing"

\* correlated_incident: an outage "across multiple sources/protocols must not
\* demote the fleet".  When nothing of a batch of three or more works, on two
\* servers at least, no failure of it is held against any proxy.
OutageAccusesNobody ==
  Writing /\ Unreachable = batch /\ Cardinality(batch) >= 3
    /\ (\E p, q \in batch : Origin[p]["server"] # Origin[q]["server"])
    => blamed = {}

\* correlated_incident: "a single bad [...] server must remain ordinary
\* per-proxy evidence".  When all failures are of one source, protocol and
\* server, each is written as it is.
BadServerIsBlamed ==
  Writing /\ (\A p, q \in Unreachable : Origin[p] = Origin[q])
    => Unreachable \ left \subseteq blamed

\* An outage is held against nobody and a bad server against its proxies, with
\* whatever reports the batch comes back.
BlameIsFair == OutageAccusesNobody /\ BadServerIsBlamed

\* Testing follows the network.  While it is down for good, the incident stands
\* and the scheduler ends the batch in hand and starts no other; when it is back
\* for good, testing goes on, whoever declared the incidents: the guard clears
\* those of the scheduler as well.
TestingFollowsNetwork ==
  /\ <>[](~online) => <>[](incident /\ pc = "idle")
  /\ <>[](online /\ pressure # "over") => []<>(pc = "probing")

\* The limits follow the strain, from wherever they are.  Under lasting pressure
\* both come down to their minimum (0.7 of a small limit, rounded down); when
\* every test of every batch downloads and nothing is slow, both reach their
\* maximum.
LimitsFollowStrain ==
  /\ <>[](online /\ pressure = "high") => <>[](limit = Least)
  /\ <>[](online /\ pressure = "low" /\ ~spike
            /\ \A p \in DOMAIN reports : Downloaded(reports[p]))
       => <>[](limit = Most)

\* docs/TASKs.md: an incident has an end.
IncidentEnds ==
  <>[]online => []<>(~incident)
=============================================================================
