---------------------------- MODULE ProxyHealth -----------------------------
(***************************************************************************)
(* The life of one proxy under the health model: runs of probe events      *)
(* applied one transaction at a time (Store::apply_test_event calling      *)
(* health::decide), any of which may fail and is then skipped, with        *)
(* evidence that decays, a batch-wide incident that rewrites failures, an  *)
(* operator who revives, and upstream retirement.                          *)
(*                                                                         *)
(* Evidence is the sum over the stored events, without the prior, in half  *)
(* points; durations are ticks of TickMinutes.  Races between the writers  *)
(* of a row are the subject of module Fleet, not of this one.              *)
(***************************************************************************)
EXTENDS Health

CONSTANTS
  MaxAlpha,       \* MAX_EFFECTIVE_ALPHA and MAX_EFFECTIVE_BETA, in half
  MaxBeta,        \*   points and without the prior
  TickMinutes,    \* minutes one step of the clock stands for
  Residence,      \* active_min_residence, in ticks
  CounterCap      \* bound on the failure counters (the code compares with 3)

ASSUME HealthConstants ==
  /\ MaxAlpha \in Nat /\ MaxBeta \in Nat
  /\ TickMinutes \in Nat \ {0}
  /\ Residence \in Nat \ {0}
  /\ CounterCap \in Nat /\ CounterCap >= 3

VARIABLES
  life,         \* lifecycle_state, TESTING and WAITING_FOR_PORT looked through
  testing,      \* the row still says TESTING: no event of the run was written
                \*   and the test lease is not released
  alpha, beta,  \* decayed evidence
  streak,       \* failure_streak
  independent,  \* independent_failure_count
  failedInRun,  \* last_failure_run_id is the id of the run in progress
  residence,    \* ticks until the minimum ACTIVE residence is over
  lease,        \* ticks until publication_lease_until
  downloaded,   \* last_real_download_at is set
  pending,      \* events of the run in progress that are not applied yet
  vouched,      \* history: the run in progress has events left, and a success of
                \*   it was written
  badRuns       \* history: conclusively failed runs since the last success
                \*   that was written

vars == << life, testing, alpha, beta, streak, independent, failedInRun, residence,
           lease, downloaded, pending, vouched, badRuns >>

Least(a, b) == IF a < b THEN a ELSE b

\* A duration of the code in ticks, rounded up.
Ticks(minutes) == (minutes + TickMinutes - 1) \div TickMinutes

MaxLease == Ticks(LeaseMinutes("DOWNLOAD", TRUE))

TypeOK ==
  /\ life \in Lifecycles /\ testing \in BOOLEAN
  /\ alpha \in 0..MaxAlpha /\ beta \in 0..MaxBeta
  /\ streak \in 0..CounterCap /\ independent \in 0..CounterCap
  /\ failedInRun \in BOOLEAN /\ downloaded \in BOOLEAN
  /\ residence \in 0..Residence
  /\ lease \in 0..MaxLease
  /\ pending \in Seq(Events)
  /\ vouched \in BOOLEAN /\ badRuns \in 0..CounterCap

\* The row Store::ingest_many inserts.
Init ==
  /\ life = "CANDIDATE" /\ testing = FALSE
  /\ alpha = 0 /\ beta = 0
  /\ streak = 0 /\ independent = 0
  /\ failedInRun = FALSE /\ downloaded = FALSE
  /\ residence = 0 /\ lease = 0
  /\ pending = << >>
  /\ vouched = FALSE /\ badRuns = 0

(***************************************************************************)
(* A run.                                                                  *)
(***************************************************************************)
\* What the scheduler persists of an event of an incident batch: every
\* failure but an invalid config becomes an inconclusive ENDPOINT_FAILURE.
Rewritten(report, inIncident) ==
  [i \in DOMAIN report |->
     IF inIncident /\ report[i].class \notin {"SUCCESS", "INVALID_CONFIG"}
     THEN [report[i] EXCEPT !.class = "ENDPOINT_FAILURE"]
     ELSE report[i]]

\* A run ends in a failure that counts against the proxy.
Fails(run) == \E i \in DOMAIN run : Conclusive(run[i].class)

\* The scheduler has claimed the proxy and its batch has been probed.  Only
\* an ACTIVE proxy whose last download is recent skips the download stage.
\* For the history the run is bad from its start, when it will fail.
StartRun(report, inIncident) ==
  /\ pending = << >> /\ ~testing
  /\ life \notin {"INVALID", "RETIRED"}
  /\ testing' = TRUE
  /\ pending' = Rewritten(report, inIncident)
  /\ vouched' = FALSE
  /\ badRuns' = IF Fails(pending') THEN Least(badRuns + 1, CounterCap) ELSE badRuns
  /\ failedInRun' = FALSE
  /\ UNCHANGED << life, alpha, beta, streak, independent, residence, lease,
                  downloaded >>

\* Store::apply_test_event for the next event of the run.
ApplyEvent ==
  /\ pending # << >>
  /\ LET e == Head(pending)
         newAlpha == Least(alpha + AlphaDelta(e.stage, e.class, e.fast), MaxAlpha)
         newBeta  == Least(beta + BetaDelta(e.stage, e.class), MaxBeta)
         newStreak == NextStreak(streak, e.class)
         newIndependent == NextIndependent(independent, e.class, ~failedInRun)
         verdict == NextLifecycle(
           [lifecycle |-> life, alpha |-> 2 + newAlpha, beta |-> 2 + newBeta,
            resident |-> residence = 0, streak |-> newStreak,
            independent |-> newIndependent,
            stage |-> e.stage, class |-> e.class])
     IN  /\ life' = verdict
         /\ alpha' = newAlpha /\ beta' = newBeta
         /\ streak' = Least(newStreak, CounterCap)
         /\ independent' = Least(newIndependent, CounterCap)
         /\ failedInRun' = (failedInRun \/ Conclusive(e.class))
         /\ residence' = IF verdict = "ACTIVE" /\ life # "ACTIVE"
                         THEN Residence ELSE residence
         /\ lease' = NextLease(lease, Ticks(LeaseMinutes(e.stage, e.fast)), e.class)
         /\ downloaded' = (downloaded \/ RealDownload(e.stage, e.class))
         /\ vouched' = (Tail(pending) # << >> /\ (vouched \/ e.class = "SUCCESS"))
         /\ badRuns' = IF e.class # "SUCCESS" THEN badRuns
                       ELSE IF Fails(Tail(pending)) THEN 1 ELSE 0
  /\ pending' = Tail(pending)
  /\ testing' = FALSE

\* The transaction fails: nothing of the event is stored, the evidence
\* included, and the scheduler goes on with the next event of the run.
ApplyFails ==
  /\ pending # << >>
  /\ pending' = Tail(pending)
  /\ vouched' = (vouched /\ pending' # << >>)
  /\ UNCHANGED << life, testing, alpha, beta, streak, independent, failedInRun, residence,
                  lease, downloaded, badRuns >>

\* The end of a run none of whose events was written: the row keeps the
\* lifecycle it was claimed in.  (What becomes of a row when this statement
\* fails too, or when the run had found no port, is in module Fleet.)
Release ==
  /\ pending = << >> /\ testing
  /\ testing' = FALSE
  /\ UNCHANGED << life, alpha, beta, streak, independent, failedInRun, residence,
                  lease, downloaded, pending, vouched, badRuns >>

(***************************************************************************)
(* The other writers of these columns.                                     *)
(***************************************************************************)
\* Store::revive_node and, for a DORMANT proxy, Store::revive_dormant: neither
\* matches a row that is TESTING.
Revive ==
  /\ life \in {"DORMANT", "PROBATION", "CANDIDATE"} /\ ~testing
  /\ life' = "PROBATION"
  /\ UNCHANGED << testing, alpha, beta, streak, independent, failedInRun, residence,
                  lease, downloaded, pending, vouched, badRuns >>

\* Store::finish_refresh: an absent proxy is retired once its lease is over.
Retire ==
  /\ life \notin {"INVALID", "RETIRED"}
  /\ lease = 0
  /\ life' = "RETIRED" /\ testing' = FALSE
  /\ UNCHANGED << alpha, beta, streak, independent, failedInRun, residence,
                  lease, downloaded, pending, vouched, badRuns >>

\* Store::ingest_many finds a retired identity upstream again.
Reappear ==
  /\ life = "RETIRED"
  /\ life' = "CANDIDATE"
  /\ UNCHANGED << testing, alpha, beta, streak, independent, failedInRun, residence,
                  lease, downloaded, pending, vouched, badRuns >>

(***************************************************************************)
(* Time passes between runs (a run lasts seconds): evidence decays at its  *)
(* own pace, residence and lease run down.                                 *)
(***************************************************************************)
DecayAlpha ==
  /\ pending = << >> /\ alpha > 0
  /\ alpha' = alpha - 1
  /\ UNCHANGED << life, testing, beta, streak, independent, failedInRun, residence,
                  lease, downloaded, pending, vouched, badRuns >>

DecayBeta ==
  /\ pending = << >> /\ beta > 0
  /\ beta' = beta - 1
  /\ UNCHANGED << life, testing, alpha, streak, independent, failedInRun, residence,
                  lease, downloaded, pending, vouched, badRuns >>

Tick ==
  /\ pending = << >>
  /\ residence > 0 \/ lease > 0
  /\ residence' = IF residence > 0 THEN residence - 1 ELSE 0
  /\ lease' = IF lease > 0 THEN lease - 1 ELSE 0
  /\ UNCHANGED << life, testing, alpha, beta, streak, independent, failedInRun,
                  downloaded, pending, vouched, badRuns >>

Next ==
  \/ \E due \in IF life = "ACTIVE" THEN BOOLEAN ELSE {TRUE} :
       \E report \in Reports(due), inIncident \in BOOLEAN :
         StartRun(report, inIncident)
  \/ ApplyEvent \/ ApplyFails \/ Release
  \/ Revive \/ Retire \/ Reappear
  \/ DecayAlpha \/ DecayBeta \/ Tick

Spec == Init /\ [][Next]_vars

(***************************************************************************)
(* Properties.                                                             *)
(***************************************************************************)
\* A demotion takes repeated bad runs: an ACTIVE proxy is demoted only after
\* its minimum residence and two conclusively failed runs with no success
\* written since, and PROBATION becomes DORMANT only after three.
\* (health::decide; the counters advance with every event that is written, the
\* history counts runs, and the two must agree whatever incidents, lost
\* writes, revivals and reappearances came in between.  A success that could
\* not be written starts no count again: the row never knew of it.)
HysteresisOnDemotion ==
  [][/\ life = "ACTIVE" /\ life' = "PROBATION" => residence = 0 /\ badRuns >= 2
     /\ life = "PROBATION" /\ life' = "DORMANT" => badRuns >= 3]_vars

\* How good a lifecycle is for the proxy.
Standing == [CANDIDATE |-> 1, ACTIVE |-> 3, PROBATION |-> 2, DORMANT |-> 1,
             INVALID |-> 0, RETIRED |-> 0]

\* A failed download demotes nobody, as long as one success of its run was
\* written: a run that reaches its download has just reported a relay and an
\* HTTP success, either of which clears both counters, so the download's own
\* failure is never the second in a row.  Only runs that fail before the
\* download, or all of whose successes were lost on the way to the table
\* (app.rs:431), take a proxy out of ACTIVE or PROBATION.
DownloadFailuresNeverDemote ==
  [][pending # << >> /\ Head(pending).stage = "DOWNLOAD" /\ pending' # pending /\ vouched
       => Standing[life'] >= Standing[life]]_vars

\* Stated by the README ("It must pass the cheap relay stage and produce a
\* measured download speed"): a proxy that has never completed a download is
\* never ACTIVE.
ActiveHasDownloaded == life = "ACTIVE" => downloaded
=============================================================================
