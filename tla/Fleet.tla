------------------------------- MODULE Fleet --------------------------------
(***************************************************************************)
(* The writers of the nodes table side by side: the scheduler task         *)
(* (app.rs spawn_scheduler, scheduler::claim_due), the upstream refresh    *)
(* task (upstream::refresh), the operator's HTTP requests, and the         *)
(* process being killed and restarted.  SQLite runs one writing statement  *)
(* (or transaction) at a time, so each of those is one action here; between*)
(* two of them any other writer may get in.                                *)
(*                                                                         *)
(* Left out: evidence and scores (module ProxyHealth; here a test event    *)
(* may return any lifecycle NextLifecycle can return), the order and the   *)
(* sizes of the claim queues, and next_test_at: a row is due at any time.  *)
(***************************************************************************)
EXTENDS NodeStore

CONSTANTS
  Nodes,        \* proxy identities
  NoNode,       \* the scheduler has no job in hand
  Probes,       \* reports a probe may return
  Crashes,      \* the process may be killed at any point
  LockedWrites  \* a statement of the scheduler may fail: a deferred transaction
                \* that reads first cannot upgrade its snapshot once another
                \* connection has committed, whatever the busy timeout

ASSUME FleetConstants ==
  /\ NoNode \notin Nodes
  /\ Probes \subseteq Seq(Events) /\ << >> \notin Probes
  /\ Crashes \in BOOLEAN /\ LockedWrites \in BOOLEAN

VARIABLES
  row,      \* the nodes table
  pc,       \* the scheduler task: idle, claiming a batch, or working on it
  round,    \* the last SELECT of claim_due that returned rows, 0 before it
  picked,   \* rows that SELECT returned that are not UPDATEd yet
  jobs,     \* how many unfinished jobs of the batch are about a node
  work,     \* the job whose report is being persisted
  refresh   \* the refresh task: its phase, and whether a source has failed

vars == << row, pc, round, picked, jobs, work, refresh >>

\* QUEUE_ORDER: claim_due goes through the queues twice, for their quotas and
\* then for what capacity is left.
QueueOrder == << "CANDIDATE", "PROBATION", "DORMANT", "ACTIVE" >>
Rounds == 2 * Len(QueueOrder)
QueueOf(k) == QueueOrder[((k - 1) % Len(QueueOrder)) + 1]

NoWork == [node |-> NoNode, events |-> << >>, full |-> FALSE]
NoJobs == [n \in Nodes |-> 0]
Resting == [phase |-> "idle", failed |-> FALSE]

TypeOK ==
  /\ row \in [Nodes -> Rows]
  /\ pc \in {"idle", "claiming", "working"}
  /\ round \in 0..Rounds
  /\ picked \subseteq Nodes
  /\ jobs \in [Nodes -> Nat]
  /\ work \in [node : Nodes \cup {NoNode}, events : Seq(Events), full : BOOLEAN]
  /\ refresh \in [phase : {"idle", "fetching", "ingested"}, failed : BOOLEAN]

Init ==
  /\ row = [n \in Nodes |-> NoRow]
  /\ pc = "idle" /\ round = 0 /\ picked = {} /\ jobs = NoJobs /\ work = NoWork
  /\ refresh = Resting

Update(n, r) == row' = [row EXCEPT ![n] = r]

(***************************************************************************)
(* The scheduler task.                                                     *)
(***************************************************************************)
\* The next SELECT of claim_due that returns rows; the ones in between have
\* returned none.
ClaimSelect(k, S) ==
  /\ pc \in {"idle", "claiming"} /\ picked = {}
  /\ k > round
  /\ S # {} /\ \A n \in S : Eligible(row[n], QueueOf(k))
  /\ pc' = "claiming" /\ round' = k /\ picked' = S
  /\ UNCHANGED << row, jobs, work, refresh >>

\* The UPDATE for one of the rows it returned; a job only if it matched.
ClaimUpdate(n) ==
  /\ n \in picked
  /\ picked' = picked \ {n}
  /\ IF Claimable(row[n])
     THEN /\ Update(n, Claim(row[n]))
          /\ jobs' = [jobs EXCEPT ![n] = @ + 1]
     ELSE UNCHANGED << row, jobs >>
  /\ UNCHANGED << pc, round, work, refresh >>

\* Mutant of ClaimDone: the batch is dropped, its rows stay claimed.
ClaimDropped ==
  /\ pc = "claiming" /\ picked = {}
  /\ pc' = "idle" /\ round' = 0 /\ jobs' = NoJobs
  /\ UNCHANGED << row, picked, work, refresh >>

\* claim_due returns its jobs.
ClaimDone ==
  /\ pc = "claiming" /\ picked = {}
  /\ pc' = "working" /\ round' = 0
  /\ UNCHANGED << row, picked, jobs, work, refresh >>

\* A statement of claim_due fails: the jobs claimed so far are forgotten.
ClaimFails ==
  /\ LockedWrites /\ pc = "claiming"
  /\ pc' = "idle" /\ round' = 0 /\ picked' = {} /\ jobs' = NoJobs
  /\ UNCHANGED << row, work, refresh >>

\* The batch has been probed; the loop takes up the report about n.  The
\* port flag is set when all the report says is that no port was free.
TakeReport(n, report, full) ==
  /\ pc = "working" /\ work = NoWork /\ jobs[n] > 0
  /\ full => \A i \in DOMAIN report : report[i].class = "LOCAL_OVERLOAD"
  /\ work' = [node |-> n, events |-> report, full |-> full]
  /\ UNCHANGED << row, pc, round, picked, jobs, refresh >>

\* apply_test_event commits.
ApplyEvent(verdict) ==
  /\ work # NoWork /\ work.events # << >>
  /\ LET n == work.node
         e == Head(work.events)
     IN  /\ verdict \in Verdicts(PriorLifecycle(row[n]), e.stage, e.class)
         /\ Update(n, Applied(row[n], e, verdict))
  /\ work' = [work EXCEPT !.events = Tail(@)]
  /\ UNCHANGED << pc, round, picked, jobs, refresh >>

\* apply_test_event fails: logged, and the loop goes on to the next event.
ApplyFails ==
  /\ LockedWrites /\ work # NoWork /\ work.events # << >>
  /\ work' = [work EXCEPT !.events = Tail(@)]
  /\ UNCHANGED << row, pc, round, picked, jobs, refresh >>

\* The end of the job: mark_waiting_for_port or release_test_lease, which may
\* fail too.  test_batch returns one report per node, however many jobs.
FinishJob(fails) ==
  /\ fails => LockedWrites
  /\ work # NoWork /\ work.events = << >>
  /\ LET n == work.node
     IN  /\ \/ fails /\ UNCHANGED row
            \/ ~fails /\ work.full /\ Update(n, Waiting(row[n]))
            \/ ~fails /\ ~work.full /\ Update(n, Released(row[n]))
         /\ jobs' = [jobs EXCEPT ![n] = 0]
  /\ work' = NoWork
  /\ UNCHANGED << pc, round, picked, refresh >>

\* The tick ends with its last job.
BatchDone ==
  /\ pc = "working" /\ jobs = NoJobs
  /\ pc' = "idle"
  /\ UNCHANGED << row, round, picked, jobs, work, refresh >>

(***************************************************************************)
(* The refresh task.                                                       *)
(***************************************************************************)
\* begin_refresh: nothing has been seen in the new generation yet.
StartRefresh ==
  /\ refresh.phase = "idle"
  /\ refresh' = [phase |-> "fetching", failed |-> FALSE]
  /\ row' = [n \in Nodes |-> [row[n] EXCEPT !.seen = FALSE]]
  /\ UNCHANGED << pc, round, picked, jobs, work >>

SourceFails ==
  /\ refresh.phase = "fetching" /\ ~refresh.failed
  /\ refresh' = [refresh EXCEPT !.failed = TRUE]
  /\ UNCHANGED << row, pc, round, picked, jobs, work >>

\* A source that lists S answers 304 (copy_cached_source_generation).
CopyCached(S) ==
  /\ refresh.phase = "fetching"
  /\ row' = [n \in Nodes |-> IF n \in S THEN Copied(row[n]) ELSE row[n]]
  /\ UNCHANGED << pc, round, picked, jobs, work, refresh >>

\* The sources that answered with a body list S: one transaction for all.
Ingest(S) ==
  /\ refresh.phase = "fetching"
  /\ refresh' = [refresh EXCEPT !.phase = "ingested"]
  /\ row' = [n \in Nodes |-> IF n \in S THEN Ingested(row[n], FALSE) ELSE row[n]]
  /\ UNCHANGED << pc, round, picked, jobs, work >>

\* finish_refresh; aged are the rows created more than twelve hours ago.
FinishRefresh(aged) ==
  /\ refresh.phase = "ingested"
  /\ refresh' = Resting
  /\ IF refresh.failed
     THEN UNCHANGED row
     ELSE row' = [n \in Nodes |-> Reconciled(row[n], n \in aged)]
  /\ UNCHANGED << pc, round, picked, jobs, work >>

\* Any statement of refresh fails: the run stays RUNNING for ever.
RefreshFails ==
  /\ refresh.phase # "idle"
  /\ refresh' = Resting
  /\ UNCHANGED << row, pc, round, picked, jobs, work >>

(***************************************************************************)
(* The operator (api/mod.rs).                                              *)
(***************************************************************************)
ReviveNode(n) ==
  /\ Revivable(row[n])
  /\ Update(n, Revived(row[n]))
  /\ UNCHANGED << pc, round, picked, jobs, work, refresh >>

ReviveDormant ==
  /\ row' = [n \in Nodes |-> DormantRevived(row[n])]
  /\ UNCHANGED << pc, round, picked, jobs, work, refresh >>

ManualImport(n) ==
  /\ Update(n, Ingested(row[n], TRUE))
  /\ UNCHANGED << pc, round, picked, jobs, work, refresh >>

\* cleanup_retired deletes the retired rows whose tombstone is over.  It lasts
\* thirty days, so no batch is still about them.
Cleanup(S) ==
  /\ S # {}
  /\ \A n \in S : row[n].state = "RETIRED" /\ jobs[n] = 0 /\ n \notin picked
  /\ row' = [n \in Nodes |-> IF n \in S THEN NoRow ELSE row[n]]
  /\ UNCHANGED << pc, round, picked, jobs, work, refresh >>

(***************************************************************************)
(* Time and the process.                                                   *)
(***************************************************************************)
\* claim_due reads the clock once, so no lease ends while it runs.
TestLeaseExpires(n) ==
  /\ row[n].claimed /\ pc # "claiming"
  /\ Update(n, [row[n] EXCEPT !.claimed = FALSE])
  /\ UNCHANGED << pc, round, picked, jobs, work, refresh >>

PublicationLeaseExpires(n) ==
  /\ row[n].leased
  /\ Update(n, [row[n] EXCEPT !.leased = FALSE])
  /\ UNCHANGED << pc, round, picked, jobs, work, refresh >>

\* Killed and started again: the table is all that is left, and start-up
\* (main.rs) does not touch these columns of it: no statement looks for rows
\* that are still TESTING or for a refresh that is still RUNNING.
Crash ==
  /\ Crashes
  /\ pc' = "idle" /\ round' = 0 /\ picked' = {} /\ jobs' = NoJobs
  /\ work' = NoWork
  /\ refresh' = Resting
  /\ UNCHANGED row

SchedulerStep ==
  \/ \E k \in 1..Rounds, S \in SUBSET Nodes : ClaimSelect(k, S)
  \/ \E n \in Nodes : ClaimUpdate(n)
  \/ ClaimDone
  \/ ClaimFails
  \/ \E n \in Nodes, report \in Probes, full \in BOOLEAN :
       TakeReport(n, report, full)
  \/ \E verdict \in Lifecycles \cup {"WAITING_FOR_PORT"} : ApplyEvent(verdict)
  \/ ApplyFails
  \/ \E fails \in BOOLEAN : FinishJob(fails)
  \/ BatchDone

RefreshStep ==
  \/ StartRefresh
  \/ SourceFails
  \/ \E S \in SUBSET Nodes : CopyCached(S) \/ Ingest(S) \/ FinishRefresh(S)
  \/ RefreshFails

OperatorStep ==
  \/ \E n \in Nodes : ReviveNode(n) \/ ManualImport(n)
  \/ ReviveDormant
  \/ \E S \in SUBSET Nodes : Cleanup(S)

Expiry == \E n \in Nodes : TestLeaseExpires(n) \/ PublicationLeaseExpires(n)

Next == SchedulerStep \/ RefreshStep \/ OperatorStep \/ Expiry \/ Crash

Spec == Init /\ [][Next]_vars

\* The scheduler task goes on with the batch it has: nothing in the loop
\* waits for another task, every probe has a deadline, and claim_due makes a
\* bounded number of queries.  Starting a batch is not promised.
BatchFairness ==
  /\ WF_vars(\E n \in Nodes : ClaimUpdate(n))
  /\ WF_vars(ClaimDone)
  /\ WF_vars(\E n \in Nodes, report \in Probes : TakeReport(n, report, FALSE))
  /\ WF_vars(\E verdict \in Lifecycles \cup {"WAITING_FOR_PORT"} :
                ApplyEvent(verdict))
  /\ WF_vars(FinishJob(FALSE))
  /\ WF_vars(BatchDone)

FairSpec == Spec /\ BatchFairness

(***************************************************************************)
(* Properties.                                                             *)
(***************************************************************************)
\* No node is in two unfinished jobs: "a second worker would double the
\* network cost" (Store::schedule_manual_test).
OneJobPerNode == \A n \in Nodes : jobs[n] <= 1

\* The proviso: the operator does not revive a proxy that the batch being
\* claimed already holds.  revive_node asks for DORMANT, PROBATION or
\* CANDIDATE, which such a row is only if it has been retired and found again
\* upstream since; then it clears the lease that keeps the row from being
\* claimed a second time.
RevivesWait ==
  \A n \in Nodes : ReviveNode(n) => ~(pc = "claiming" /\ jobs[n] > 0)

\* What the feed carries is a member of the fleet: the query looks at
\* lifecycle_state alone, and a row under test must not hide a retired or
\* invalid proxy behind TESTING (Store::publication_snapshot, append_claims).
FeedListsMembers ==
  \A n \in Nodes : Published(row[n]) =>
                     Effective(row[n]) \notin {"INVALID", "RETIRED"}

\* A published proxy leaves the feed only when its lease runs out or a test
\* finds its config invalid: not by a demotion, a claim, a refresh, an
\* operator's request or a restart.
FeedKeepsItsPromise ==
  [][\A n \in Nodes : Published(row[n]) /\ ~Published(row[n])' =>
       \/ row'[n] = [row[n] EXCEPT !.leased = FALSE]
       \/ ~row'[n].valid]_vars

\* A proxy once found invalid stays invalid and is out of every queue,
\* whatever refreshes, imports, revivals and restarts follow.
InvalidIsForever ==
  [][\A n \in Nodes : ~row[n].valid => row'[n].state = "INVALID"]_vars

\* A proxy the operator imported is never retired by the absence of its
\* upstream: it has none (Store::finish_refresh).
ManualNeverRetires ==
  [][\A n \in Nodes : row[n].manual /\ Effective(row[n]) # "RETIRED" =>
       Effective(row'[n]) # "RETIRED"]_vars

\* A claimed row is put back: no proxy stays TESTING for ever (docs/TASKs.md:
\* "a worker crash must not lock a node permanently; the lease expires").
TestsEnd ==
  \A n \in Nodes : row[n].state = "TESTING" ~> row[n].state # "TESTING"

\* Stated by Store::mark_waiting_for_port: "Preserve the state from which
\* this node was claimed and retry it shortly".  Only an origin that is a
\* claim queue is ever retried.
WaitingIsRetried ==
  \A n \in Nodes : row[n].state = "WAITING_FOR_PORT" => row[n].waiting \in Queues

\* Stated by Store::ingest_many: "Only a complete upstream reappearance may
\* revive RETIRED".  When a refresh revives a proxy, all its sources answered.
RevivedByCompleteRefresh ==
  [][\A n \in Nodes :
       row[n].state = "RETIRED" /\ row'[n].state = "CANDIDATE" /\ refresh' # refresh
         => ~refresh.failed]_vars

\* Lifecycles move as module Lifecycle says, read through the execution
\* states.
Abstract == INSTANCE Lifecycle WITH
              life <- [n \in Nodes |-> Effective(row[n])]
LifecycleMovesLegally == Abstract!Spec
=============================================================================
