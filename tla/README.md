# proxy-fleet in TLA+

Models, model-checking runs and machine-checked proofs for proxy-fleet, the
service that collects proxy configurations from subscriptions, tests them,
decides which ones are healthy and publishes those that recently proved it.
Paths below are relative to the repository root; `src/src/` is the Rust crate
and `src/src/docs/TASKs.md` the check list it was written from.

## 1. The system

One process, a Tokio runtime and an SQLite database. The tasks below run side by
side and share the database and the fields of `AppState`
(`src/src/src/service.rs`, `src/src/src/app.rs`). SQLite runs one writer at a
time; everything a task reads before it writes may have changed by then.

| Component | State it keeps | Operations | What makes it correct |
|---|---|---|---|
| Health model (`domain/`, `health/`) | none: a pure function of a row and an event | evidence weights, `decide` | demotion takes repeated bad runs; a download is what proves a proxy; an invalid config is final; a lease is never shortened |
| Probe (`probe/`) | DNS cache, the test ports | `test_batch`: checks side by side, one Xray for the group, split when it does not start, deadlines | every claimed proxy is reported; at most one failure per run, and last; a port shortage, a dead endpoint or a neighbour's config says nothing about the proxy |
| Node store (`storage/`) | the `nodes` table and its side tables | one statement or transaction per event | the lifecycle survives the execution states laid over it; the feed lists members only |
| Scheduler (`scheduler/`, `spawn_scheduler`) | the batch in hand | claim by quota and then by what is left, probe, detect incidents, persist, release | one job per proxy; every claimed row is put back; no queue starves |
| Upstream refresh (`upstream/`) | source health and etags, runs, memberships by generation | fetch, copy or ingest, reconcile | only a complete generation counts absences; a cached source loses nobody |
| Operator API (`api/`) | none | revive, import, cleanup, reload, schedule a test | does not break what the tasks rely on |
| Network guard (`spawn_network_guard`) | failure and recovery counters, `network_incident`, `sentinel_ok` | probe the sentinel | an outage of our own network stops testing and ends |
| Adaptive concurrency | stage limits in `AppState` | raise by one, lower by a share | limits stay in their range and follow the strain |
| Xray runtimes and VIP (`xray/`) | map of runtimes, set of starting nodes, the VIP, `nodes.main_port` | ensure, reconcile, shutdown, preflight and switch of the VIP, recovery | the cap holds; a stored port is that of the node's own runtime and leads through no other proxy; no process without an owner; the VIP comes back |
| Publisher (`publisher/`) | a git work tree, the branch it shares with others | clone, fetch, rebase, write, commit, push, retry | every rendering reaches the branch once and in order, or the error is reported |
| Clients (`selection/`, feedback) | circuits and counters per client and node, assignments, reports | select, feedback | no report is lost but to one computed without it; an open circuit is respected |
| Start and migration (`main.rs`, `storage/`) | snapshots, the lock file, two markers | snapshot, acquire or remove the lock, migrate, seed one-time leases | one leader; a snapshot from before; nobody gets a lease twice; the service comes up |
| Parser, configuration, metadata, HTTP pages | none, or one column | | plain functions |
| Python service (`src/submanager/`) | | | retired; it only hands over a database |

How they meet:

* A process starts (`Startup`), ends the Xray processes of its predecessor and
  empties the ports of the rows (`Runtimes`), and then runs the tasks.
* The scheduler claims rows (`claim_due`: eight SELECTs, an UPDATE per row),
  probes them for seconds without holding anything, and then writes one
  transaction per event (`apply_test_event`) and one statement per job
  (`release_test_lease` or `mark_waiting_for_port`). After a download it calls
  `ensure`, which may start a runtime and write the node's port.
* Meanwhile the refresh task marks rows as seen, inserts, revives retired ones
  and retires absent ones; the operator revives, imports and deletes; leases run
  out; the publisher and the client endpoints read; clients report.
* `network_incident` joins the scheduler, the guard, the VIP and the publisher;
  `upstream_refresh_in_progress` joins the refresh timer and the reload request;
  `main_port` joins the runtimes and the selection for clients.
* A restart keeps the database, the work tree of the publisher and, after a kill,
  the Xray processes.

What is hard to get right is listed line by line under `hazards` in
`PROJECT.json`. In short: a row read or selected by one task and written later
by another's decision; the process killed, or a statement failing with a locked
database, between two steps that belong together; a batch of sources, configs or
starts of which some fail; a command that times out and succeeds afterwards;
counters advanced by one run and acted on in another; and states that only one
task can leave.

## 2. The modules

```
Evidence  <-  Health  <-  ProxyHealth  <-  MCProxyHealth
   ^             ^             |   \--  ProxyHealth_proofs
   |             |             +-- Lifecycle (abstract, INSTANCE in the proofs)
   |             +------  NodeStore  <-  Fleet  <-  MCFleet
   |                          ^            |   \--  Fleet_proofs
   |                          |            +-- Lifecycle (abstract, INSTANCE)
   |                          +------  UpstreamRefresh  <-  MCUpstreamRefresh
   |                                       |          \--  UpstreamRefresh_proofs
   |                                       +-- Fleet (abstract, INSTANCE)
   +-----------------------------  Guard  <-  MCGuard
                                       \--  Guard_proofs

Batch, Queues, Runtimes, Clients, Startup, Publisher    each  <-  MC...
Runtimes, Startup                                       each  <-  ..._proofs
Queues, Batch                                           both  <-  Batches_proofs
Clients, Publisher                                      both  <-  Outlets_proofs
```

An arrow reads "is extended by". A module extended together with another has its
standard names prefixed: `QInit`, `QNext`, `QSpec`, `QTypeOK` in `Queues`, `PInit`,
`PNext`, `PSpec`, `PTypeOK` in `Publisher`.

| Module | Models | Correspondence |
|---|---|---|
| `Evidence` | `domain/evidence.rs`, `domain/failure.rs`, and the reports `probe::test_batch` returns | `AlphaDelta`/`BetaDelta` are `evidence::delta` in half points (the smallest weight of the code is 0.5), `ScoreBelow` is `evidence::health` compared without a division, `Reports` the event sequences a run can produce |
| `Health` | `health::decide` | `NextLifecycle` with the cases in the order of the code, `NextStreak`, `NextIndependent`, `NextLease`; `Verdicts` is what `NextLifecycle` can return when evidence is not tracked |
| `ProxyHealth` | one proxy, `Store::apply_test_event` over runs of events, any of which may fail to be written, with decay, incident rewriting, revival, retirement and reappearance | one variable per column; `pending` is the part of the run not applied yet; `badRuns` (bad runs since the last success that was written) and `vouched` (a success of this run was written) are history variables |
| `NodeStore` | every statement of `storage/mod.rs` and `scheduler/mod.rs` that writes the lifecycle columns of a row | one operator on rows per statement: `Eligible`/`Claimable`/`Claim` (`append_claims`), `Applied`, `Released`, `Waiting`, `Ingested`, `Copied`, `Reconciled`, `Revived`, `DormantRevived` |
| `Fleet` | the writers of the table side by side | variables: the table, the scheduler's place in its loop (`pc`, `round`, `picked`, `jobs`, `work`), the refresh's phase; one action per statement or transaction |
| `Lifecycle` | the abstract specification: which moves a lifecycle may make | implemented by `Fleet` through `Effective`, the lifecycle behind TESTING and WAITING_FOR_PORT |
| `UpstreamRefresh` | `upstream::refresh` and the statements of the store it runs, over several sources | what each source lists now is part of the environment; validators, memberships of this and of the newest older generation, the rows and the bodies still in memory are variables; one action per answer, statement or transaction. It implements the refresh of `Fleet` (`FleetView`) |
| `Guard` | `spawn_network_guard`, the loop of `spawn_scheduler`, `correlated_incident` | the guard's two counters, the incident flag and the limits of `RuntimeStatus`, the batch in hand with its reports; what the writes do to the rows is in `Fleet` and `ProxyHealth`, here an event either counts against the proxy or does not |
| `Batch` | `probe::test_batch`, `test_survivor_batch`, `allocate_ports`, `XrayBatchSession` | the recursion is a stack of groups; a port is looked at (`LookAt`) and then reserved (`Reserve`), and another task may be quicker; ports others hold, deadlines that run out from the moment a check begins; a start refuses when the group holds a refused config, or for another reason |
| `Queues` | `QueueQuota::for_capacity`, the two passes of `claim_due` | exact arithmetic of the largest remainders; a queue is the number of its rows that are due; one action per query |
| `Runtimes` | `xray/runtime.rs`, `maintain_vip`, reconciliation at start, `shutdown`, orphans | the processes with their ports beside what the manager and the column say of them; `orphans` are the ports of processes a killed service left behind, `exited` those of sessions whose process has ended by itself; a call of `ensure` is cut at every await: reserve, start, insert, write the column |
| `Publisher` | `publish`, `prepare_repository`, `push_with_rebase_retry` | one action per git command, over the remote branch, the local branch, the work tree; a command may fail, or time out and still take effect later |
| `Clients` | `selection::best`, `selection::feedback` and their statements | a request is what it has read and the transaction it then commits; `seen` and `overtaken` are history: how many reports there were at the reading, and how many reports a later one was computed without |
| `Startup` | `main`, `backup_before_migrate`, `acquire_migration_leader`, `migrate`, `seed_legacy_download_leases` | one place per step of each process, the lock file as free, fresh or old, the rows with what the legacy service says of them |
| `*_proofs` | the theorems of section 5 | |

The last six share no variable with `Fleet`. What they have in common with it is
small and named: `Batch` returns the reports `Fleet` applies, `Queues` says how
many rows of each queue the claims of `Fleet` take, `Runtimes` and `Clients` read
which rows are ACTIVE and leased and take any change of that as given, and
`Startup` ends where `Fleet` begins.

What the abstraction leaves out, and why it may:

* Evidence is tracked in `ProxyHealth` only. `Fleet` lets a test event return any
  lifecycle `Verdicts` allows, a superset of what `decide` returns; `ProxyHealth`
  has no races. A property of both lives in the module where its hazard is.
* `test_lease_until` and `publication_lease_until` are, in `Fleet`, whether they
  are still running; in `ProxyHealth` the publication lease is a number of ticks.
  `claim_due` reads the clock once, so no test lease ends while it runs.
* `next_test_at` is left out: a row is due at any time. A request for a manual
  test only moves that column, so it has no action.
* A statement that fails changes nothing. The scheduler's may fail
  (`LockedWrites`) because its transactions begin deferred and read first: when
  another connection commits in between, SQLite refuses the upgrade at once and
  the busy timeout does not help. A refresh may fail at any statement.
* A retired row is deleted after thirty days, so `Cleanup` never meets a row of
  the batch in hand.
* One refresh runs at a time: timer and reload share a flag. Tests, leases and the
  operator write other columns than the refresh, and are in `Fleet`.
* The 304 of a server is modelled by what it means: the validators kept stand for
  what the source lists now. A body may come without validators, and those of an
  earlier body then stay (`COALESCE`). There is one validator for two headers: of
  both the source goes by the ETag, so a body that only has a `Last-Modified`,
  after one with an ETag, counts as a body without.
* System pressure is its position among the three thresholds the code compares it
  with; latency is whether some event that carries one (`Timed`) was over the
  configured delay.
* `n * 0.7` in doubles, rounded down, is `(7 * n) \div 10` for every `n` below 90.
* Downloads are enabled, the default of the configuration.
* In `Batch` the measurements of a proxy end in one of seven results; `Evidence`
  has their events. Parsing and the DNS answer are part of the check.
* In `Queues` the credits of `QueueDebt` have no variable: they are stored, and
  neither a quota nor a limit reads them. The ORDER BY within a queue is left out.
* In `Runtimes` the best candidate for the VIP is any candidate (score, rank and
  the hysteresis of a switch only choose among them), and `stop` of the manager
  has no caller, so a demoted node keeps its runtime and its slot. An Xray process
  may end by itself at any time (`Exits`), and nobody takes notice. The next start
  after a kill tells the orphans to end and does not wait: any of them may end at
  once, later (`OrphanEnds`) or never. What an orphan on the VIP port does to a
  start there is modelled as the code sees it: the port answers, so the start is
  taken for a success, and the new process ends for want of its port.
* In `Publisher` git is external: a push is a fast-forward or fails; a rebase of
  an unclean tree fails, and one over a change of the same files conflicts.
* In `Clients` any candidate may be chosen: the weighted score is a preference.
  Nothing keeps a client from having several requests under way; `Pipeline` is how
  many.
* In `Startup` a lock only has an age, as in the code: nothing tells whose it is.
  The list of columns and the priors of the evidence are left out.

## 3. The runs

| Run | Question | Bounds |
|---|---|---|
| `health` | Does demotion take as many bad runs as its thresholds say, when does a failed download demote, over every sequence of reports and lost writes? | evidence capped at 10 and 58 half points (the code: 46 and 126): enough to cross 0.15, 0.35 and 0.70 in both directions, also in a run that contains successes; counters capped at 3, the largest value the code compares with; clock ticks of six hours; any write may fail |
| `fleet` | Do the feed and manual imports keep their promises under every interleaving of scheduler, refresh and operator, with failing statements and crashes? | one proxy (no statement reads one row to write another), two absences before retirement, one report of each kind the columns tell apart |
| `fleet_liveness` | Is every claimed row put back, and do the rows implement `Lifecycle`? | as above, no crash, no failing statement (the theorem `FleetImplementsLifecycle` has the crashes) |
| `upstream` | Does a refresh count exactly the absent proxies, import what is listed, retire what is gone, and implement the refresh of `Fleet`? | two sources, one that sends validators with some of its bodies and one that never does; two proxies; bodies empty, with one and with both; one absence before retirement; any statement may fail, the process may be killed at any point |
| `guard` | Does an outage accuse nobody, does a bad server stay accused, does testing stop and resume, do the limits reach both ends? | three proxies, as few as an incident takes, two on one server and one on another; five reports, one of each sort the module tells apart; limits 3..4 and 1..3, which cross the claim size and take two steps of 0.7; thresholds 2 and 1; one restart |
| `publisher` | Do renderings reach the shared branch once and in order, is none thrown away, does the branch carry the leases in the end? | two renderings, so that the feed can change and change back; three events outside the ticks (`Budget`): commits of others, crashes, changes of the leases; a command may fail, time out and arrive late without bound |
| `runtimes` | Does no stored port lead through another proxy, does every Xray process have an owner, does the cap hold, do runtimes and VIP come back? | three nodes and three main ports over a cap of two: one node is always refused; the one caller of `ensure` there is; one stop or kill, after which one orphan may linger (`Linger`); one process that ends by itself (`Losses`), before the stop: every step of a call and of a switch meets each of the two |
| `queues` | Does each queue get its quota or is it emptied, is no slot wasted, is no queue with a quota passed over for ever? | capacities 3 and 6: at 3 one queue has no quota, at 6 all have; two due rows in a queue, as many as the largest quota and more than the smallest |
| `clients` | Which reports are lost, do circuits agree with the reports, is an open circuit respected? | one client, because every statement reads and writes rows of its own client only; two requests of it under way, over two nodes; three reports (a streak of two and what ends or begins it, or two that overtake a third), two unanswered assignments; nodes are interchangeable (symmetry) |
| `batch` | Is every claimed proxy reported, are the ports given back, is nobody blamed for another's config, does the batch end? | three jobs, one with a refused config: the smallest group that splits unevenly and splits again; three ports, any of which somebody else may take; one start that fails for another reason |
| `startup` | Is there a snapshot from before the migration, one leader, no lease given twice, and do both processes come up? | two processes, one row (no statement reads one row to write another), three times a process is killed or a step fails |
| `crash_strands` | A disagreement between code and docs: a row claimed by a killed process stays TESTING | the smallest instance that shows it |

`missing` is capped at `RetireAfter` and `jobs` is bounded by the number of
rounds of `claim_due`. Only `health` turns deadlock checking off: an INVALID proxy
with no lease and no evidence left has no step to make.

More configurations are kept to be run by hand, `tlc -config X.cfg <module>`. One
passes; each of the others shows, in the smallest instance, a disagreement of
section 4 as a counterexample of the property named.

| Configuration | Module | What TLC says |
|---|---|---|
| `OneJob` | `MCFleet` | `OneJobPerNode` holds: two interchangeable proxies, single-event reports, and the operator does not revive a row of the batch being claimed |
| `ActiveWithoutDownload` | `MCProxyHealth` | `ActiveHasDownloaded` violated |
| `LostOrigin`, `PartialRevival` | `MCFleet` | `WaitingIsRetried`, `RevivedByCompleteRefresh` violated |
| `LostBody` | `MCUpstreamRefresh` | `CachedSourceIsKept` violated |
| `GuardDisabled` | `MCGuard` | `IncidentEnds` violated |
| `PublisherStuck` | `MCPublisher` | `ConcurrentCommitsMerge` violated |
| `CapOvershot` | `MCRuntimes` | `CapHolds` violated with two callers of `ensure` |
| `QueueStarved` | `MCQueues` | `NoQueueStarves` violated at the default capacity of 4 |
| `VipLost` | `MCRuntimes` | `VipReturns` violated |
| `LostReport` | `MCClients` | `TablesAgree` violated with two requests of a client at once |
| `LateStart` | `MCBatch` | `TriedBeforeBlamed` violated |
| `TwoLeaders`, `LostStates` | `MCStartup` | `NeverTwoLeaders`, `StatesAreKept` violated |

Fairness. `Fleet`: weak fairness of the steps that carry a batch to its end: the
scheduler loop waits for no other task, every probe has a deadline, and a batch
is finite. It does not assume that a batch is ever started, that leases run out,
or anything of the refresh and the operator. `UpstreamRefresh`: the timer starts
refreshes again and again and a refresh goes on (weak fairness); strong fairness
of each source's answer says that no source is down for ever, and of
`Reconcile(Proxies)` that rows grow older than twelve hours (its limit on the age
of an absence). Subscriptions may change for ever. `Guard`: the timers of guard
and scheduler fire, probes have deadlines, statements return, and rows become due
again and again (strong fairness of a non-empty claim, because a tick may also
find nothing due); nothing is assumed of the network and of the pressure except
in the premise of a property. `Publisher`: a tick once begun goes on (weak; every
command has a time limit), the timer fires, and a command tried for ever succeeds
for ever (strong fairness of each command that may fail). `Runtimes`: the process
is started again and its calls go on (weak; a start has a deadline); strong
fairness of a start, of a call for a node that is ACTIVE, of a tick while there is
no VIP and of preflight and switch: nodes are downloaded through again and again,
and a start tried for ever succeeds for ever; nothing is assumed of orphans, which
may stay, and of processes that end by themselves. `Queues`: the timer ticks, and again
and again a claim succeeds and its batch ends; nothing of the rows. `Batch`: only
the probe's own steps, all of which have limits. `Startup`: the container starts a
process that has ended, no step waits for ever, and a file grows old. `Clients`
has only safety and assumes none.

## 4. What the runs show

That hold.

Health and lifecycle: two counters (`failure_streak`, `independent_failure_count`)
cleared and advanced by different events agree with the history of runs on every
path that demotes, and writes that fail do not change that: a success that was not
written clears neither, and the history does not count it either. A failed download
never demotes as long as one success of its run was written; when all of them were
lost (`app.rs:431` goes on after a failed write), it counts like any other failure.
What the feed carries is never retired or invalid behind an execution state; a
published proxy leaves the feed only when its lease ends or its config is found
invalid, by no claim, crash, refresh or request; a manual import is never retired,
even when a report arrives after the row has been deleted or imported again; without
crashes and failing statements every claimed row is put back.

Refresh: the code relies on the validators of a source standing for its newest
membership (`InStep`) and breaks that at three places only, which
`ValidatorsKeepStep` pins down: a refresh given up between a body and its
ingestion, a subscription that lists nothing, and a body without validators, which
leaves those of an earlier one beside its own members. While it holds, a complete
refresh counts exactly the proxies no source listed, partial refreshes and 304s
notwithstanding; what is listed for good is known and counted present in the end,
and a member again if bodies go on listing it (a 304 does not bring a retired proxy
back); what is gone is retired.

Guard: when nothing of a batch of three works and two servers are concerned, no
failure of it is held against a proxy; failures of a single server are written as
they are; an outage for good ends testing after the batch in hand and a network
that is back lets it go on, whoever declared the incident; the limits come down to
their minimum under lasting pressure and up to their maximum in lasting calm, from
wherever they are.

Queues: each queue is given its quota or emptied, what is left over goes to others
only after that, and no slot stays empty while a row is due; a queue that has a
quota is served again and again whatever the others do.

Batch: splits lose nobody. A refused config is found out by halving; a proxy whose
config is accepted is held to account for a start only when it was alone in the
group, so at most one for each start that failed for another reason. Ports taken
by others between the look and the reservation are left to them, and deadlines and
aborts change none of it; the batch ends.

Runtimes: a column is written after the runtime is in the map and emptied before
the next process serves, so a stored port is that of the node's own runtime. That
runtime runs unless its process has ended by itself, which nobody notices; even then
the port stays reserved with its session, so it leads nowhere and not through
another proxy or an orphan. A redundant session, a failed start, an aborted task and
a failed switch leave no process behind; what a kill leaves behind the next start
tells to end, and as long as it lingers its port is passed over. The cap holds for
the processes of the service; orphans come on top. The VIP, which is down during a
switch, is taken up again by recovery or by a later tick, but not when its own
process ends (`VipReturns` below).

Publisher: a rendering that is committed survives failed rebases, rejected pushes
and crashes; a push that timed out and arrives later does no harm; a tick that ends
well has its rendering on the branch as the last word of ours. The branch carries
the leases in the end unless the work tree is stuck, and `Stuck` names the three
ways of that: half a clone, files written and not committed, a conflict. None of
the three ever ends (`StuckForGood`, section 5).

Clients: a report is lost in one way only, to a later one of the same client on the
same node that had read the row before. As long as that has not happened to a row,
its counters are the counts of its reports and its streaks those since the last
success; after that the counters miss no more than the reports overtaken. A
circuit is always open exactly when the last report committed was no success. A
node behind an open circuit is handed out in one case: the report that opened it was
committed while the request was choosing.

Start: wherever processes are killed, a snapshot is taken before the migration;
there is one leader as long as no lock is left behind; a lease that is over is not
given again by a start, although two processes may both find the marker of the
one-time leases missing, because the UPDATE only takes rows that never had one;
both processes come up, past a lock left behind.

That do not. The finding in `PROJECT.json` is the run `crash_strands`: a row
claimed by a killed process stays TESTING for ever; the claim queries never look at
TESTING rows, whatever their lease, although `TASKs.md:586` says that the lease
expires. Theorem `StrandedForGood` says it for every fleet: only a retirement takes
such a row out of TESTING, and a manual import is never retired. The others, shown by the configurations run by hand (paths below
`src/src/src/`, and `TASKs.md` in `src/src/docs/`):

| Property | The code | What is said of it |
|---|---|---|
| `ActiveHasDownloaded` | `health/mod.rs:85`: PROBATION becomes ACTIVE on relay and HTTP successes alone. A revival is the only way to get there without a download (theorem `DownloadsProve`) | `src/README.md:59`: a download is what proves a proxy |
| `WaitingIsRetried` | `storage/mod.rs:1019`: `mark_waiting_for_port` runs after `apply_test_event` has cleared the origin, saves RETIRED as the state to come back to, and no queue looks for that | its comment, `storage/mod.rs:1011` |
| `RevivedByCompleteRefresh` | `upstream/mod.rs:132`: a refresh with a failed source revives retired proxies | `storage/mod.rs:887` |
| `CachedSourceIsKept` | `upstream/mod.rs:96`: the validators of a body are saved before its proxies. When the refresh is then given up, the next one is told 304, carries an older membership over, and counts proxies absent that the source does list; a 304 never revives. A body without validators leads there too, without any failure (`storage/mod.rs:965`) | `storage/mod.rs:971` |
| `IncidentEnds` | `app.rs:169`: the scheduler sets `network_incident` also when the network guard is disabled, and then nobody clears it | `TASKs.md:662` |
| `ConcurrentCommitsMerge` | `publisher/mod.rs:118`: a commit of others that touches the same files makes every rebase conflict, in this tick and in all later ones | `publisher/mod.rs:116`: fetch and rebase once, then retry the exact HEAD |
| `VipReturns` | `xray/runtime.rs:161`: when the process of the VIP ends, the manager still has its node, and while that is the best candidate no tick looks further; nothing listens on the VIP port | `TASKs.md:701`: the VIP port is kept up |
| `CapHolds`, two callers | `xray/runtime.rs:83`: the reservation is dropped before the runtime is in the map, and in between neither counts. The code has one caller, so the cap holds today; with more it is exceeded by less than their number (theorem `OvershootBounded`) | `runtime.rs:34`: "concurrent requests cannot overshoot"; `TASKs.md:872` |
| `NoQueueStarves` | `scheduler/mod.rs:239`: at the default capacity of 4 the quota of ACTIVE is 0, and its share of the overflow comes after the others; the debt that would make it up is not read | `scheduler/mod.rs:48`, `TASKs.md:555` |
| `TablesAgree`, two requests | `storage/mod.rs:1401`: the row is read outside the transaction that writes it back; two reports of a client at once count as one. That is all that is ever lost (theorem `ReportsCount`), and none counts twice (`NothingIsInvented`) | `TASKs.md:695`: feedback of each kind is kept |
| `TriedBeforeBlamed` | `probe/mod.rs:122`: the deadline of a proxy is set when its check begins, and spent while others are checked and tested, so a proxy no request was sent through is reported for a timeout | `probe/mod.rs:416`: it is reported as RELAY_TIMEOUT, a failure of the proxy |
| `NeverTwoLeaders` | `storage/mod.rs:214`: two processes judge a lock left behind stale, and one removes the lock the other has just taken | `TASKs.md:889`: "only one leader" |
| `StatesAreKept` | `storage/mod.rs:403` and the column's default (`:1591`): a row that was ACTIVE is a CANDIDATE after the migration, because the mapping looks for rows without a state and the default has given them one | `TASKs.md:466`: mapped directly |

Disagreements that showed up while modelling and are visible in the modules, but
have no run:

| Where | The code | What is said of it |
|---|---|---|
| `src/src/src/health/mod.rs:81` | an event rewritten by an incident can still carry out a demotion that earlier runs had made due | `scheduler/mod.rs:101`: an incident "must not demote the fleet" |
| `src/src/src/scheduler/mod.rs:453` | the UPDATE of a claim rechecks the test lease and not the lifecycle, so a row retired since the SELECT is tested | `TASKs.md:585`: jobs are chosen by an atomic claim |
| `src/src/src/storage/mod.rs:939` | an ACTIVE proxy whose lease is over is retired | `src/README.md:55`: "ACTIVE nodes [...] are protected" |
| `src/src/src/storage/mod.rs:980` | a subscription that listed nothing has no generation, so the 304 after it carries over the members from before; they are never counted absent | `src/README.md:55`: "absent from two complete refreshes is removed" |
| `src/src/src/app.rs:422` | a batch claimed before the guard declares an incident writes its conclusive failures during the incident | `TASKs.md:661`: results become inconclusive |
| `src/src/src/scheduler/mod.rs:153` | failures of one source on two servers are taken for an incident | `scheduler/mod.rs:99`: a single bad source remains ordinary evidence |
| `src/src/src/scheduler/mod.rs:116` | reports of a failing test endpoint are not counted as failed, so no cluster of them is detected | `TASKs.md:660` |
| `src/src/src/app.rs:501` | a window raises the limits only when every job of it completed a download, which a job without a due download cannot | `TASKs.md:649`: every stable window raises by one |
| `src/src/src/storage/mod.rs:1401` | a circuit is CLOSED or OPEN; nothing is ever HALF_OPEN | `TASKs.md:694` |
| `src/src/src/selection/mod.rs:22` | whether a candidate is still one is not looked at again when the assignment is recorded (`OpenIsRespected` says what that comes to for circuits), and a runtime whose process has ended keeps its port | `TASKs.md:690` |
| `src/src/src/xray/runtime.rs:181` | a VIP switch stops the healthy process before the new one starts on the port | `TASKs.md:705` |

## 5. What is proved

For every value of the constants, under the assumption named at each module. In
the tables "the run's" marks a theorem whose property a run of section 3 checks on
a small instance.

`Fleet_proofs`: any set of proxies, any reports, any `RetireAfter`, with or without
crashes and failing statements (`FleetConstants`, `RetireAfterAssumption`).

| Theorem | States |
|---|---|
| `Invariant`, `TypeCorrect` | `Spec => []IInv`, `Spec => []TypeOK` (the run's) |
| `FeedSound` | `Spec => []FeedListsMembers` (the run's) |
| `FeedPromise` | `Spec => FeedKeepsItsPromise` (the run's) |
| `InvalidStays` | `Spec => InvalidIsForever` |
| `ManualStays` | `Spec => ManualNeverRetires` (the run's) |
| `StrandedForGood` | a row under test that no job is about stays so unless it is retired; only a kill or a failing statement leaves one |
| `TestsHaveJobs` | without those every row under test has an unfinished job |
| `OneJob` | `OneJobPerNode` under the proviso `RevivesWait` |
| `FleetImplementsLifecycle` | the refinement of `Lifecycle`, when the scheduler's own statements do not fail (the run's) |

The argument. The type invariant is not inductive: nothing in it keeps a TESTING
row from having no origin, and then `apply_test_event` has no lifecycle to start
from. `Sound` adds, for each row, that it is invalid exactly when its state says
so, that TESTING always keeps an origin which is a queue or RETIRED (a row
retired between SELECT and UPDATE), and that a manual row never counts an
absence. `Orderly` adds what relates the rows to the scheduler: what a round has
picked was eligible and is still a row, and jobs are about existing rows. One
lemma per statement shows that it keeps a row sound; `Touched` and `Scheduled`
name what the other writers and the scheduler may do to one row, so that each
action property is proved from those two and not from all of `Next`. `FeedSound`
needs more (`Unhidden`): a retired row holds a lease only if the report in hand
gave it one after the row was retired, and then nothing is left to hide it behind
TESTING or WAITING_FOR_PORT; that rests in turn on a report of a port shortage
earning no lease. `StrandedForGood` reads the statements from both ends: what a
query picks is never TESTING, a report is only applied while its job lives, and
`Released` and `Waiting` take a sound row out of TESTING, so a job that is ended
as it should be strands nobody. `OneJob` needs that a row of the batch being
claimed keeps its test lease (`Guarded`). The refinement adds `Placed`: a report
once applied has taken its row out of TESTING. A failing statement breaks that (the
row would then wait for a port with TESTING as its origin), which is why the
theorem assumes that the scheduler's own statements succeed.

`ProxyHealth_proofs`: any caps of the evidence, any cap of the counters from
three on, any residence and any length of a tick (`HealthConstants`).

| Theorem | States |
|---|---|
| `TypeCorrect` | `Spec => []TypeOK` (the run's) |
| `HysteresisSound` | `Spec => HysteresisOnDemotion` (the run's) |
| `DownloadsSound` | `Spec => DownloadFailuresNeverDemote` (the run's) |
| `DecisionIsAVerdict` | whatever the evidence is, `NextLifecycle` returns one of `Verdicts`: what `Fleet` allows a test to do is all it can do |
| `LifecycleRespected` | every step of one proxy is a move of `Lifecycle` |
| `DownloadsProve` | without revivals `ActiveHasDownloaded` holds |

The argument. The evidence turns out not to be needed: a demotion out of ACTIVE or
PROBATION asks for a counter as well as for a score. `Tally` says that each of the
two counters, with what the failure still to come in the run will add to it
(`Behind`), is at most the number of bad runs: that number is advanced when a run
begins, the counters when its failure is applied, if it is. It is inductive because a
failure is the last event of a run (`FailureComesLast`), and a success that is
written clears the counters and the history alike, down to the failure still to
come; one that is not written leaves them all alone. For the same reason both
counters are zero while a run has events left and one success of it was written
(`VouchedIsClear`).
`DownloadsProve` goes by the lifecycles a proxy reaches only after a download
(`Proven`): ACTIVE, PROBATION and DORMANT.

`UpstreamRefresh_proofs`: any sources, with or without validators, any bodies and
proxies (`UpstreamConstants`, `RetireAfterAssumption`).

| Theorem | States |
|---|---|
| `TypeCorrect` | `Spec => []TypeOK` (the run's) |
| `AbsencesSound` | `Spec => AbsencesAreExact` (the run's) |
| `ValidatorsSound` | `Spec => ValidatorsKeepStep` (the run's) |
| `RefreshImplementsFleet` | `Spec => RefreshOfTheFleet`: every step of the refresh is a step of `Fleet` or stutters (the run's) |

The argument. `Typed` adds to the types that no row of this module is manual.
`Sorted` says of each source how it stands in the refresh: silent, answered by a
body whose members are those in memory or already written, or answered by a 304,
and then its validators and its earlier membership are what counts. `Marked` says
that a row is marked as seen only if some source's generation has it, and is if
one does and the row exists. An absence is counted exactly for the rows not
marked; under `InStep` the membership carried over by a 304 is the body the
validators stand for, which is what the source lists. `InStep` is lost by an
answer only if that lists nothing or leaves foreign validators in place; ingesting,
recording and reconciling keep it. For the refinement each
statement is one of `Fleet`'s refresh with the scheduler standing still.

`Guard_proofs`: any finite set of proxies of any origins, any reports a probe can
return, any thresholds, mass-failure percentage and ranges of the limits
(`GuardConstants`).

| Theorem | States |
|---|---|
| `Invariant`, `TypeCorrect` | `Spec => []Inv`, `Spec => []TypeOK` (the run's) |
| `OutageSound`, `BadServerSound`, `BlameFair` | `OutageAccusesNobody`, `BadServerIsBlamed`, and the two as `BlameIsFair` (the run's) |
| `CutFalls` | a limit that is lowered falls or is at its minimum |

The argument. `Placed` adds to the types what belongs to which place of the
scheduler; `Judged` says that during the writes the verdict `mass` is the one
`correlated_incident` gives of these very reports, and that a written proxy is
blamed exactly when its report says so under that verdict. `FailedReport` is the
lemma both theorems turn on: a report is counted as failed exactly when all its
events are the fault of the proxy, because a run has at most one failure and it
comes last. The rest is counting: two servers make two values of a dimension, one
origin makes one value of each; and all of a batch is at least any percentage of
it. `CutFalls` is what the falling half of `LimitsFollowStrain` rests on, for
every range.

`Runtimes_proofs`: any nodes, ports and cap, any number of stops and kills
(`RuntimesConstants`).

| Theorem | States |
|---|---|
| `TypeCorrect` | `Spec => []TypeOK` (the run's) |
| `AccountsSound` | `Spec => []ProcessesAreAccounted`, for any number of callers (the run's) |
| `OvershootBounded` | the main ports have at most `Cap + k - 1` processes when `k` callers ask at once |
| `CapSound` | `Spec => []CapHolds` when there is one caller (the run's) |

The argument. A call and a switch know something at each of their steps
(`CallsInProgress`, `SwapsInProgress`), which makes the types inductive. `Ledger`
is the accounts: every process is held by the map, a call or the VIP; what they
hold is running or has ended by itself (`Live`); the port of a session in hand is
nobody else's (`Distinct`), so stopping a redundant session stops no other and
nothing else comes to listen on the port of one that has ended; no orphan is on the
port of a session of the map or of a call (`Apart`), because a port is only taken
when nothing listens on it; a column is only ever the port the map has, also while
it is about to be written (`Columns`). `Switching` says that there is no VIP between
preflight and start. The cap
needs `Room`: the runtimes in the map and the calls between their reservation and
their insertion (`UnderWay`) together are at most the cap and the other callers. A
reservation has seen fewer runtimes than the cap, whatever the others are doing;
an insertion turns a call under way into a runtime. For one caller that is the cap;
for two `CapOvershot.cfg` shows that the bound is reached.

`Batches_proofs`, the batch: any finite batch, refused configs, ports and number of
other failures (`BatchConstants`).

| Theorem | States |
|---|---|
| `TypeCorrect` | `Spec => []TypeOK` (the run's) |
| `SplitsSound` | `Spec => []SplitsAreHarmless` (the run's) |
| `BatchesAreFinite` | while a batch runs, every step of the probe lowers `Remaining`, a number in `1..Most`, and no other step raises it |

The argument. `Accounted`: while groups are tested, each job has its report or is
in a group still to come. A group that does not start and has more than one member
is replaced by two that make it up; one of a single member is reported. So those
blamed for a start although their config is accepted are at most as many as the
starts that failed for another reason. `Remaining` is what is left to do at most:
the groups to come are disjoint and not empty (`Stacked`), a group of `k` proxies
is the root of at most `2k - 1` trials (`Trials`), and a trial takes fewer than
`Cost` steps: at most two for each port, a start, and two for each proxy. This is
the safety half of `BatchEnds`; what fairness adds is that the next step is taken.

`Batches_proofs`, the queues: any capacities and any number of due rows
(`QueuesConstants`).

| Theorem | States |
|---|---|
| `QueuesTypeCorrect` | `QSpec => []QTypeOK`: also that no batch is larger than its capacity (the run's) |
| `QuotasAddUp` | for every capacity the quotas are natural numbers that add up to it |
| `SixSuffice` | from six on every queue has a quota |
| `SharesSound` | `QSpec => []CapacityIsShared` (the run's) |

The argument. A capacity is ten times something and a rest; the four shares are
exact on the tens, and the ten rests are computed one by one. In the first pass a
query finds its whole quota free, because those before it took no more than theirs
(`FirstPass`); in the second a query ends with its queue empty or the batch full
(`SecondPass`).

`Outlets_proofs`, the clients: any clients, nodes and number of reports
(`ClientsConstants`).

| Theorem | States |
|---|---|
| `TypeCorrect` | `Spec => []TypeOK` (the run's) |
| `ReportsCount` | `Spec => []ReportsAreCounted` (the run's) |
| `CircuitsHold` | `Spec => OpenIsRespected` (the run's) |
| `NothingIsInvented` | no counter and no streak exceeds the reports, and a circuit is that of the last one |

All three for any number of requests a client has under way.

The argument. A request that has seen as many reports on its row as there are has
read what the row says and its node's circuit as it is; one that has seen fewer
has read a row that counted at least those it has seen, less the overtaken ones
(`Holds`, `Current`). Either way its commit adds one report, and to the overtaken
those committed since it read (`Tallied`). The rest is what a report adds to the
counts over a sequence of reports, for each of the three. What a request has read
never says more than the reports do, whose number only grows (`AllWithin`). A
selection chose a node whose circuit was not open then, and a circuit opens by a
report only: that gives `CircuitsHold`.

`Outlets_proofs`, the publisher: any renderings, any number of commits, crashes and
late pushes (`PublisherConstants`).

| Theorem | States |
|---|---|
| `PublisherTypeCorrect` | `PSpec => []PTypeOK` (the run's) |
| `OrderSound` | `PSpec => []PublishedInOrder` (the run's) |
| `RenderingsSound` | `PSpec => RenderingsArePublished` (the run's) |
| `StuckForGood` | the three ways of being stuck, which `FeedArrives` excepts, never end, and nothing of ours reaches the branch any more but a push already under way |

The argument. `PInv` relates the three branches. `OriginIsBehind`: the fetched
branch is a prefix of the remote. `HeadIsOurs`: what HEAD has beyond it is
rendered by us. `RemoteIsShared`: the remote has nothing of ours beyond what it
shares with HEAD, so our commits on it are a prefix of those on HEAD. The hard
step is a push that timed out, of a HEAD that has since been rebased: either the
remote is no longer a prefix of it and refuses it, or HEAD still begins with it
(`LateIsHarmless`). `Rendered` follows the work tree through a tick. A rebase keeps
our commits in order and adds none (`RebaseKeepsOurs`), drops what the remote
already has, and leaves the tree that was rendered (`RebaseIsCoherent`). These
lemmas speak of sequences of any length. The induction they take cannot come from
the library, whose rules have an operator as a parameter; it is derived in
`Counting`, for sets of numbers, from the pigeonhole principle. For `StuckForGood`
a conflict is put down to one position (`Part`): the first where HEAD and the remote
differ, which no later commit of others moves.

`Startup_proofs`: any finite number of processes, rows and mishaps
(`StartupConstants`).

| Theorem | States |
|---|---|
| `TypeCorrect` | `Spec => []TypeOK` (the run's) |
| `OverStaysOver` | `Spec => OverIsOver` (the run's) |
| `SnapshotSound` | `Spec => []SnapshotIsLegacy` (the run's) |
| `LeaderSound` | `Spec => []OneLeader` when no migration takes fifteen minutes, `~Slow` (the run's) |

The argument. `SavedFirst`: a process that has come as far as the lock has seen to
a snapshot or found the marker, which was set after one. `LockIsHeld`: as long as
no lock is left behind the file is there while somebody leads and only then, and
is never old; so nobody finds it to be stale. A process that migrates for longer
than a lock takes to be stale loses it, hence the assumption.

Only model-checked: the liveness properties, `TestsEnd`, `FleetFollowsSources`,
`TestingFollowsNetwork`, `LimitsFollowStrain`, `FeedArrives`, `ProxiesReturn`,
`QueueIsServed`, `BatchEnds` and `ServiceComesUp`: liveness under fairness, and
ENABLED, are beyond the prover. Every invariant and every action property of the
passing runs has its theorem. `BatchesAreFinite`, `CutFalls`, `TestsHaveJobs`
and `StuckForGood` are what can be proved of four of the liveness properties: that
each step brings the end nearer, that somebody is left to take it, and that what is
excepted has no end.

## 6. What is not modelled, and the plan

Done: the modules of section 2; the theorems of section 5. Open:

1. Measures like that of `BatchesAreFinite` for a batch of `Fleet` without crashes
   and for a start (`Startup`).
2. A composition of `Fleet` with `Runtimes` and `Clients` over one set of rows; so
   far each takes the changes of the others as given.

Left out of the modelled parts: when a test is next due and the backoff behind it;
how a report is measured (DNS cache, quorum, bytes and times); the score that
orders candidates; reads for the API; the pruning of events; the failure streak and
the rejected lines of a source, which nothing reads back.

Not planned: the share-link parser, configuration and HTML pages (plain
functions that unit tests reach), exit metadata (one column, no effect on any
other), the column list of the migration, and the retired Python service.
