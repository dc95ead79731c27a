------------------------------ MODULE Startup -------------------------------
(***************************************************************************)
(* The start of one or more processes on a database that the Python        *)
(* service left behind: snapshot, migration under the lock file, one-time  *)
(* leases (main, Store::backup_before_migrate, migrate,                    *)
(* acquire_migration_leader, seed_legacy_download_leases).  A migration    *)
(* and a seeding are one transaction each; between any two steps a process *)
(* may be killed, and the container starts it again.                       *)
(*                                                                         *)
(* The lock is a file, which does not tell whose it is, only how old.      *)
(***************************************************************************)
EXTENDS Integers, FiniteSets

CONSTANTS
  Instances,       \* processes started on the database
  Nodes,           \* rows of the legacy database
  Mishaps,         \* bound: processes killed or stopped, and steps that fail
  Slow             \* whether a migration may outlast the fifteen minutes

ASSUME StartupConstants ==
  IsFiniteSet(Instances) /\ IsFiniteSet(Nodes) /\ Mishaps \in Nat /\ Slow \in BOOLEAN

VARIABLES
  pc,              \* by instance, how far it has come
  lock,            \* the lock file
  schema,          \* whether the database has the marker of the migration
  node,            \* the rows
  seeded,          \* the marker of the one-time leases
  backups,         \* of which schema the snapshots taken are
  left,            \* whether a lock has been left behind (history)
  mishaps          \* how many of them there have been

vars == << pc, lock, schema, node, seeded, backups, left, mishaps >>

Legacy == {"CANDIDATE", "TESTING", "ACTIVE", "PROBATION", "DEAD", "REMOVED"}
States == {"CANDIDATE", "TESTING", "ACTIVE", "PROBATION", "DORMANT", "RETIRED"}

\* What the row says of a download by the Python service: none, one that was
\* measured, one of the last twenty-four hours.
Downloads == {"none", "old", "recent"}

Rows == [status: Legacy \cup States, state: States \cup {"absent"},
         lease: {"none", "running", "over"}, download: Downloads]

TypeOK ==
  /\ pc \in [Instances -> {"down", "check", "snapshot", "wait", "remove", "lead",
                           "unlock", "marker", "seed", "ready"}]
  /\ lock \in {"free", "fresh", "old"}
  /\ schema \in {"legacy", "rust"} /\ backups \subseteq {"legacy", "rust"}
  /\ node \in [Nodes -> Rows]
  /\ schema = "rust" => \A n \in Nodes : node[n].state # "absent" /\ node[n].status \in States
  /\ seeded \in BOOLEAN /\ left \in BOOLEAN
  /\ mishaps \in 0..Mishaps

Init ==
  /\ pc = [i \in Instances |-> "down"]
  /\ lock = "free" /\ schema = "legacy" /\ seeded = FALSE
  /\ node \in [Nodes -> [status: Legacy, state: {"absent"}, lease: {"none"},
                         download: Downloads]]
  /\ backups = {} /\ left = FALSE /\ mishaps = 0

At(i, here, next) == pc[i] = here /\ pc' = [pc EXCEPT ![i] = next]

\* One more thing goes wrong.
Mishap == mishaps < Mishaps /\ mishaps' = mishaps + 1

\* main returns the error, and the process ends.
Ends(i, here) == At(i, here, "down")

Start(i) ==
  /\ At(i, "down", "check")
  /\ UNCHANGED << lock, schema, node, seeded, backups, left, mishaps >>

(***************************************************************************)
(* backup_before_migrate: the marker is read, then VACUUM INTO takes what  *)
(* the database holds by then.                                             *)
(***************************************************************************)
CheckMarker(i) ==
  /\ At(i, "check", IF schema = "rust" THEN "wait" ELSE "snapshot")
  /\ UNCHANGED << lock, schema, node, seeded, backups, left, mishaps >>

Snapshot(i) ==
  /\ At(i, "snapshot", "wait")
  /\ backups' = backups \cup {schema}
  /\ UNCHANGED << lock, schema, node, seeded, left, mishaps >>

\* Mutant of SnapshotFails: the error is passed over.
SnapshotFailsUnseen(i) ==
  /\ Mishap
  /\ At(i, "snapshot", "wait")
  /\ UNCHANGED << lock, schema, node, seeded, backups, left >>

SnapshotFails(i) ==
  /\ Mishap
  /\ Ends(i, "snapshot")
  /\ UNCHANGED << lock, schema, node, seeded, backups, left >>

(***************************************************************************)
(* acquire_migration_leader.                                               *)
(***************************************************************************)
Acquire(i) ==
  /\ lock = "free" /\ lock' = "fresh"
  /\ At(i, "wait", "lead")
  /\ UNCHANGED << schema, node, seeded, backups, left, mishaps >>

\* The file is there but cannot be written: no guard will remove it.
AcquireFails(i) ==
  /\ Mishap
  /\ lock = "free" /\ lock' = "fresh"
  /\ Ends(i, "wait")
  /\ left' = TRUE
  /\ UNCHANGED << schema, node, seeded, backups >>

\* Mutant of Stale: no file is ever found to be too old.
StaleNever == FALSE

\* Older than fifteen minutes.
Stale == lock = "old"

FindsStale(i) ==
  /\ Stale
  /\ At(i, "wait", "remove")
  /\ UNCHANGED << lock, schema, node, seeded, backups, left, mishaps >>

\* Whichever file is there by now.
RemoveStale(i) ==
  /\ At(i, "remove", "wait")
  /\ lock' = "free"
  /\ UNCHANGED << schema, node, seeded, backups, left, mishaps >>

\* Mutant of GiveUp: the guard is made before the file, and removes it.
GiveUpAndRemove(i) ==
  /\ lock # "free" /\ ~Stale /\ lock' = "free"
  /\ Ends(i, "wait")
  /\ UNCHANGED << schema, node, seeded, backups, left, mishaps >>

\* After ninety seconds.
GiveUp(i) ==
  /\ lock # "free" /\ ~Stale
  /\ Ends(i, "wait")
  /\ UNCHANGED << lock, schema, node, seeded, backups, left, mishaps >>

LockAges ==
  /\ lock = "fresh" /\ lock' = "old"
  /\ Slow \/ \A i \in Instances : pc[i] \notin {"lead", "unlock"}
  /\ UNCHANGED << pc, schema, node, seeded, backups, left, mishaps >>

(***************************************************************************)
(* migrate.                                                                *)
(***************************************************************************)
\* The lifecycle column is added with its default.
WithColumns(row) ==
  [row EXCEPT !.state = IF row.state = "absent" THEN "CANDIDATE" ELSE row.state]

\* Mutant of Mapped: the status does not follow.
MappedInPart(row) ==
  [row EXCEPT !.state = CASE row.status = "DEAD" -> "DORMANT"
                          [] row.status = "REMOVED" -> "RETIRED"
                          [] OTHER -> row.state]

\* DEAD and REMOVED are taken over, and the status follows.
Mapped(row) ==
  LET moved == CASE row.status = "DEAD" -> "DORMANT"
                 [] row.status = "REMOVED" -> "RETIRED"
                 [] OTHER -> row.state
  IN [row EXCEPT !.state = moved,
                 !.status = IF row.status \in {"DEAD", "REMOVED"} THEN moved ELSE row.status]

\* Six hours for an ACTIVE proxy that has never had a lease.
Protected(row) ==
  [row EXCEPT !.lease = IF /\ row.state = "ACTIVE" /\ row.lease = "none"
                           /\ row.download = "recent"
                        THEN "running" ELSE row.lease]

Migrate(i) ==
  /\ At(i, "lead", "unlock")
  /\ schema' = "rust"
  /\ node' = [n \in Nodes |-> Protected(Mapped(WithColumns(node[n])))]
  /\ UNCHANGED << lock, seeded, backups, left, mishaps >>

MigrateFails(i) ==
  /\ Mishap
  /\ Ends(i, "lead")
  /\ lock' = "free"
  /\ UNCHANGED << schema, node, seeded, backups, left >>

\* The guard is dropped; it removes the file of its name.
Unlock(i) ==
  /\ At(i, "unlock", "marker")
  /\ lock' = "free"
  /\ UNCHANGED << schema, node, seeded, backups, left, mishaps >>

(***************************************************************************)
(* seed_legacy_download_leases: the marker is read outside the transaction *)
(* that sets it.                                                           *)
(***************************************************************************)
ReadSeedMarker(i) ==
  /\ At(i, "marker", IF seeded THEN "ready" ELSE "seed")
  /\ UNCHANGED << lock, schema, node, seeded, backups, left, mishaps >>

\* Mutant of Seeded: it relies on the marker.
SeededAnyhow(row) ==
  [row EXCEPT !.lease = IF row.state = "ACTIVE" /\ row.download # "none"
                        THEN "running" ELSE row.lease]

Seeded(row) ==
  [row EXCEPT !.lease = IF /\ row.state = "ACTIVE" /\ row.lease = "none"
                           /\ row.download # "none"
                        THEN "running" ELSE row.lease]

Seed(i) ==
  /\ At(i, "seed", "ready")
  /\ seeded' = TRUE
  /\ node' = [n \in Nodes |-> Seeded(node[n])]
  /\ UNCHANGED << lock, schema, backups, left, mishaps >>

SeedFails(i) ==
  /\ Mishap
  /\ Ends(i, "seed")
  /\ UNCHANGED << lock, schema, node, seeded, backups, left >>

(***************************************************************************)
(* The environment: processes are killed, the service moves rows and gives *)
(* leases, time passes.                                                    *)
(***************************************************************************)
Kill(i) ==
  /\ pc[i] # "down" /\ Mishap
  /\ pc' = [pc EXCEPT ![i] = "down"]
  /\ left' = (left \/ pc[i] \in {"lead", "unlock"})
  /\ UNCHANGED << lock, schema, node, seeded, backups >>

Running == \E i \in Instances : pc[i] = "ready"

\* Every statement that moves a row writes both columns.
Serve(n, state) ==
  /\ Running
  /\ node' = [node EXCEPT ![n].state = state, ![n].status = state]
  /\ UNCHANGED << pc, lock, schema, seeded, backups, left, mishaps >>

Download(n) ==
  /\ Running
  /\ node' = [node EXCEPT ![n].state = "ACTIVE", ![n].status = "ACTIVE", ![n].lease = "running"]
  /\ UNCHANGED << pc, lock, schema, seeded, backups, left, mishaps >>

LeaseEnds(n) ==
  /\ node[n].lease = "running"
  /\ node' = [node EXCEPT ![n].lease = "over"]
  /\ UNCHANGED << pc, lock, schema, seeded, backups, left, mishaps >>

DayPasses(n) ==
  /\ node[n].download = "recent"
  /\ node' = [node EXCEPT ![n].download = "old"]
  /\ UNCHANGED << pc, lock, schema, seeded, backups, left, mishaps >>

Steps(i) ==
  \/ Start(i) \/ CheckMarker(i) \/ Snapshot(i)
  \/ Acquire(i) \/ FindsStale(i) \/ RemoveStale(i) \/ GiveUp(i)
  \/ Migrate(i) \/ Unlock(i) \/ ReadSeedMarker(i) \/ Seed(i)

Failures(i) == SnapshotFails(i) \/ AcquireFails(i) \/ MigrateFails(i) \/ SeedFails(i)

Next ==
  \/ \E i \in Instances : Steps(i) \/ Failures(i) \/ Kill(i)
  \/ LockAges
  \/ \E n \in Nodes :
        \/ Download(n) \/ LeaseEnds(n) \/ DayPasses(n)
        \/ \E state \in States : Serve(n, state)

Spec == Init /\ [][Next]_vars

\* The container starts a process that has ended, no step waits for ever, and a
\* file grows old.
FairSpec == Spec /\ WF_vars(LockAges) /\ \A i \in Instances : WF_vars(Steps(i))
-----------------------------------------------------------------------------
\* A start extends no lease that is over: "migration evidence, not a
\* recurring extension of publication leases" (storage/mod.rs 256), with two
\* processes that have both found the marker missing, too.
OverIsOver ==
  [][\A n \in Nodes : node[n].lease = "over" /\ node'[n].lease = "running"
                      => Download(n)]_vars

\* There is a snapshot from before the migration, whoever took it and however
\* often the start was repeated (TASKs.md 381).
SnapshotIsLegacy == schema = "rust" => "legacy" \in backups

\* "startup migration has only one leader" (TASKs.md 889), as long as no lock
\* has been left behind.
OneLeader == ~left => Cardinality({i \in Instances : pc[i] \in {"lead", "unlock"}}) <= 1

\* A lock left behind keeps nobody out for ever (storage/mod.rs 201).
ServiceComesUp == \A i \in Instances : <>[](pc[i] = "ready")

\* The same without the proviso.
NeverTwoLeaders == Cardinality({i \in Instances : pc[i] \in {"lead", "unlock"}}) <= 1

\* "CANDIDATE, TESTING, ACTIVE, PROBATION [...] are mapped directly"
\* (TASKs.md 466): what was ACTIVE is ACTIVE after the migration.
StatesAreKept ==
  [][\A n \in Nodes : schema = "legacy" /\ schema' = "rust" /\ node[n].status = "ACTIVE"
                      => node'[n].state = "ACTIVE"]_vars
=============================================================================
