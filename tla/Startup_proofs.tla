--------------------------- MODULE Startup_proofs ---------------------------
(***************************************************************************)
(* Theorems about module Startup, for any number of processes and of rows, *)
(* and any number of kills and failures.                                   *)
(***************************************************************************)
EXTENDS Startup, FiniteSetTheorems, TLAPS

(***************************************************************************)
(* What is done to a row.                                                  *)
(***************************************************************************)
LEMMA MappedIs ==
  ASSUME NEW row
  PROVE  /\ row.status = "DEAD" =>
              Mapped(row) = [row EXCEPT !.state = "DORMANT", !.status = "DORMANT"]
         /\ row.status = "REMOVED" =>
              Mapped(row) = [row EXCEPT !.state = "RETIRED", !.status = "RETIRED"]
         /\ row.status \notin {"DEAD", "REMOVED"} =>
              Mapped(row) = [row EXCEPT !.state = row.state, !.status = row.status]
<1>. DEFINE moved == CASE row.status = "DEAD" -> "DORMANT"
                       [] row.status = "REMOVED" -> "RETIRED"
                       [] OTHER -> row.state
<1>1. "DEAD" # "REMOVED"
  OBVIOUS
<1>2. /\ row.status = "DEAD" => moved = "DORMANT"
      /\ row.status = "REMOVED" => moved = "RETIRED"
      /\ row.status \notin {"DEAD", "REMOVED"} => moved = row.state
  BY <1>1, Zenon
<1>3. Mapped(row) = [row EXCEPT !.state = moved,
                                !.status = IF row.status \in {"DEAD", "REMOVED"}
                                           THEN moved ELSE row.status]
  BY Zenon DEF Mapped
<1>. HIDE DEF moved
<1>. QED
  BY <1>2, <1>3

LEMMA MappedRow ==
  ASSUME NEW a \in Rows, a.state # "absent"
  PROVE  /\ Mapped(a) \in Rows /\ Mapped(a).state # "absent"
         /\ Mapped(a).status \in States /\ Mapped(a).lease = a.lease
<1>. DEFINE b == Mapped(a)
<1>1. /\ a.state \in States /\ a.status \in Legacy \cup States
      /\ a.lease \in {"none", "running", "over"} /\ a.download \in Downloads
  BY DEF Rows
<1>2. PICK state \in States, status \in States :
        b = [a EXCEPT !.state = state, !.status = status]
  <2>1. a.status \notin {"DEAD", "REMOVED"} => a.status \in States
    BY <1>1 DEF Legacy, States
  <2>2. "DORMANT" \in States /\ "RETIRED" \in States
    BY DEF States
  <2>. QED
    BY <1>1, <2>1, <2>2, MappedIs
<1>. HIDE DEF b
<1>3. b = [status |-> status, state |-> state, lease |-> a.lease, download |-> a.download]
  BY <1>2 DEF Rows
<1>4. state # "absent"
  BY DEF States
<1>. QED
  BY <1>1, <1>3, <1>4 DEF Rows, b

\* A row after the migration.
LEMMA MigratedRow ==
  ASSUME NEW row \in Rows
  PROVE  LET new == Protected(Mapped(WithColumns(row)))
         IN  /\ new \in Rows /\ new.state # "absent" /\ new.status \in States
             /\ row.lease # "none" => new.lease = row.lease
<1>. DEFINE a == WithColumns(row)
            b == Mapped(a)
            new == Protected(b)
<1>1. a \in Rows /\ a.state # "absent" /\ a.lease = row.lease
  BY DEF WithColumns, Rows, States
<1>. HIDE DEF a
<1>2. b \in Rows /\ b.state # "absent" /\ b.status \in States /\ b.lease = a.lease
  BY <1>1, MappedRow
<1>. HIDE DEF b
<1>3. /\ new \in Rows /\ new.state = b.state /\ new.status = b.status
      /\ b.lease # "none" => new.lease = b.lease
  BY <1>2 DEF Protected, Rows
<1>. QED
  BY <1>1, <1>2, <1>3 DEF a, b

LEMMA SeededRow ==
  ASSUME NEW row \in Rows
  PROVE  /\ Seeded(row) \in Rows /\ Seeded(row).state = row.state
         /\ Seeded(row).status = row.status
         /\ row.lease # "none" => Seeded(row).lease = row.lease
BY DEF Seeded, Rows

(***************************************************************************)
(* Types.                                                                  *)
(***************************************************************************)
Places == {"down", "check", "snapshot", "wait", "remove", "lead",
           "unlock", "marker", "seed", "ready"}

LEMMA Moves ==
  ASSUME pc \in [Instances -> Places], NEW i \in Instances, NEW here, NEW next \in Places,
         At(i, here, next)
  PROVE  pc' \in [Instances -> Places]
BY DEF At

LEMMA TypeInit == Init => TypeOK
<1>. SUFFICES ASSUME Init PROVE TypeOK
  OBVIOUS
<1>1. node \in [Nodes -> Rows]
  BY DEF Init, Rows
<1>2. pc \in [Instances -> Places]
  BY DEF Init, Places
<1>3. lock = "free" /\ schema = "legacy" /\ backups = {} /\ mishaps = 0
  BY DEF Init
<1>4. /\ seeded \in BOOLEAN /\ left \in BOOLEAN
  BY Zenon DEF Init
<1>5. /\ backups \subseteq {"legacy", "rust"} /\ mishaps \in 0..Mishaps
  BY <1>3, StartupConstants
<1>6. schema \in {"legacy", "rust"} /\ schema # "rust" /\ lock \in {"free", "fresh", "old"}
  BY <1>3
<1>. QED
  BY <1>1, <1>2, <1>4, <1>5, <1>6 DEF TypeOK, Places

\* A step that leaves the rows and the schema alone.
LEMMA OthersTypes ==
  ASSUME TypeOK, UNCHANGED << schema, node >>, pc' \in [Instances -> Places],
         lock' \in {"free", "fresh", "old"}, seeded' \in BOOLEAN, left' \in BOOLEAN,
         backups' \subseteq {"legacy", "rust"}, mishaps' \in 0..Mishaps
  PROVE  TypeOK'
BY DEF TypeOK, Places

LEMMA TypeStep == TypeOK /\ [Next]_vars => TypeOK'
<1>. SUFFICES ASSUME TypeOK, [Next]_vars PROVE TypeOK'
  OBVIOUS
<1>1. /\ pc \in [Instances -> Places] /\ lock \in {"free", "fresh", "old"}
      /\ seeded \in BOOLEAN /\ left \in BOOLEAN /\ backups \subseteq {"legacy", "rust"}
      /\ mishaps \in 0..Mishaps /\ node \in [Nodes -> Rows] /\ schema \in {"legacy", "rust"}
  BY DEF TypeOK, Places
<1>2. Mishap => mishaps' \in 0..Mishaps
  BY <1>1, StartupConstants DEF Mishap
<1>3. ASSUME NEW i \in Instances,
             \/ Start(i) \/ CheckMarker(i) \/ FindsStale(i) \/ ReadSeedMarker(i)
             \/ Snapshot(i) \/ Acquire(i) \/ RemoveStale(i) \/ GiveUp(i) \/ Unlock(i)
      PROVE  TypeOK'
  <2>1. pc' \in [Instances -> Places]
    <3>1. PICK here, next \in Places : At(i, here, next)
      BY <1>3 DEF Start, CheckMarker, FindsStale, ReadSeedMarker, Snapshot, Acquire,
                  RemoveStale, GiveUp, Unlock, Ends, Places
    <3>. QED
      BY <1>1, <3>1, Moves
  <2>2. /\ UNCHANGED << schema, node, seeded, left, mishaps >>
        /\ lock' \in {lock, "free", "fresh"} /\ backups' \in {backups, backups \cup {schema}}
    BY <1>3 DEF Start, CheckMarker, FindsStale, ReadSeedMarker, Snapshot, Acquire,
                RemoveStale, GiveUp, Unlock
  <2>. QED
    BY <1>1, <2>1, <2>2, OthersTypes
<1>4. ASSUME NEW i \in Instances, Failures(i) PROVE TypeOK'
  <2>1. pc' \in [Instances -> Places]
    <3>1. PICK here, next \in Places : At(i, here, next)
      BY <1>4 DEF Failures, SnapshotFails, AcquireFails, MigrateFails, SeedFails, Ends, Places
    <3>. QED
      BY <1>1, <3>1, Moves
  <2>2. /\ UNCHANGED << schema, node, seeded, backups >> /\ Mishap
        /\ lock' \in {lock, "free", "fresh"} /\ left' \in {left, TRUE}
    BY <1>4 DEF Failures, SnapshotFails, AcquireFails, MigrateFails, SeedFails
  <2>. QED
    BY <1>1, <1>2, <2>1, <2>2, OthersTypes
<1>5. ASSUME NEW i \in Instances, Kill(i) PROVE TypeOK'
  <2>1. pc' \in [Instances -> Places]
    BY <1>1, <1>5 DEF Kill, Places
  <2>2. left' \in BOOLEAN
    BY <1>1, <1>5 DEF Kill
  <2>. QED
    BY <1>1, <1>2, <1>5, <2>1, <2>2, OthersTypes DEF Kill
<1>6. CASE LockAges
  BY <1>1, <1>6, OthersTypes DEF LockAges
<1>7. ASSUME NEW i \in Instances, Migrate(i) PROVE TypeOK'
  <2>1. pc' \in [Instances -> Places]
    BY <1>1, <1>7 DEF Migrate, At, Places
  <2>2. /\ node' \in [Nodes -> Rows]
        /\ \A n \in Nodes : node'[n].state # "absent" /\ node'[n].status \in States
    BY <1>1, <1>7, MigratedRow DEF Migrate
  <2>. QED
    BY <1>1, <1>7, <2>1, <2>2 DEF Migrate, TypeOK, Places
<1>8. ASSUME NEW i \in Instances, Seed(i) PROVE TypeOK'
  <2>1. pc' \in [Instances -> Places]
    BY <1>1, <1>8 DEF Seed, At, Places
  <2>2. /\ node' \in [Nodes -> Rows]
        /\ \A n \in Nodes : node'[n].state = node[n].state /\ node'[n].status = node[n].status
    BY <1>1, <1>8, SeededRow DEF Seed
  <2>. QED
    BY <1>1, <1>8, <2>1, <2>2 DEF Seed, TypeOK, Places
<1>9. ASSUME NEW n \in Nodes,
             Download(n) \/ LeaseEnds(n) \/ DayPasses(n) \/ \E state \in States : Serve(n, state)
      PROVE  TypeOK'
  <2>1. /\ node' \in [Nodes -> Rows]
        /\ \A m \in Nodes : \/ node'[m].state = node[m].state /\ node'[m].status = node[m].status
                            \/ node'[m].state \in States /\ node'[m].status \in States
    BY <1>1, <1>9 DEF Download, LeaseEnds, DayPasses, Serve, Rows, States, Downloads
  <2>2. "absent" \notin States
    BY DEF States
  <2>3. UNCHANGED << pc, lock, schema, seeded, backups, left, mishaps >>
    BY <1>9 DEF Download, LeaseEnds, DayPasses, Serve
  <2>. QED
    BY <2>1, <2>2, <2>3 DEF TypeOK
<1>10. CASE UNCHANGED vars
  BY <1>10 DEF vars, TypeOK
<1>. QED
  BY <1>3, <1>4, <1>5, <1>6, <1>7, <1>8, <1>9, <1>10 DEF Next, Steps

\* The types; after the migration every row has a lifecycle state, and its old
\* column holds none of the states that were taken over (migrate).
THEOREM TypeCorrect == Spec => []TypeOK
<1>1. Init => TypeOK
  BY TypeInit
<1>2. TypeOK /\ [Next]_vars => TypeOK'
  BY TypeStep
<1>. QED
  BY <1>1, <1>2, PTL DEF Spec

(***************************************************************************)
(* Leases.                                                                 *)
(***************************************************************************)
\* However many processes seed at once: a start gives no second lease to a row
\* whose lease is over (migrate, seed_legacy_download_leases).
THEOREM OverStaysOver == Spec => OverIsOver
<1>. DEFINE A == \A n \in Nodes : node[n].lease = "over" /\ node'[n].lease = "running"
                                  => Download(n)
<1>1. Init => TypeOK
  BY TypeInit
<1>2. TypeOK /\ [Next]_vars => TypeOK'
  BY TypeStep
<1>3. TypeOK /\ [Next]_vars => [A]_vars
  <2>. SUFFICES ASSUME TypeOK, Next, NEW n \in Nodes,
                       node[n].lease = "over", node'[n].lease = "running"
                PROVE  Download(n)
    BY DEF vars
  <2>1. node \in [Nodes -> Rows]
    BY DEF TypeOK
  <2>2. ASSUME node' = node PROVE FALSE
    BY <2>2
  <2>3. ASSUME NEW i \in Instances, Steps(i) PROVE FALSE
    <3>1. CASE Migrate(i)
      BY <2>1, <3>1, MigratedRow DEF Migrate
    <3>2. CASE Seed(i)
      BY <2>1, <3>2, SeededRow DEF Seed
    <3>. QED
      BY <2>2, <2>3, <3>1, <3>2 DEF Steps, Start, CheckMarker, FindsStale, ReadSeedMarker,
           Snapshot, Acquire, RemoveStale, GiveUp, Unlock
  <2>4. ASSUME NEW i \in Instances, Failures(i) \/ Kill(i) PROVE FALSE
    BY <2>2, <2>4 DEF Failures, SnapshotFails, AcquireFails, MigrateFails, SeedFails, Kill
  <2>5. CASE LockAges
    BY <2>2, <2>5 DEF LockAges
  <2>6. ASSUME NEW m \in Nodes,
               LeaseEnds(m) \/ DayPasses(m) \/ \E state \in States : Serve(m, state)
        PROVE  FALSE
    <3>1. CASE LeaseEnds(m)
      BY <2>1, <3>1 DEF LeaseEnds
    <3>2. CASE DayPasses(m)
      BY <2>1, <3>2 DEF DayPasses, Rows
    <3>3. ASSUME NEW state \in States, Serve(m, state) PROVE FALSE
      BY <2>1, <3>3 DEF Serve, Rows
    <3>. QED
      BY <2>6, <3>1, <3>2, <3>3
  <2>7. ASSUME NEW m \in Nodes, Download(m) PROVE Download(n)
    <3>1. m = n
      BY <2>1, <2>7 DEF Download
    <3>. QED
      BY <2>7, <3>1
  <2>. QED
    BY <2>3, <2>4, <2>5, <2>6, <2>7 DEF Next
<1>4. Spec => [][A]_vars
  BY <1>1, <1>2, <1>3, PTL DEF Spec
<1>. QED
  BY <1>4 DEF OverIsOver

(***************************************************************************)
(* The snapshot.  A process that has come as far as the lock has seen to   *)
(* it, or has found the marker, which is set after another one had.        *)
(***************************************************************************)
Saved == "legacy" \in backups

SavedFirst ==
  /\ SnapshotIsLegacy
  /\ \A i \in Instances : pc[i] \in {"wait", "remove", "lead"} => Saved

LEMMA SavedStep ==
  ASSUME TypeOK, SavedFirst, [Next]_vars
  PROVE  SavedFirst'
<1>1. pc \in [Instances -> Places] /\ schema \in {"legacy", "rust"}
  BY DEF TypeOK, Places
<1>2. /\ schema = "rust" => Saved
      /\ \A i \in Instances : pc[i] \in {"wait", "remove", "lead"} => Saved
  BY DEF SavedFirst, SnapshotIsLegacy, Saved
<1>3. ASSUME Saved, backups \subseteq backups' PROVE SavedFirst'
  BY <1>3 DEF SavedFirst, SnapshotIsLegacy, Saved
<1>4. ASSUME UNCHANGED << schema, backups >>,
             \A j \in Instances : pc'[j] \in {"wait", "remove", "lead"} =>
                                    pc[j] \in {"wait", "remove", "lead"} \/ schema = "rust"
      PROVE  SavedFirst'
  BY <1>2, <1>4 DEF SavedFirst, SnapshotIsLegacy, Saved
<1>5. ASSUME NEW i \in Instances, Snapshot(i) PROVE SavedFirst'
  <2>1. backups' = backups \cup {schema}
    BY <1>5 DEF Snapshot
  <2>2. CASE schema = "rust"
    BY <1>2, <1>3, <2>1, <2>2
  <2>3. CASE schema = "legacy"
    BY <2>1, <2>3 DEF SavedFirst, SnapshotIsLegacy, Saved
  <2>. QED
    BY <1>1, <2>2, <2>3
<1>6. ASSUME NEW i \in Instances, Migrate(i) PROVE SavedFirst'
  BY <1>1, <1>2, <1>3, <1>6 DEF Migrate, At
<1>7. ASSUME NEW i \in Instances,
             \/ Start(i) \/ CheckMarker(i) \/ FindsStale(i) \/ ReadSeedMarker(i)
             \/ Acquire(i) \/ RemoveStale(i) \/ GiveUp(i) \/ Unlock(i) \/ Seed(i)
      PROVE  SavedFirst'
  <2>1. UNCHANGED << schema, backups >>
    BY <1>7 DEF Start, CheckMarker, FindsStale, ReadSeedMarker, Acquire, RemoveStale,
                GiveUp, Unlock, Seed
  <2>2. PICK here, next : /\ At(i, here, next)
                          /\ next \in {"wait", "remove", "lead"} =>
                               here \in {"wait", "remove", "lead"} \/ schema = "rust"
    BY <1>1, <1>7 DEF Start, CheckMarker, FindsStale, ReadSeedMarker, Acquire, RemoveStale,
                GiveUp, Unlock, Seed, Ends
  <2>3. \A j \in Instances : pc'[j] = IF j = i THEN next ELSE pc[j]
    BY <1>1, <2>2 DEF At
  <2>. QED
    BY <1>4, <2>1, <2>2, <2>3 DEF At
<1>8. ASSUME NEW i \in Instances, Failures(i) \/ Kill(i) PROVE SavedFirst'
  <2>1. UNCHANGED << schema, backups >>
    BY <1>8 DEF Failures, SnapshotFails, AcquireFails, MigrateFails, SeedFails, Kill
  <2>2. \A j \in Instances : pc'[j] = pc[j] \/ pc'[j] = "down"
    BY <1>1, <1>8 DEF Failures, SnapshotFails, AcquireFails, MigrateFails, SeedFails, Kill, Ends, At
  <2>. QED
    BY <1>4, <2>1, <2>2
<1>9. CASE \/ LockAges \/ UNCHANGED vars
           \/ \E n \in Nodes : \/ Download(n) \/ LeaseEnds(n) \/ DayPasses(n)
                               \/ \E state \in States : Serve(n, state)
  BY <1>4, <1>9 DEF LockAges, vars, Download, LeaseEnds, DayPasses, Serve
<1>. QED
  BY <1>5, <1>6, <1>7, <1>8, <1>9 DEF Next, Steps

\* Wherever the processes were killed: the database is not migrated before a
\* snapshot of the legacy one has been taken (backup_before_migrate, main).
THEOREM SnapshotSound == Spec => []SnapshotIsLegacy
<1>. DEFINE IInv == TypeOK /\ SavedFirst
<1>1. Init => IInv
  BY TypeInit DEF Init, SavedFirst, SnapshotIsLegacy
<1>2. IInv /\ [Next]_vars => IInv'
  BY TypeStep, SavedStep
<1>3. IInv => SnapshotIsLegacy
  BY DEF SavedFirst
<1>. QED
  BY <1>1, <1>2, <1>3, PTL DEF Spec

(***************************************************************************)
(* The leader.  As long as no lock is left behind, the file is there while *)
(* somebody leads, and only then; so nobody finds it to be too old.        *)
(***************************************************************************)
Leads(i) == pc[i] \in {"lead", "unlock"}

LockIsHeld ==
  ~left => /\ \A i, j \in Instances : Leads(i) /\ Leads(j) => i = j
           /\ lock = "fresh" <=> \E i \in Instances : Leads(i)
           /\ lock # "old"
           /\ \A i \in Instances : pc[i] # "remove"

LEMMA LockStep ==
  ASSUME ~Slow, TypeOK, LockIsHeld, [Next]_vars
  PROVE  LockIsHeld'
<1>1. pc \in [Instances -> Places]
  BY DEF TypeOK, Places
<1>. SUFFICES ASSUME ~left' PROVE LockIsHeld'
  BY DEF LockIsHeld
<1>2. ~left
  BY DEF Next, Steps, Start, CheckMarker, FindsStale, ReadSeedMarker, Snapshot, Acquire,
         RemoveStale, GiveUp, Unlock, Migrate, Seed, Failures, SnapshotFails, AcquireFails,
         MigrateFails, SeedFails, Kill, LockAges, Download, LeaseEnds, DayPasses, Serve, vars
<1>3. /\ \A i, j \in Instances : Leads(i) /\ Leads(j) => i = j
      /\ lock = "fresh" <=> \E i \in Instances : Leads(i)
      /\ lock \in {"free", "fresh"}
      /\ \A i \in Instances : pc[i] # "remove"
  BY <1>2 DEF LockIsHeld, TypeOK
<1>4. ASSUME lock' = lock, \A j \in Instances : /\ Leads(j)' <=> Leads(j)
                                                /\ pc'[j] = pc[j] \/ pc'[j] # "remove"
      PROVE  LockIsHeld'
  BY <1>3, <1>4 DEF LockIsHeld
\* The process that leads, if any, stops leading and frees the lock.
<1>5. ASSUME NEW i \in Instances, Leads(i), lock' = "free",
             \A j \in Instances : pc'[j] = IF j = i THEN pc'[i] ELSE pc[j],
             pc'[i] \notin {"lead", "unlock", "remove"}
      PROVE  LockIsHeld'
  BY <1>3, <1>5 DEF LockIsHeld, Leads
<1>6. ASSUME NEW i \in Instances, Acquire(i) PROVE LockIsHeld'
  <2>1. \A j \in Instances : pc'[j] = IF j = i THEN "lead" ELSE pc[j]
    BY <1>1, <1>6 DEF Acquire, At
  <2>2. \A j \in Instances : ~Leads(j)
    BY <1>3, <1>6 DEF Acquire
  <2>3. lock' = "fresh"
    BY <1>6 DEF Acquire
  <2>. QED
    BY <1>3, <2>1, <2>2, <2>3 DEF LockIsHeld, Leads
<1>7. ASSUME NEW i \in Instances, Unlock(i) \/ MigrateFails(i) PROVE LockIsHeld'
  <2>1. /\ Leads(i) /\ lock' = "free" /\ pc'[i] \notin {"lead", "unlock", "remove"}
        /\ \A j \in Instances : pc'[j] = IF j = i THEN pc'[i] ELSE pc[j]
    BY <1>1, <1>7 DEF Unlock, MigrateFails, Ends, At, Leads
  <2>. QED
    BY <1>5, <2>1
<1>8. ASSUME NEW i \in Instances,
             \/ Start(i) \/ CheckMarker(i) \/ ReadSeedMarker(i) \/ Snapshot(i) \/ GiveUp(i)
             \/ Migrate(i) \/ Seed(i) \/ SnapshotFails(i) \/ SeedFails(i)
      PROVE  LockIsHeld'
  <2>1. lock' = lock
    BY <1>8 DEF Start, CheckMarker, ReadSeedMarker, Snapshot, GiveUp, Migrate, Seed,
                SnapshotFails, SeedFails
  <2>2. PICK here, next : /\ At(i, here, next) /\ next # "remove"
                          /\ here \in {"lead", "unlock"} <=> next \in {"lead", "unlock"}
    BY <1>1, <1>8 DEF Start, CheckMarker, ReadSeedMarker, Snapshot, GiveUp, Migrate, Seed,
                SnapshotFails, SeedFails, Ends
  <2>3. \A j \in Instances : pc'[j] = IF j = i THEN next ELSE pc[j]
    BY <1>1, <2>2 DEF At
  <2>4. pc[i] = here
    BY <2>2 DEF At
  <2>. QED
    BY <1>4, <2>1, <2>2, <2>3, <2>4 DEF Leads
<1>9. ASSUME NEW i \in Instances, FindsStale(i) \/ RemoveStale(i) \/ AcquireFails(i) PROVE FALSE
  BY <1>3, <1>9 DEF FindsStale, Stale, RemoveStale, AcquireFails, At
<1>10. ASSUME NEW i \in Instances, Kill(i) PROVE LockIsHeld'
  <2>1. ~Leads(i) /\ lock' = lock
    BY <1>10 DEF Kill, Leads
  <2>2. \A j \in Instances : pc'[j] = IF j = i THEN "down" ELSE pc[j]
    BY <1>1, <1>10 DEF Kill
  <2>. QED
    BY <1>4, <2>1, <2>2 DEF Leads
<1>11. CASE LockAges
  BY <1>3, <1>11 DEF LockAges, Leads
<1>12. CASE \/ UNCHANGED vars
            \/ \E n \in Nodes : \/ Download(n) \/ LeaseEnds(n) \/ DayPasses(n)
                                \/ \E state \in States : Serve(n, state)
  <2>1. pc' = pc /\ lock' = lock
    BY <1>12 DEF vars, Download, LeaseEnds, DayPasses, Serve
  <2>. QED
    BY <1>4, <2>1 DEF Leads
<1>. QED
  BY <1>6, <1>7, <1>8, <1>9, <1>10, <1>11, <1>12 DEF Next, Steps, Failures

\* When no migration takes fifteen minutes: however many processes are started
\* together, no two of them migrate at once unless a lock has been left behind
\* (acquire_migration_leader).
THEOREM LeaderSound ==
  ASSUME ~Slow
  PROVE  Spec => []OneLeader
<1>. DEFINE IInv == TypeOK /\ LockIsHeld
<1>1. Init => IInv
  BY TypeInit DEF Init, LockIsHeld, Leads
<1>2. IInv /\ [Next]_vars => IInv'
  BY TypeStep, LockStep
<1>3. IInv => OneLeader
  <2>. SUFFICES ASSUME LockIsHeld, ~left
                PROVE  Cardinality({i \in Instances : pc[i] \in {"lead", "unlock"}}) <= 1
    BY DEF OneLeader
  <2>. DEFINE S == {i \in Instances : pc[i] \in {"lead", "unlock"}}
  <2>1. S = {} \/ \E i : S = {i}
    BY DEF LockIsHeld, Leads
  <2>2. Cardinality(S) = 0 \/ Cardinality(S) = 1
    BY <2>1, FS_EmptySet, FS_Singleton
  <2>. QED
    BY <2>2
<1>. QED
  BY <1>1, <1>2, <1>3, PTL DEF Spec
=============================================================================
