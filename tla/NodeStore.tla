----------------------------- MODULE NodeStore ------------------------------
(***************************************************************************)
(* The lifecycle columns of one row of the nodes table and what each SQL   *)
(* statement of src/src/src/storage/mod.rs and of the scheduler does to    *)
(* them.  Every operator is one statement (or one transaction) seen from   *)
(* one row.                                                                *)
(*                                                                         *)
(* TESTING and WAITING_FOR_PORT are execution states: while a row is in    *)
(* one of them, its lifecycle is kept in testing_from_state or             *)
(* waiting_from_state.  Timestamps are reduced to what the statements ask  *)
(* of them: whether the lease they stand for is still running.             *)
(***************************************************************************)
EXTENDS Health

CONSTANT RetireAfter    \* complete generations a row is absent before it retires

ASSUME RetireAfterAssumption == RetireAfter \in Nat \ {0}

Absent == "ABSENT"      \* there is no row
Null == "NULL"          \* an SQL NULL in a column that holds a lifecycle

States == Lifecycles \cup {"TESTING", "WAITING_FOR_PORT", Absent}

Rows == [state     : States,                              \* lifecycle_state
         from      : Lifecycles \cup {Null},              \* testing_from_state
         waiting   : States \cup {Null},                  \* waiting_from_state
         valid     : BOOLEAN,             \* structurally_valid
         claimed   : BOOLEAN,             \* test_lease_until > now
         leased    : BOOLEAN,             \* publication_lease_until > now
         missing   : 0..RetireAfter,      \* upstream_missing_generations
         seen      : BOOLEAN,             \* last_seen_generation = the current one
         manual    : BOOLEAN]             \* source_subs names the manual source

NoRow == [state |-> Absent, from |-> Null, waiting |-> Null, valid |-> TRUE,
          claimed |-> FALSE, leased |-> FALSE, missing |-> 0, seen |-> FALSE,
          manual |-> FALSE]

\* The row ingest_many inserts.
NewRow == [NoRow EXCEPT !.state = "CANDIDATE"]

\* The lifecycle of a row, execution states looked through.
Effective(r) ==
  CASE r.state = "TESTING"          -> r.from
    [] r.state = "WAITING_FOR_PORT" -> r.waiting
    [] OTHER                        -> r.state

\* The WHERE clause of Store::publication_snapshot.
Published(r) ==
  r.valid /\ r.leased /\ r.state \notin {"INVALID", "RETIRED", Absent}

(***************************************************************************)
(* The scheduler's statements.                                             *)
(***************************************************************************)
Queues == {"CANDIDATE", "PROBATION", "DORMANT", "ACTIVE"}

\* append_claims, the SELECT.
Eligible(r, queue) ==
  /\ \/ r.state = queue
     \/ r.state = "WAITING_FOR_PORT" /\ r.waiting = queue
  /\ r.valid /\ ~r.claimed

\* append_claims, the UPDATE: its WHERE clause asks for the test lease only.
Claimable(r) == r.state # Absent /\ ~r.claimed

\* Mutant of Claim: WAITING_FOR_PORT is taken for a lifecycle.
ClaimOfState(r) ==
  [r EXCEPT !.state = "TESTING", !.from = r.state, !.waiting = Null,
            !.claimed = TRUE]

Claim(r) ==
  [r EXCEPT !.state = "TESTING",
            !.from = IF r.state = "WAITING_FOR_PORT"
                     THEN IF r.waiting = Null THEN "CANDIDATE" ELSE r.waiting
                     ELSE r.state,
            !.waiting = Null, !.claimed = TRUE]

\* Mutant of PriorLifecycle: testing_from_state is not read.
PriorForgotten(r) == IF r.state = "TESTING" THEN "CANDIDATE" ELSE r.state

\* The lifecycle apply_test_event reads: TESTING is looked through, and
\* nothing else is.
PriorLifecycle(r) == IF r.state = "TESTING" THEN r.from ELSE r.state

\* Mutant of Applied: a failure revokes the publication lease.
AppliedRevoking(r, e, verdict) ==
  [r EXCEPT !.state = verdict, !.from = Null, !.claimed = FALSE,
            !.valid = r.valid /\ e.class # "INVALID_CONFIG",
            !.leased = (e.class = "SUCCESS" /\ LeaseMinutes(e.stage, e.fast) > 0)]

\* apply_test_event, with the lifecycle health::decide returned.
Applied(r, e, verdict) ==
  [r EXCEPT !.state = verdict, !.from = Null, !.claimed = FALSE,
            !.valid = r.valid /\ e.class # "INVALID_CONFIG",
            !.leased = r.leased \/ (e.class = "SUCCESS" /\ LeaseMinutes(e.stage, e.fast) > 0)]

\* release_test_lease.
Released(r) ==
  IF r.state = "TESTING"
  THEN [r EXCEPT !.state = IF r.from = Null THEN r.state ELSE r.from,
                 !.from = Null, !.claimed = FALSE]
  ELSE r

\* mark_waiting_for_port.
Waiting(r) ==
  IF r.state # Absent /\ r.valid
  THEN [r EXCEPT !.waiting = r.state, !.state = "WAITING_FOR_PORT",
                 !.from = Null, !.claimed = FALSE]
  ELSE r

(***************************************************************************)
(* Upstream reconciliation.                                                *)
(***************************************************************************)
\* ingest_many, for a row the batch carries.
Ingested(r, manually) ==
  IF r.state = Absent
  THEN [NewRow EXCEPT !.seen = ~manually, !.manual = manually]
  ELSE [r EXCEPT !.seen = ~manually, !.manual = r.manual \/ manually,
                 !.missing = 0,
                 !.state = IF r.state = "RETIRED" THEN "CANDIDATE" ELSE r.state]

\* Mutant of Copied: one absence is forgiven at a time.
CopiedForgiving(r) ==
  IF r.state = Absent THEN r ELSE [r EXCEPT !.seen = TRUE, !.missing = r.missing - 1]

\* copy_cached_source_generation, for a row the cached source lists: seen
\* again, but a retired row stays retired.
Copied(r) ==
  IF r.state = Absent THEN r ELSE [r EXCEPT !.seen = TRUE, !.missing = 0]

\* Mutants of Missed and Retirable: manual imports are counted too; the
\* publication lease is not asked for; only what the tests have given up goes.
MissedByAll(r) ==
  IF r.state # Absent /\ ~r.seen /\ r.missing < RetireAfter
  THEN [r EXCEPT !.missing = r.missing + 1] ELSE r

RetirableRegardless(r) ==
  r.state \notin {"INVALID", "RETIRED", Absent} /\ r.missing >= RetireAfter

RetirableDormant(r) ==
  r.state = "DORMANT" /\ r.missing >= RetireAfter /\ ~r.leased

\* finish_refresh of a complete generation: count the absence, then retire.
Missed(r) ==
  IF r.state # Absent /\ ~r.seen /\ ~r.manual /\ r.missing < RetireAfter
  THEN [r EXCEPT !.missing = r.missing + 1] ELSE r

Retirable(r) ==
  /\ r.state \notin {"INVALID", "RETIRED", Absent}
  /\ r.missing >= RetireAfter /\ ~r.leased

Reconciled(r, aged) ==
  LET m == Missed(r)
  IN  IF aged /\ Retirable(m) THEN [m EXCEPT !.state = "RETIRED"] ELSE m

(***************************************************************************)
(* The operator's statements.                                              *)
(***************************************************************************)
Revivable(r) == r.state \in {"DORMANT", "PROBATION", "CANDIDATE"} /\ r.valid

\* revive_node.
Revived(r) ==
  [r EXCEPT !.state = "PROBATION", !.from = Null, !.claimed = FALSE]

\* revive_dormant.
DormantRevived(r) ==
  IF r.state = "DORMANT" /\ r.valid THEN [r EXCEPT !.state = "PROBATION"] ELSE r
=============================================================================
