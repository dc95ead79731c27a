---------------------------- MODULE Fleet_proofs ----------------------------
(***************************************************************************)
(* Theorems about Fleet, for any set of proxies, any reports and any       *)
(* number of absences before retirement.                                   *)
(***************************************************************************)
EXTENDS Fleet, SequenceTheorems, TLAPS

\* A row as the statements leave it: invalid exactly when found invalid, and
\* under test only on behalf of a lifecycle that tests can change.
Sound(r) ==
  /\ r \in Rows
  /\ ~r.valid <=> r.state = "INVALID"
  /\ r.state = "TESTING" => r.from \in Queues \cup {"RETIRED"}
  /\ r.manual => r.missing = 0

(***************************************************************************)
(* One statement on one row.                                               *)
(***************************************************************************)
LEMMA VerdictsOfLifecycle ==
  ASSUME NEW l \in Queues \cup {"RETIRED", "INVALID", "WAITING_FOR_PORT"},
         NEW stage, NEW class, NEW v \in Verdicts(l, stage, class)
  PROVE  /\ v \in Queues \cup {"RETIRED", "INVALID", "WAITING_FOR_PORT"}
         /\ class = "INVALID_CONFIG" => v = "INVALID"
         /\ l = "INVALID" => v = "INVALID"
         /\ v = "INVALID" => class = "INVALID_CONFIG" \/ l = "INVALID"
         /\ v = "RETIRED" => l = "RETIRED"
         /\ v = "WAITING_FOR_PORT" => l = "WAITING_FOR_PORT"
<1>1. CASE class = "INVALID_CONFIG" \/ l = "INVALID"
  <2>1. Verdicts(l, stage, class) = {"INVALID"}
    BY <1>1 DEF Verdicts, RealDownload
  <2>. QED
    BY <1>1, <2>1
<1>2. CASE class # "INVALID_CONFIG" /\ l = "RETIRED"
  <2>1. Verdicts(l, stage, class) = {"RETIRED"}
    BY <1>2 DEF Verdicts, RealDownload
  <2>. QED
    BY <1>2, <2>1
<1>3. CASE class # "INVALID_CONFIG" /\ l \notin {"INVALID", "RETIRED"}
  <2>1. Verdicts(l, stage, class) \subseteq Queues \cup {l}
    BY <1>3 DEF Verdicts, Queues
  <2>. QED
    BY <1>3, <2>1 DEF Queues
<1>. QED
  BY <1>1, <1>2, <1>3

LEMMA ClaimSound ==
  ASSUME NEW r, Sound(r),
         \/ r.state \in Queues \cup {"RETIRED"}
         \/ r.state = "WAITING_FOR_PORT" /\ r.waiting \in Queues
  PROVE  Sound(Claim(r))
BY DEF Sound, Claim, Rows, States, Lifecycles, Queues, Null, Absent

LEMMA AppliedSound ==
  ASSUME NEW r, Sound(r), r.state # Absent,
         NEW e, NEW v \in Verdicts(PriorLifecycle(r), e.stage, e.class)
  PROVE  Sound(Applied(r, e, v))
<1>1. PriorLifecycle(r) \in Queues \cup {"RETIRED", "INVALID", "WAITING_FOR_PORT"}
  BY DEF Sound, PriorLifecycle, Rows, States, Lifecycles, Queues
<1>2. /\ v \in Queues \cup {"RETIRED", "INVALID", "WAITING_FOR_PORT"}
      /\ v = "INVALID" <=> e.class = "INVALID_CONFIG" \/ PriorLifecycle(r) = "INVALID"
  BY <1>1, VerdictsOfLifecycle
<1>3. PriorLifecycle(r) = "INVALID" <=> ~r.valid
  BY DEF Sound, PriorLifecycle, Queues
<1>. DEFINE valid == r.valid /\ e.class # "INVALID_CONFIG"
            leased == r.leased \/ (/\ e.class = "SUCCESS"
                                  /\ LeaseMinutes(e.stage, e.fast) > 0)
<1>4. Applied(r, e, v) = [r EXCEPT !.state = v, !.from = Null, !.claimed = FALSE,
                                   !.valid = valid, !.leased = leased]
  BY DEF Applied
<1>5. /\ valid \in BOOLEAN /\ leased \in BOOLEAN
      /\ ~valid <=> v = "INVALID"
  <2>1. r.leased \in BOOLEAN
    BY DEF Sound, Rows
  <2>. QED
    BY <1>2, <1>3, <2>1
<1>. HIDE DEF valid, leased
<1>6. v \in States /\ v # "TESTING"
  BY <1>2 DEF States, Lifecycles, Queues
<1>7. Applied(r, e, v) \in Rows
  BY <1>4, <1>5, <1>6 DEF Sound, Rows, Null
<1>8. /\ Applied(r, e, v).valid = valid /\ Applied(r, e, v).state = v
      /\ Applied(r, e, v).manual = r.manual
      /\ Applied(r, e, v).missing = r.missing
  BY <1>4 DEF Sound, Rows
<1>. QED
  BY <1>5, <1>6, <1>7, <1>8 DEF Sound

LEMMA ReleasedSound == ASSUME NEW r, Sound(r) PROVE Sound(Released(r))
<1>1. CASE r.state = "TESTING"
  <2>1. Released(r) = [r EXCEPT !.state = r.from, !.from = Null, !.claimed = FALSE]
    BY <1>1 DEF Sound, Released, Queues, Null
  <2>. QED
    BY <1>1, <2>1 DEF Sound, Rows, States, Lifecycles, Queues, Null
<1>2. CASE r.state # "TESTING"
  BY <1>2 DEF Released
<1>. QED
  BY <1>1, <1>2

LEMMA WaitingSound == ASSUME NEW r, Sound(r) PROVE Sound(Waiting(r))
<1>1. CASE r.state # Absent /\ r.valid
  <2>1. Waiting(r) = [r EXCEPT !.waiting = r.state, !.state = "WAITING_FOR_PORT",
                               !.from = Null, !.claimed = FALSE]
    BY <1>1 DEF Waiting
  <2>. QED
    BY <1>1, <2>1 DEF Sound, Rows, States, Lifecycles, Null, Absent
<1>2. CASE ~(r.state # Absent /\ r.valid)
  BY <1>2 DEF Waiting
<1>. QED
  BY <1>1, <1>2

LEMMA IngestedSound ==
  ASSUME NEW r, Sound(r), NEW manually \in BOOLEAN
  PROVE  Sound(Ingested(r, manually))
<1>0. 0 \in 0..RetireAfter
  BY RetireAfterAssumption
<1>1. CASE r.state = Absent
  BY <1>0, <1>1 DEF Sound, Ingested, Rows, States, Lifecycles, Null, Absent,
                    NewRow, NoRow
<1>2. CASE r.state # Absent
  <2>. DEFINE state == IF r.state = "RETIRED" THEN "CANDIDATE" ELSE r.state
  <2>1. Ingested(r, manually) =
          [r EXCEPT !.seen = ~manually, !.manual = r.manual \/ manually,
                    !.missing = 0, !.state = state]
    BY <1>2 DEF Ingested
  <2>2. /\ state \in States
        /\ state = "INVALID" <=> r.state = "INVALID"
        /\ state = "TESTING" <=> r.state = "TESTING"
    BY DEF Sound, Rows, States, Lifecycles
  <2>. HIDE DEF state
  <2>. QED
    BY <1>0, <2>1, <2>2 DEF Sound, Rows
<1>. QED
  BY <1>1, <1>2

LEMMA CopiedSound == ASSUME NEW r, Sound(r) PROVE Sound(Copied(r))
<1>1. 0 \in 0..RetireAfter
  BY RetireAfterAssumption
<1>2. CASE r.state = Absent
  BY <1>2 DEF Copied
<1>3. CASE r.state # Absent
  BY <1>1, <1>3 DEF Copied, Sound, Rows
<1>. QED
  BY <1>2, <1>3

LEMMA ReconciledSound ==
  ASSUME NEW r, Sound(r), NEW aged \in BOOLEAN
  PROVE  Sound(Reconciled(r, aged))
<1>1. Sound(Missed(r))
  <2>1. CASE r.state # Absent /\ ~r.seen /\ ~r.manual /\ r.missing < RetireAfter
    <3>1. r.missing + 1 \in 0..RetireAfter
      BY <2>1, RetireAfterAssumption DEF Sound, Rows
    <3>. QED
      BY <2>1, <3>1 DEF Missed, Sound, Rows
  <2>2. CASE ~(r.state # Absent /\ ~r.seen /\ ~r.manual /\ r.missing < RetireAfter)
    BY <2>2 DEF Missed
  <2>. QED
    BY <2>1, <2>2
<1>2. CASE aged /\ Retirable(Missed(r))
  <2>. DEFINE m == Missed(r)
  <2>1. Reconciled(r, aged) = [m EXCEPT !.state = "RETIRED"]
    BY <1>2 DEF Reconciled
  <2>2. m.state \notin {"INVALID"}
    BY <1>2 DEF Retirable
  <2>. HIDE DEF m
  <2>. QED
    BY <1>1, <2>1, <2>2 DEF Sound, Rows, States, Lifecycles, m
<1>3. CASE ~(aged /\ Retirable(Missed(r)))
  BY <1>1, <1>3 DEF Reconciled
<1>. QED
  BY <1>2, <1>3

LEMMA RevivedSound ==
  ASSUME NEW r, Sound(r), Revivable(r) PROVE Sound(Revived(r))
BY DEF Sound, Revived, Revivable, Rows, States, Lifecycles, Null

LEMMA DormantRevivedSound ==
  ASSUME NEW r, Sound(r) PROVE Sound(DormantRevived(r))
BY DEF Sound, DormantRevived, Rows, States, Lifecycles

LEMMA NoRowSound == Sound(NoRow)
BY RetireAfterAssumption
   DEF Sound, NoRow, Rows, States, Lifecycles, Null, Absent

(***************************************************************************)
(* What the writers other than the scheduler may do to a row: refresh,     *)
(* operator and clock, but for the deletion of a retired row.              *)
(***************************************************************************)
Touched(r, s) ==
  \/ s = r
  \/ s = [r EXCEPT !.seen = FALSE]
  \/ s = Copied(r)
  \/ \E manually \in BOOLEAN : s = Ingested(r, manually)
  \/ \E aged \in BOOLEAN : s = Reconciled(r, aged)
  \/ Revivable(r) /\ s = Revived(r)
  \/ s = DormantRevived(r)
  \/ s = [r EXCEPT !.claimed = FALSE]
  \/ s = [r EXCEPT !.leased = FALSE]

\* A row the scheduler has selected stays one it can claim.
Pickable(r) ==
  \/ r.state \in Queues \cup {"RETIRED"}
  \/ r.state = "WAITING_FOR_PORT" /\ r.waiting \in Queues

LEMMA TouchedSound ==
  ASSUME NEW r, NEW s, Sound(r), Touched(r, s) PROVE Sound(s)
<1>1. Sound([r EXCEPT !.seen = FALSE])
  BY DEF Sound, Rows
<1>2. Sound([r EXCEPT !.claimed = FALSE])
  BY DEF Sound, Rows
<1>3. Sound([r EXCEPT !.leased = FALSE])
  BY DEF Sound, Rows
<1>. QED
  BY <1>1, <1>2, <1>3, CopiedSound, IngestedSound, ReconciledSound, RevivedSound,
     DormantRevivedSound DEF Touched

\* They leave execution states alone, but for retiring a row.
LEMMA TouchedState ==
  ASSUME NEW r, NEW s, Sound(r), Touched(r, s)
  PROVE  \/ s.state = r.state /\ s.from = r.from /\ s.waiting = r.waiting
         \/ /\ s.state = "RETIRED" /\ ~r.leased /\ ~r.manual
            /\ r.state \notin {"INVALID", "RETIRED", Absent}
         \/ s.state = "CANDIDATE" /\ r.state \in {Absent, "RETIRED"}
         \/ s.state = "PROBATION" /\ r.state \in {"DORMANT", "PROBATION", "CANDIDATE"}
<1>. r \in Rows
  BY DEF Sound
<1>1. CASE \/ s = [r EXCEPT !.seen = FALSE]
           \/ s = [r EXCEPT !.claimed = FALSE]
           \/ s = [r EXCEPT !.leased = FALSE]
  BY <1>1 DEF Rows
<1>2. CASE s = Copied(r)
  BY <1>2 DEF Copied, Rows
<1>3. ASSUME NEW manually \in BOOLEAN, s = Ingested(r, manually)
      PROVE  \/ s.state = r.state /\ s.from = r.from /\ s.waiting = r.waiting
             \/ s.state = "CANDIDATE" /\ r.state \in {Absent, "RETIRED"}
  BY <1>3 DEF Ingested, Rows, NewRow, NoRow
<1>4. ASSUME NEW aged \in BOOLEAN, s = Reconciled(r, aged)
      PROVE  \/ s.state = r.state /\ s.from = r.from /\ s.waiting = r.waiting
             \/ /\ s.state = "RETIRED" /\ ~r.leased /\ ~r.manual
                /\ r.state \notin {"INVALID", "RETIRED", Absent}
  <2>. DEFINE m == Missed(r)
  <2>1. /\ m.state = r.state /\ m.from = r.from /\ m.waiting = r.waiting
        /\ m.leased = r.leased
        /\ r.manual => m.missing = 0
        /\ DOMAIN m = DOMAIN r
    BY DEF Missed, Sound, Rows
  <2>2. m \in Rows
    BY ReconciledSound, <2>1, RetireAfterAssumption DEF Missed, Sound, Rows
  <2>3. CASE aged /\ Retirable(m)
    <3>1. s = [m EXCEPT !.state = "RETIRED"]
      BY <1>4, <2>3 DEF Reconciled
    <3>2. s.state = "RETIRED"
      BY <2>2, <3>1 DEF Rows
    <3>3. /\ m.state \notin {"INVALID", "RETIRED", Absent} /\ ~m.leased
          /\ m.missing # 0
      BY <2>3, RetireAfterAssumption DEF Retirable
    <3>. QED
      BY <2>1, <3>2, <3>3
  <2>4. CASE ~(aged /\ Retirable(m))
    BY <1>4, <2>1, <2>4 DEF Reconciled
  <2>. QED
    BY <2>3, <2>4
<1>5. CASE Revivable(r) /\ s = Revived(r)
  BY <1>5 DEF Revivable, Revived, Rows
<1>6. CASE s = DormantRevived(r)
  BY <1>6 DEF DormantRevived, Rows
<1>. QED
  BY <1>1, <1>2, <1>3, <1>4, <1>5, <1>6 DEF Touched

(***************************************************************************)
(* The inductive invariant.                                                *)
(***************************************************************************)
\* The scheduler task does one thing at a time, about rows that exist.
Orderly ==
  /\ picked # {} => pc = "claiming"
  /\ work # NoWork =>
       pc = "working" /\ work.node \in Nodes /\ jobs[work.node] > 0
  /\ \A n \in Nodes :
       /\ Sound(row[n])
       /\ n \in picked => Pickable(row[n])
       /\ n \in picked \/ jobs[n] > 0 => row[n].state # Absent

IInv == TypeOK /\ Orderly

\* The steps that leave the scheduler alone and may only touch rows.
OtherStep ==
  \/ RefreshStep
  \/ \E n \in Nodes : ReviveNode(n) \/ ManualImport(n)
  \/ ReviveDormant
  \/ Expiry

TouchingStep ==
  /\ \A n \in Nodes : Touched(row[n], row'[n])
  /\ row' = [n \in Nodes |-> row'[n]]
  /\ refresh' \in [phase : {"idle", "fetching", "ingested"}, failed : BOOLEAN]
  /\ UNCHANGED << pc, round, picked, jobs, work >>

LEMMA UpdateTouches ==
  ASSUME TypeOK, NEW n \in Nodes, NEW r, Touched(row[n], r), Update(n, r),
         UNCHANGED << pc, round, picked, jobs, work, refresh >>
  PROVE  TouchingStep
BY DEF TypeOK, Update, Touched, TouchingStep

LEMMA OtherStepTouches == ASSUME TypeOK, OtherStep PROVE TouchingStep
<1>. row = [n \in Nodes |-> row[n]]
  BY DEF TypeOK
<1>. refresh \in [phase : {"idle", "fetching", "ingested"}, failed : BOOLEAN]
  BY DEF TypeOK
<1>1. CASE StartRefresh
  BY <1>1 DEF StartRefresh, Touched, TouchingStep
<1>2. CASE SourceFails \/ RefreshFails
  <2>1. UNCHANGED << row, pc, round, picked, jobs, work >>
    BY <1>2 DEF SourceFails, RefreshFails
  <2>2. refresh' \in [phase : {"idle", "fetching", "ingested"}, failed : BOOLEAN]
    <3>1. CASE SourceFails
      BY <3>1 DEF SourceFails
    <3>2. CASE RefreshFails
      BY <3>2 DEF RefreshFails, Resting
    <3>. QED
      BY <1>2, <3>1, <3>2
  <2>. QED
    BY <2>1, <2>2 DEF Touched, TouchingStep
<1>3. ASSUME NEW S \in SUBSET Nodes, CopyCached(S) PROVE TouchingStep
  <2>1. \A n \in Nodes : row'[n] = Copied(row[n]) \/ row'[n] = row[n]
    BY <1>3 DEF CopyCached
  <2>2. \A n \in Nodes : Touched(row[n], row'[n])
    BY <2>1 DEF Touched
  <2>. QED
    BY <1>3, <2>2 DEF CopyCached, TouchingStep
<1>4. ASSUME NEW S \in SUBSET Nodes, Ingest(S) PROVE TouchingStep
  <2>1. \A n \in Nodes : row'[n] = Ingested(row[n], FALSE) \/ row'[n] = row[n]
    BY <1>4 DEF Ingest
  <2>2. \A n \in Nodes : Touched(row[n], row'[n])
    BY <2>1 DEF Touched
  <2>3. /\ row' = [n \in Nodes |-> row'[n]]
        /\ UNCHANGED << pc, round, picked, jobs, work >>
    BY <1>4 DEF Ingest
  <2>4. refresh' \in [phase : {"idle", "fetching", "ingested"}, failed : BOOLEAN]
    BY <1>4 DEF Ingest
  <2>. QED
    BY <2>2, <2>3, <2>4 DEF TouchingStep
<1>5. ASSUME NEW S \in SUBSET Nodes, FinishRefresh(S) PROVE TouchingStep
  <2>1. CASE refresh.failed
    BY <1>5, <2>1 DEF FinishRefresh, Resting, Touched, TouchingStep
  <2>2. CASE ~refresh.failed
    <3>1. row' = [n \in Nodes |-> Reconciled(row[n], n \in S)]
      BY <1>5, <2>2 DEF FinishRefresh
    <3>2. \A n \in Nodes : Touched(row[n], row'[n])
      <4>. TAKE n \in Nodes
      <4>. DEFINE aged == n \in S
      <4>1. aged \in BOOLEAN /\ row'[n] = Reconciled(row[n], aged)
        BY <3>1
      <4>. HIDE DEF aged
      <4>. QED
        BY <4>1 DEF Touched
    <3>. QED
      BY <1>5, <3>1, <3>2 DEF FinishRefresh, Resting, TouchingStep
  <2>. QED
    BY <2>1, <2>2
<1>6. ASSUME NEW n \in Nodes, ReviveNode(n) PROVE TouchingStep
  BY <1>6, UpdateTouches DEF ReviveNode, Touched
<1>7. ASSUME NEW n \in Nodes, ManualImport(n) PROVE TouchingStep
  BY <1>7, UpdateTouches DEF ManualImport, Touched
<1>8. CASE ReviveDormant
  BY <1>8 DEF ReviveDormant, Touched, TouchingStep
<1>9. ASSUME NEW n \in Nodes, TestLeaseExpires(n) PROVE TouchingStep
  BY <1>9, UpdateTouches DEF TestLeaseExpires, Touched
<1>10. ASSUME NEW n \in Nodes, PublicationLeaseExpires(n) PROVE TouchingStep
  BY <1>10, UpdateTouches DEF PublicationLeaseExpires, Touched
<1>. QED
  BY <1>1, <1>2, <1>3, <1>4, <1>5, <1>6, <1>7, <1>8, <1>9, <1>10
     DEF OtherStep, RefreshStep, Expiry

LEMMA NextCases ==
  ASSUME Next
  PROVE  SchedulerStep \/ OtherStep \/ (\E S \in SUBSET Nodes : Cleanup(S)) \/ Crash
BY DEF Next, OtherStep, OperatorStep

LEMMA InitIInv == Init => IInv
<1>. SUFFICES ASSUME Init PROVE IInv
  OBVIOUS
<1>1. TypeOK
  <2>1. NoRow \in Rows
    BY NoRowSound DEF Sound
  <2>. QED
    BY <2>1 DEF Init, TypeOK, NoJobs, NoWork, Resting, Rounds, QueueOrder
<1>2. Orderly
  BY NoRowSound DEF Init, Orderly, NoJobs
<1>. QED
  BY <1>1, <1>2 DEF IInv

(***************************************************************************)
(* The invariant is kept: by the writers that only touch rows, by each     *)
(* statement of the scheduler, by the deletion of rows, by a restart.      *)
(***************************************************************************)
LEMMA TouchingIInv == ASSUME IInv, TouchingStep PROVE IInv'
<1>1. \A n \in Nodes : Sound(row'[n])
  BY TouchedSound DEF IInv, Orderly, TouchingStep
<1>2. row' \in [Nodes -> Rows]
  BY <1>1 DEF TouchingStep, Sound
<1>3. TypeOK'
  BY <1>2 DEF IInv, TypeOK, TouchingStep
<1>4. ASSUME NEW n \in Nodes
      PROVE  /\ Pickable(row[n]) => Pickable(row'[n])
             /\ row[n].state # Absent => row'[n].state # Absent
  <2>1. Sound(row[n]) /\ Touched(row[n], row'[n])
    BY DEF IInv, Orderly, TouchingStep
  <2>. QED
    BY <2>1, TouchedState DEF Pickable, Queues, Absent
<1>5. Orderly'
  BY <1>1, <1>4 DEF IInv, Orderly, TouchingStep
<1>. QED
  BY <1>3, <1>5 DEF IInv

\* A statement of the scheduler that writes the row of n.
LEMMA RowWritten ==
  ASSUME TypeOK, NEW n \in Nodes, NEW r, Sound(r), Update(n, r)
  PROVE  /\ row' \in [Nodes -> Rows]
         /\ row'[n] = r
         /\ \A m \in Nodes : m # n => row'[m] = row[m]
BY DEF TypeOK, Update, Sound

\* The report loses its first event.
LEMMA TailOfWork ==
  ASSUME TypeOK, work.events # << >>,
         work' = [work EXCEPT !.events = Tail(work.events)]
  PROVE  /\ work' \in [node : Nodes \cup {NoNode}, events : Seq(Events), full : BOOLEAN]
         /\ work'.node = work.node
<1>1. Tail(work.events) \in Seq(Events)
  <2>1. work.events \in Seq(Events)
    BY DEF TypeOK
  <2>. QED
    BY <2>1, HeadTailProperties
<1>. QED
  BY <1>1 DEF TypeOK

LEMMA SchedulerIInv == ASSUME IInv, SchedulerStep PROVE IInv'
<1>. USE DEF IInv
<1>1. ASSUME NEW k \in 1..Rounds, NEW S \in SUBSET Nodes, ClaimSelect(k, S)
      PROVE  IInv'
  <2>1. TypeOK'
    BY <1>1 DEF ClaimSelect, TypeOK, Rounds, QueueOrder
  <2>2. ASSUME NEW n \in S
        PROVE  Pickable(row[n]) /\ row[n].state # Absent
    <3>1. QueueOf(k) \in Queues
      BY DEF QueueOf, QueueOrder, Rounds, Queues
    <3>2. Eligible(row[n], QueueOf(k))
      BY <1>1 DEF ClaimSelect
    <3>. QED
      BY <3>1, <3>2 DEF Eligible, Pickable, Queues, Absent
  <2>3. Orderly'
    BY <1>1, <2>2 DEF ClaimSelect, Orderly, TypeOK
  <2>. QED
    BY <2>1, <2>3
<1>2. ASSUME NEW n \in Nodes, ClaimUpdate(n) PROVE IInv'
  <2>1. CASE Claimable(row[n])
    <3>1. Pickable(row[n]) /\ Sound(row[n]) /\ pc = "claiming" /\ work = NoWork
      BY <1>2 DEF ClaimUpdate, Orderly
    <3>2. Sound(Claim(row[n]))
      BY <3>1, ClaimSound DEF Pickable
    <3>3. Claim(row[n]).state # Absent
      BY <3>1 DEF Sound, Rows, Claim, Absent
    <3>4. /\ row' \in [Nodes -> Rows]
          /\ row'[n] = Claim(row[n])
          /\ \A m \in Nodes : m # n => row'[m] = row[m]
      BY <1>2, <2>1, <3>2, RowWritten DEF ClaimUpdate
    <3>5. TypeOK'
      <4>1. jobs' \in [Nodes -> Nat]
        BY <1>2, <2>1 DEF ClaimUpdate, TypeOK
      <4>2. picked' \subseteq Nodes
        BY <1>2 DEF ClaimUpdate, TypeOK
      <4>. QED
        BY <1>2, <3>4, <4>1, <4>2 DEF ClaimUpdate, TypeOK
    <3>6. Orderly'
      BY <1>2, <2>1, <3>1, <3>2, <3>3, <3>4 DEF ClaimUpdate, Orderly, TypeOK
    <3>. QED
      BY <3>5, <3>6
  <2>2. CASE ~Claimable(row[n])
    BY <1>2, <2>2 DEF ClaimUpdate, TypeOK, Orderly
  <2>. QED
    BY <2>1, <2>2
<1>3. CASE ClaimDone
  BY <1>3 DEF ClaimDone, TypeOK, Orderly, Rounds, QueueOrder
<1>4. CASE ClaimFails
  BY <1>4 DEF ClaimFails, TypeOK, Orderly, Rounds, QueueOrder, NoJobs
<1>5. ASSUME NEW n \in Nodes, NEW report \in Probes, NEW full \in BOOLEAN,
             TakeReport(n, report, full)
      PROVE  IInv'
  <2>1. report \in Seq(Events)
    BY FleetConstants
  <2>. QED
    BY <1>5, <2>1 DEF TakeReport, TypeOK, Orderly
<1>6. ASSUME NEW v \in Lifecycles \cup {"WAITING_FOR_PORT"}, ApplyEvent(v)
      PROVE  IInv'
  <2>. DEFINE n == work.node
              e == Head(work.events)
              r == Applied(row[n], e, v)
  <2>1. /\ n \in Nodes /\ jobs[n] > 0 /\ pc = "working" /\ picked = {}
        /\ Sound(row[n]) /\ row[n].state # Absent
    BY <1>6 DEF ApplyEvent, Orderly
  <2>2. Sound(r)
    BY <1>6, <2>1, AppliedSound DEF ApplyEvent
  <2>3. r.state # Absent
    BY <2>1 DEF Applied, Lifecycles, Absent, Sound, Rows
  <2>4. /\ row' \in [Nodes -> Rows]
        /\ row'[n] = r
        /\ \A m \in Nodes : m # n => row'[m] = row[m]
    <3>1. Update(n, r)
      BY <1>6 DEF ApplyEvent
    <3>. HIDE DEF r, n
    <3>. QED
      BY <2>1, <2>2, <3>1, RowWritten
  <2>5. work' = [work EXCEPT !.events = Tail(work.events)]
    BY <1>6 DEF ApplyEvent
  <2>6. /\ work' \in [node : Nodes \cup {NoNode}, events : Seq(Events), full : BOOLEAN]
        /\ work'.node = n
    BY <1>6, <2>5, TailOfWork DEF ApplyEvent
  <2>. HIDE DEF r, e
  <2>7. TypeOK'
    BY <1>6, <2>4, <2>6 DEF ApplyEvent, TypeOK
  <2>8. Orderly'
    BY <1>6, <2>1, <2>2, <2>3, <2>4, <2>6 DEF ApplyEvent, Orderly, TypeOK
  <2>. QED
    BY <2>7, <2>8
<1>7. CASE ApplyFails
  <2>1. /\ work' \in [node : Nodes \cup {NoNode}, events : Seq(Events), full : BOOLEAN]
        /\ work'.node = work.node
    BY <1>7, TailOfWork DEF ApplyFails
  <2>. QED
    BY <1>7, <2>1 DEF ApplyFails, TypeOK, Orderly
<1>8. ASSUME NEW fails \in BOOLEAN, FinishJob(fails) PROVE IInv'
  <2>. DEFINE n == work.node
  <2>1. /\ n \in Nodes /\ jobs[n] > 0 /\ pc = "working" /\ picked = {}
        /\ Sound(row[n]) /\ row[n].state # Absent
    BY <1>8 DEF FinishJob, Orderly
  <2>2. /\ jobs' \in [Nodes -> Nat]
        /\ \A m \in Nodes : m # n => jobs'[m] = jobs[m]
    BY <1>8, <2>1 DEF FinishJob, TypeOK
  <2>3. PICK r : /\ Sound(r) /\ r.state # Absent /\ Update(n, r)
    <3>1. CASE row' = row
      BY <2>1, <3>1 DEF Update, TypeOK
    <3>2. CASE Update(n, Waiting(row[n]))
      <4>1. Waiting(row[n]).state # Absent
        BY <2>1 DEF Waiting, Sound, Rows, Absent
      <4>2. Sound(Waiting(row[n]))
        BY <2>1, WaitingSound
      <4>. HIDE DEF n
      <4>. QED
        BY <3>2, <4>1, <4>2
    <3>3. CASE Update(n, Released(row[n]))
      <4>1. Released(row[n]).state # Absent
        BY <2>1 DEF Released, Sound, Rows, Queues, Absent, Null
      <4>. QED
        BY <2>1, <3>3, <4>1, ReleasedSound
    <3>. QED
      BY <1>8, <3>1, <3>2, <3>3 DEF FinishJob
  <2>4. /\ row' \in [Nodes -> Rows]
        /\ row'[n] = r
        /\ \A m \in Nodes : m # n => row'[m] = row[m]
    BY <2>1, <2>3, RowWritten
  <2>5. TypeOK'
    BY <1>8, <2>2, <2>4 DEF FinishJob, NoWork, TypeOK
  <2>6. Orderly'
    BY <1>8, <2>1, <2>2, <2>3, <2>4 DEF FinishJob, Orderly
  <2>. QED
    BY <2>5, <2>6
<1>9. CASE BatchDone
  BY <1>9 DEF BatchDone, NoJobs, TypeOK, Orderly
<1>. QED
  BY <1>1, <1>2, <1>3, <1>4, <1>5, <1>6, <1>7, <1>8, <1>9 DEF SchedulerStep

LEMMA NextIInv == ASSUME IInv, [Next]_vars PROVE IInv'
<1>1. CASE SchedulerStep
  BY <1>1, SchedulerIInv
<1>2. CASE OtherStep
  BY <1>2, OtherStepTouches, TouchingIInv DEF IInv
<1>3. ASSUME NEW S \in SUBSET Nodes, Cleanup(S) PROVE IInv'
  <2>1. NoRow \in Rows
    BY NoRowSound DEF Sound
  <2>2. TypeOK'
    BY <1>3, <2>1 DEF Cleanup, IInv, TypeOK
  <2>3. Orderly'
    BY <1>3, NoRowSound DEF Cleanup, IInv, Orderly, TypeOK
  <2>. QED
    BY <2>2, <2>3 DEF IInv
<1>4. CASE Crash
  <2>1. TypeOK'
    BY <1>4 DEF Crash, IInv, TypeOK, NoJobs, NoWork, Resting, Rounds, QueueOrder
  <2>2. Orderly'
    BY <1>4 DEF Crash, IInv, Orderly, NoJobs, TypeOK
  <2>. QED
    BY <2>1, <2>2 DEF IInv
<1>5. CASE UNCHANGED vars
  BY <1>5 DEF vars, IInv, TypeOK, Orderly
<1>. QED
  BY <1>1, <1>2, <1>3, <1>4, <1>5, NextCases

(***************************************************************************)
(* The invariant holds, and with it the types.                             *)
(***************************************************************************)
\* The inductive invariant holds of every run of the four writers.
THEOREM Invariant == Spec => []IInv
<1>1. Init => IInv
  BY InitIInv
<1>2. IInv /\ [Next]_vars => IInv'
  BY NextIInv
<1>. QED
  BY <1>1, <1>2, PTL DEF Spec

\* Whatever the number of proxies, every column of the nodes table keeps to
\* its values, execution states and counters included.
THEOREM TypeCorrect == Spec => []TypeOK
<1>1. IInv => TypeOK
  BY DEF IInv
<1>. QED
  BY <1>1, Invariant, PTL

(***************************************************************************)
(* What one step, whoever takes it, may do to one row.                     *)
(***************************************************************************)
\* What the scheduler may do to a row.
Scheduled(r, s) ==
  \/ Pickable(r) /\ s = Claim(r)
  \/ r.state # Absent /\ \E e \in Events :
       \E v \in Verdicts(PriorLifecycle(r), e.stage, e.class) : s = Applied(r, e, v)
  \/ s = Waiting(r)
  \/ s = Released(r)

LEMMA StepOfRow ==
  ASSUME IInv, [Next]_vars, NEW n \in Nodes
  PROVE  \/ Touched(row[n], row'[n])
         \/ Scheduled(row[n], row'[n])
         \/ row[n].state = "RETIRED" /\ row'[n] = NoRow
<1>. TypeOK
  BY DEF IInv
<1>0. ASSUME row'[n] = row[n] PROVE Touched(row[n], row'[n])
  BY <1>0 DEF Touched
<1>1. ASSUME NEW m \in Nodes, ClaimUpdate(m)
      PROVE  row'[n] = row[n] \/ Scheduled(row[n], row'[n])
  BY <1>1 DEF ClaimUpdate, Update, Scheduled, IInv, TypeOK, Orderly
<1>2. ASSUME NEW v \in Lifecycles \cup {"WAITING_FOR_PORT"}, ApplyEvent(v)
      PROVE  row'[n] = row[n] \/ Scheduled(row[n], row'[n])
  <2>. DEFINE m == work.node
              e == Head(work.events)
  <2>1. e \in Events
    BY <1>2, HeadTailProperties DEF ApplyEvent, TypeOK
  <2>2. m \in Nodes /\ row[m].state # Absent
    BY <1>2 DEF ApplyEvent, IInv, Orderly
  <2>3. /\ v \in Verdicts(PriorLifecycle(row[m]), e.stage, e.class)
        /\ row' = [row EXCEPT ![m] = Applied(row[m], e, v)]
    BY <1>2 DEF ApplyEvent, Update
  <2>. HIDE DEF m, e
  <2>4. CASE n = m
    BY <2>1, <2>2, <2>3, <2>4 DEF Scheduled, TypeOK
  <2>5. CASE n # m
    BY <2>3, <2>5 DEF TypeOK
  <2>. QED
    BY <2>4, <2>5
<1>3. ASSUME NEW fails \in BOOLEAN, FinishJob(fails)
      PROVE  row'[n] = row[n] \/ Scheduled(row[n], row'[n])
  BY <1>3 DEF FinishJob, Update, Scheduled, IInv, TypeOK, Orderly
<1>4. CASE SchedulerStep
  <2>1. \/ row' = row
        \/ \E m \in Nodes : ClaimUpdate(m)
        \/ \E v \in Lifecycles \cup {"WAITING_FOR_PORT"} : ApplyEvent(v)
        \/ \E fails \in BOOLEAN : FinishJob(fails)
    BY <1>4 DEF SchedulerStep, ClaimSelect, ClaimDone, ClaimFails, TakeReport,
                ApplyFails, BatchDone
  <2>. QED
    BY <1>0, <1>1, <1>2, <1>3, <2>1
<1>5. CASE OtherStep
  BY <1>5, OtherStepTouches DEF TouchingStep
<1>6. ASSUME NEW S \in SUBSET Nodes, Cleanup(S)
      PROVE  row'[n] = row[n] \/ (row[n].state = "RETIRED" /\ row'[n] = NoRow)
  BY <1>6 DEF Cleanup
<1>7. CASE Crash \/ UNCHANGED vars
  BY <1>0, <1>7 DEF Crash, vars
<1>. QED
  BY <1>0, <1>4, <1>5, <1>6, <1>7, NextCases

LEMMA ScheduledKeepsInvalid ==
  ASSUME NEW r, NEW s, Sound(r), Scheduled(r, s), ~r.valid
  PROVE  ~s.valid
<1>. r \in Rows /\ r.state = "INVALID"
  BY DEF Sound
<1>1. ~Pickable(r)
  BY DEF Pickable, Queues
<1>2. Waiting(r) = r /\ Released(r) = r
  BY DEF Waiting, Released
<1>3. ASSUME NEW e, NEW v, s = Applied(r, e, v) PROVE ~s.valid
  BY <1>3 DEF Applied, Rows
<1>. QED
  BY <1>1, <1>2, <1>3 DEF Scheduled

\* No statement of the scheduler retires a proxy, execution states looked
\* through.
LEMMA ScheduledNeverRetires ==
  ASSUME NEW r, NEW s, Sound(r), Scheduled(r, s), Effective(r) # "RETIRED"
  PROVE  Effective(s) # "RETIRED"
<1>. r \in Rows
  BY DEF Sound
<1>1. CASE Pickable(r) /\ s = Claim(r)
  BY <1>1 DEF Pickable, Claim, Effective, Rows, Queues, Null
<1>2. ASSUME r.state # Absent, NEW e \in Events,
             NEW v \in Verdicts(PriorLifecycle(r), e.stage, e.class),
             s = Applied(r, e, v)
      PROVE  Effective(s) # "RETIRED"
  <2>1. PriorLifecycle(r) \in
          Queues \cup {"RETIRED", "INVALID", "WAITING_FOR_PORT"}
    BY <1>2 DEF Sound, PriorLifecycle, Rows, States, Lifecycles, Queues
  <2>2. /\ v \in Queues \cup {"RETIRED", "INVALID", "WAITING_FOR_PORT"}
        /\ v = "RETIRED" => PriorLifecycle(r) = "RETIRED"
        /\ v = "WAITING_FOR_PORT" => PriorLifecycle(r) = "WAITING_FOR_PORT"
    BY <2>1, VerdictsOfLifecycle
  <2>3. s.state = v /\ s.waiting = r.waiting
    BY <1>2 DEF Applied, Rows
  <2>4. PriorLifecycle(r) # "RETIRED"
    BY DEF PriorLifecycle, Effective
  <2>5. PriorLifecycle(r) = "WAITING_FOR_PORT" => r.state = "WAITING_FOR_PORT"
    BY DEF PriorLifecycle, Sound, Queues
  <2>. QED
    BY <2>2, <2>3, <2>4, <2>5 DEF Effective, Queues
<1>3. CASE s = Waiting(r)
  BY <1>3 DEF Waiting, Effective, Rows
<1>4. CASE s = Released(r)
  BY <1>4 DEF Released, Effective, Sound, Rows, Queues
<1>. QED
  BY <1>1, <1>2, <1>3, <1>4 DEF Scheduled

(***************************************************************************)
(* What a step may never do.                                               *)
(***************************************************************************)
\* A proxy once found invalid stays so, through refreshes, imports, revivals,
\* claims, late reports and restarts: of all the statements only the deletion
\* of retired rows ends an identity, and an invalid row is never retired.
THEOREM InvalidStays == Spec => InvalidIsForever
<1>1. ASSUME IInv, [Next]_vars
      PROVE  \A n \in Nodes : ~row[n].valid => row'[n].state = "INVALID"
  <2>. SUFFICES ASSUME NEW n \in Nodes, ~row[n].valid
                PROVE  row'[n].state = "INVALID"
    OBVIOUS
  <2>1. IInv'
    BY <1>1, NextIInv
  <2>2. Sound(row[n]) /\ row[n].state = "INVALID" /\ Sound(row'[n])
    BY <1>1, <2>1 DEF IInv, Orderly, Sound
  <2>3. CASE Touched(row[n], row'[n])
    BY <2>2, <2>3, TouchedState DEF Absent
  <2>4. CASE Scheduled(row[n], row'[n])
    BY <2>2, <2>4, ScheduledKeepsInvalid DEF Sound
  <2>. QED
    BY <1>1, <2>2, <2>3, <2>4, StepOfRow
<1>2. IInv /\ [Next]_vars =>
        [\A n \in Nodes : ~row[n].valid => row'[n].state = "INVALID"]_vars
  BY <1>1
<1>. QED
  BY <1>2, Invariant, PTL DEF Spec, InvalidIsForever

\* A proxy the operator imported is not retired by any statement: imports
\* keep its absence count at zero, and every retirement asks for an absence.
THEOREM ManualStays == Spec => ManualNeverRetires
<1>1. ASSUME IInv, [Next]_vars
      PROVE  \A n \in Nodes :
               row[n].manual /\ Effective(row[n]) # "RETIRED" =>
                 Effective(row'[n]) # "RETIRED"
  <2>. SUFFICES ASSUME NEW n \in Nodes, row[n].manual, Effective(row[n]) # "RETIRED"
                PROVE  Effective(row'[n]) # "RETIRED"
    OBVIOUS
  <2>1. Sound(row[n])
    BY <1>1 DEF IInv, Orderly
  <2>2. CASE Touched(row[n], row'[n])
    BY <2>1, <2>2, TouchedState DEF Effective
  <2>3. CASE Scheduled(row[n], row'[n])
    BY <2>1, <2>3, ScheduledNeverRetires
  <2>4. CASE row[n].state = "RETIRED"
    BY <2>4 DEF Effective
  <2>. QED
    BY <1>1, <2>2, <2>3, <2>4, StepOfRow
<1>2. IInv /\ [Next]_vars =>
        [\A n \in Nodes :
           row[n].manual /\ Effective(row[n]) # "RETIRED" =>
             Effective(row'[n]) # "RETIRED"]_vars
  BY <1>1
<1>. QED
  BY <1>2, Invariant, PTL DEF Spec, ManualNeverRetires

(***************************************************************************)
(* A row under test that no job is about.                                  *)
(***************************************************************************)
Stranded(n) == row[n].state = "TESTING" /\ jobs[n] = 0

\* Every job that is put an end to as it should be takes its row out of TESTING.
LEMMA WhatStrands ==
  ASSUME IInv, [Next]_vars, NEW n \in Nodes, ~Stranded(n), Stranded(n)'
  PROVE  Crash \/ ClaimFails \/ FinishJob(TRUE)
<1>. Sound(row[n]) /\ TypeOK
  BY DEF IInv, Orderly
<1>. SUFFICES ASSUME ~Crash, ~ClaimFails, ~FinishJob(TRUE) PROVE FALSE
  OBVIOUS
<1>1. row'[n].state = "TESTING" /\ jobs'[n] = 0
  BY DEF Stranded
<1>2. ASSUME jobs'[n] = jobs[n], row'[n] = row[n] PROVE FALSE
  BY <1>1, <1>2 DEF Stranded
<1>3. ASSUME NEW m \in Nodes, ClaimUpdate(m) PROVE FALSE
  <2>1. CASE n = m
    BY <1>1, <1>2, <1>3, <2>1 DEF ClaimUpdate, TypeOK
  <2>2. CASE n # m
    BY <1>2, <1>3, <2>2 DEF ClaimUpdate, Update, TypeOK
  <2>. QED
    BY <2>1, <2>2
<1>4. ASSUME NEW v \in Lifecycles \cup {"WAITING_FOR_PORT"}, ApplyEvent(v) PROVE FALSE
  <2>1. \/ row'[n] = row[n]
        \/ \E e : row'[n] = Applied(row[n], e, v)
    BY <1>4 DEF ApplyEvent, Update, TypeOK
  <2>2. \A e : Applied(row[n], e, v).state = v
    BY DEF Applied, Sound, Rows
  <2>. QED
    BY <1>1, <1>2, <1>4, <2>1, <2>2 DEF ApplyEvent, Lifecycles
<1>5. CASE FinishJob(FALSE)
  <2>1. CASE n = work.node
    <3>1. row'[n] \in {Waiting(row[n]), Released(row[n])}
      BY <1>5, <2>1 DEF FinishJob, Update, TypeOK
    <3>2. Waiting(row[n]).state # "TESTING"
      BY DEF Waiting, Sound, Rows, Absent
    <3>3. Released(row[n]).state # "TESTING"
      BY DEF Released, Sound, Rows, Queues, Null
    <3>. QED
      BY <1>1, <3>1, <3>2, <3>3
  <2>2. CASE n # work.node
    BY <1>2, <1>5, <2>2 DEF FinishJob, Update, TypeOK
  <2>. QED
    BY <2>1, <2>2
<1>6. CASE SchedulerStep
  <2>1. \/ UNCHANGED << row, jobs >>
        \/ \E m \in Nodes : ClaimUpdate(m)
        \/ \E v \in Lifecycles \cup {"WAITING_FOR_PORT"} : ApplyEvent(v)
        \/ FinishJob(FALSE)
    BY <1>6 DEF SchedulerStep, ClaimSelect, ClaimDone, TakeReport, ApplyFails, BatchDone
  <2>. QED
    BY <1>2, <1>3, <1>4, <1>5, <2>1
<1>7. CASE OtherStep
  <2>1. Touched(row[n], row'[n]) /\ jobs' = jobs
    BY <1>7, OtherStepTouches DEF TouchingStep
  <2>. QED
    BY <1>1, <2>1, TouchedState DEF Stranded
<1>8. ASSUME NEW S \in SUBSET Nodes, Cleanup(S) PROVE FALSE
  BY <1>1, <1>2, <1>8 DEF Cleanup, NoRow, Absent
<1>9. CASE UNCHANGED vars
  BY <1>2, <1>9 DEF vars
<1>. QED
  BY <1>6, <1>7, <1>8, <1>9, NextCases

\* An import of the operator stays one as long as the row does.
LEMMA TouchedKeepsManual ==
  ASSUME NEW r, NEW s, Sound(r), Touched(r, s), r.manual, r.state # Absent
  PROVE  s.manual
<1>. r \in Rows
  BY DEF Sound
<1>1. /\ Copied(r).manual /\ DormantRevived(r).manual /\ Revived(r).manual
      /\ \A manually \in BOOLEAN : Ingested(r, manually).manual
  BY DEF Copied, DormantRevived, Revived, Ingested, Rows
<1>2. \A aged \in BOOLEAN : Reconciled(r, aged).manual
  BY DEF Reconciled, Missed, Rows
<1>. QED
  BY <1>1, <1>2 DEF Touched, Rows

\* No query claims such a row, no report is about it, no request revives it: the
\* only statement that takes it out of TESTING retires it.
LEMMA StrandedStays ==
  ASSUME IInv, [Next]_vars, NEW n \in Nodes, Stranded(n)
  PROVE  \/ Stranded(n)' /\ (row[n].manual => row'[n].manual)
         \/ row'[n].state = "RETIRED" /\ ~row[n].leased /\ ~row[n].manual
<1>. Sound(row[n]) /\ TypeOK
  BY DEF IInv, Orderly
<1>1. row[n].state = "TESTING" /\ jobs[n] = 0 /\ n \notin picked
  BY DEF Stranded, IInv, Orderly, Pickable, Queues
<1>2. ASSUME jobs'[n] = 0, row'[n] = row[n] PROVE Stranded(n)' /\ (row[n].manual => row'[n].manual)
  BY <1>1, <1>2 DEF Stranded
<1>3. CASE SchedulerStep
  <2>1. row'[n] = row[n] /\ jobs'[n] = 0
    <3>1. ASSUME NEW m \in Nodes, ClaimUpdate(m) PROVE row'[n] = row[n] /\ jobs'[n] = 0
      BY <1>1, <3>1 DEF ClaimUpdate, Update, TypeOK
    <3>2. work # NoWork => work.node # n
      BY <1>1 DEF IInv, Orderly
    <3>3. ASSUME NEW v \in Lifecycles \cup {"WAITING_FOR_PORT"}, ApplyEvent(v)
          PROVE  row'[n] = row[n] /\ jobs'[n] = 0
      BY <1>1, <3>2, <3>3 DEF ApplyEvent, Update, TypeOK
    <3>4. ASSUME NEW fails \in BOOLEAN, FinishJob(fails) PROVE row'[n] = row[n] /\ jobs'[n] = 0
      BY <1>1, <3>2, <3>4 DEF FinishJob, Update, TypeOK
    <3>5. ASSUME UNCHANGED row, jobs' \in {jobs, NoJobs} PROVE row'[n] = row[n] /\ jobs'[n] = 0
      BY <1>1, <3>5 DEF NoJobs
    <3>. QED
      BY <1>3, <3>1, <3>3, <3>4, <3>5
         DEF SchedulerStep, ClaimSelect, ClaimDone, ClaimFails, TakeReport, ApplyFails, BatchDone
  <2>. QED
    BY <1>2, <2>1
<1>4. CASE OtherStep
  <2>1. Touched(row[n], row'[n]) /\ jobs' = jobs
    BY <1>4, OtherStepTouches DEF TouchingStep
  <2>2. \/ row'[n].state = "TESTING"
        \/ row'[n].state = "RETIRED" /\ ~row[n].leased /\ ~row[n].manual
    BY <1>1, <2>1, TouchedState DEF Absent
  <2>3. row[n].manual => row'[n].manual
    BY <1>1, <2>1, TouchedKeepsManual DEF Absent
  <2>. QED
    BY <1>1, <2>1, <2>2, <2>3 DEF Stranded
<1>5. ASSUME NEW S \in SUBSET Nodes, Cleanup(S) PROVE row'[n] = row[n] /\ jobs'[n] = 0
  BY <1>1, <1>5 DEF Cleanup
<1>6. CASE Crash \/ UNCHANGED vars
  BY <1>1, <1>2, <1>6 DEF Crash, vars, NoJobs
<1>. QED
  BY <1>2, <1>3, <1>4, <1>5, <1>6, NextCases

\* What a killed process or a failing statement leaves under test stays there
\* through every later claim, refresh, request and restart, an expired test lease
\* notwithstanding, unless a refresh retires it, which it does to no manual
\* import; and nothing else leaves a row so (claim_due, release_test_lease).
THEOREM StrandedForGood ==
  Spec => [][\A n \in Nodes :
               /\ Stranded(n) =>
                    \/ Stranded(n)' /\ (row[n].manual => row'[n].manual)
                    \/ row'[n].state = "RETIRED" /\ ~row[n].leased /\ ~row[n].manual
               /\ ~Stranded(n) /\ Stranded(n)' => Crash \/ ClaimFails \/ FinishJob(TRUE)]_vars
<1>. DEFINE A == \A n \in Nodes :
               /\ Stranded(n) =>
                    \/ Stranded(n)' /\ (row[n].manual => row'[n].manual)
                    \/ row'[n].state = "RETIRED" /\ ~row[n].leased /\ ~row[n].manual
               /\ ~Stranded(n) /\ Stranded(n)' => Crash \/ ClaimFails \/ FinishJob(TRUE)
<1>1. IInv /\ [Next]_vars => [A]_vars
  BY WhatStrands, StrandedStays
<1>. QED
  BY <1>1, Invariant, PTL DEF Spec

\* Where neither happens, every row under test has a job that will put it back:
\* what TestsEnd rests on (release_test_lease, mark_waiting_for_port).
THEOREM TestsHaveJobs ==
  ASSUME ~Crashes, ~LockedWrites
  PROVE  Spec => [](\A n \in Nodes : row[n].state = "TESTING" => jobs[n] > 0)
<1>. DEFINE None == \A n \in Nodes : ~Stranded(n)
<1>1. Init => None
  BY DEF Init, Stranded, NoRow, Absent
<1>2. IInv /\ None /\ [Next]_vars => None'
  <2>1. ~Crash /\ ~ClaimFails /\ ~FinishJob(TRUE)
    BY DEF Crash, ClaimFails, FinishJob
  <2>. QED
    BY <2>1, WhatStrands
<1>3. IInv /\ None => \A n \in Nodes : row[n].state = "TESTING" => jobs[n] > 0
  BY DEF IInv, TypeOK, Stranded
<1>. HIDE DEF None
<1>. QED
  BY <1>1, <1>2, <1>3, Invariant, PTL DEF Spec

(***************************************************************************)
(* One job per node.  While a batch is being claimed the leases of its     *)
(* rows run, and a running lease is all that keeps a row from being        *)
(* claimed again: its state may have changed.                              *)
(***************************************************************************)
Guarded(n) ==
  /\ jobs[n] <= 1
  /\ pc = "idle" => jobs[n] = 0
  /\ pc = "claiming" /\ jobs[n] > 0 => row[n].claimed

LEMMA MissedKeepsLease ==
  ASSUME NEW r \in Rows
  PROVE  /\ Missed(r) \in Rows
         /\ Missed(r).leased = r.leased /\ Missed(r).claimed = r.claimed
<1>1. CASE r.state # Absent /\ ~r.seen /\ ~r.manual /\ r.missing < RetireAfter
  <2>1. r.missing + 1 \in 0..RetireAfter
    BY <1>1, RetireAfterAssumption DEF Rows
  <2>. QED
    BY <1>1, <2>1 DEF Missed, Rows
<1>2. CASE ~(r.state # Absent /\ ~r.seen /\ ~r.manual /\ r.missing < RetireAfter)
  BY <1>2 DEF Missed
<1>. QED
  BY <1>1, <1>2

\* The writers that only touch rows do not end such a lease.
LEMMA OthersKeepLeases ==
  ASSUME IInv, OtherStep, RevivesWait, NEW n \in Nodes,
         pc = "claiming", jobs[n] > 0, row[n].claimed
  PROVE  row'[n].claimed
<1>. DEFINE r == row[n]
            s == row'[n]
<1>. r \in Rows /\ r.state # Absent /\ TypeOK
  BY DEF IInv, TypeOK, Orderly
<1>1. CASE StartRefresh
  BY <1>1 DEF StartRefresh, Rows
<1>2. CASE SourceFails \/ RefreshFails
  BY <1>2 DEF SourceFails, RefreshFails
<1>3. ASSUME NEW S \in SUBSET Nodes, CopyCached(S) PROVE s.claimed
  BY <1>3 DEF CopyCached, Copied, Rows
<1>4. ASSUME NEW S \in SUBSET Nodes, Ingest(S) PROVE s.claimed
  BY <1>4 DEF Ingest, Ingested, Rows
<1>5. ASSUME NEW S \in SUBSET Nodes, FinishRefresh(S) PROVE s.claimed
  <2>1. s = r \/ s = Reconciled(r, n \in S)
    BY <1>5 DEF FinishRefresh
  <2>2. s = r \/ s = Missed(r) \/ s = [Missed(r) EXCEPT !.state = "RETIRED"]
    BY <2>1 DEF Reconciled
  <2>3. Missed(r) \in Rows /\ Missed(r).claimed = r.claimed
    BY MissedKeepsLease
  <2>. QED
    BY <2>2, <2>3 DEF Rows
<1>6. ASSUME NEW m \in Nodes, ReviveNode(m) PROVE s.claimed
  <2>1. m # n
    BY <1>6 DEF RevivesWait
  <2>. QED
    BY <1>6, <2>1 DEF ReviveNode, Update
<1>7. ASSUME NEW m \in Nodes, ManualImport(m) PROVE s.claimed
  BY <1>7 DEF ManualImport, Update, TypeOK, Ingested, Rows
<1>8. CASE ReviveDormant
  BY <1>8 DEF ReviveDormant, DormantRevived, Rows
<1>9. ASSUME NEW m \in Nodes, TestLeaseExpires(m) PROVE s.claimed
  BY <1>9 DEF TestLeaseExpires
<1>10. ASSUME NEW m \in Nodes, PublicationLeaseExpires(m) PROVE s.claimed
  BY <1>10 DEF PublicationLeaseExpires, Update, TypeOK, Rows
<1>. QED
  BY <1>1, <1>2, <1>3, <1>4, <1>5, <1>6, <1>7, <1>8, <1>9, <1>10
     DEF OtherStep, RefreshStep, Expiry

LEMMA GuardedKept ==
  ASSUME IInv, [Next]_vars, [RevivesWait]_vars, NEW n \in Nodes, Guarded(n)
  PROVE  Guarded(n)'
<1>. TypeOK /\ row[n] \in Rows
  BY DEF IInv, TypeOK
<1>1. CASE OtherStep
  <2>1. UNCHANGED << pc, jobs >>
    BY <1>1, OtherStepTouches DEF TouchingStep
  <2>2. CASE RevivesWait
    BY <1>1, <2>1, <2>2, OthersKeepLeases DEF Guarded
  <2>3. CASE UNCHANGED vars
    BY <2>3 DEF vars, Guarded
  <2>. QED
    BY <2>2, <2>3
<1>2. ASSUME NEW k \in 1..Rounds, NEW S \in SUBSET Nodes, ClaimSelect(k, S)
      PROVE  Guarded(n)'
  BY <1>2 DEF ClaimSelect, Guarded
<1>3. ASSUME NEW m \in Nodes, ClaimUpdate(m) PROVE Guarded(n)'
  <2>1. CASE m = n /\ Claimable(row[n])
    <3>1. jobs[n] = 0 /\ pc = "claiming"
      BY <1>3, <2>1 DEF ClaimUpdate, Claimable, Guarded, IInv, Orderly, TypeOK
    <3>2. row'[n] = Claim(row[n]) /\ jobs'[n] = 1 /\ pc' = pc
      BY <1>3, <2>1, <3>1 DEF ClaimUpdate, Update, TypeOK
    <3>. QED
      BY <3>1, <3>2 DEF Claim, Guarded, Rows
  <2>2. CASE ~(m = n /\ Claimable(row[n]))
    <3>1. row'[n] = row[n] /\ jobs'[n] = jobs[n] /\ pc' = pc
      BY <1>3, <2>2 DEF ClaimUpdate, Update, TypeOK
    <3>. QED
      BY <3>1 DEF Guarded
  <2>. QED
    BY <2>1, <2>2
<1>4. CASE ClaimDone
  BY <1>4 DEF ClaimDone, Guarded
<1>5. CASE ClaimFails \/ Crash
  BY <1>5 DEF ClaimFails, Crash, NoJobs, Guarded
<1>6. ASSUME NEW m \in Nodes, NEW report \in Probes, NEW full \in BOOLEAN,
             TakeReport(m, report, full)
      PROVE  Guarded(n)'
  BY <1>6 DEF TakeReport, Guarded
<1>7. ASSUME NEW v \in Lifecycles \cup {"WAITING_FOR_PORT"}, ApplyEvent(v)
      PROVE  Guarded(n)'
  BY <1>7 DEF ApplyEvent, Guarded, IInv, Orderly
<1>8. CASE ApplyFails
  BY <1>8 DEF ApplyFails, Guarded
<1>9. ASSUME NEW fails \in BOOLEAN, FinishJob(fails) PROVE Guarded(n)'
  <2>1. pc = "working" /\ pc' = pc /\ work.node \in Nodes
    BY <1>9 DEF FinishJob, IInv, Orderly
  <2>2. jobs'[n] <= jobs[n]
    BY <1>9, <2>1 DEF FinishJob, TypeOK
  <2>. QED
    BY <1>9, <2>1, <2>2 DEF Guarded, FinishJob, TypeOK
<1>10. CASE BatchDone
  BY <1>10 DEF BatchDone, NoJobs, Guarded
<1>11. ASSUME NEW S \in SUBSET Nodes, Cleanup(S) PROVE Guarded(n)'
  <2>1. UNCHANGED << pc, jobs >> /\ (row'[n] = row[n] \/ jobs[n] = 0)
    BY <1>11 DEF Cleanup
  <2>. QED
    BY <2>1 DEF Guarded
<1>12. CASE UNCHANGED vars
  BY <1>12 DEF vars, Guarded
<1>. QED
  BY <1>1, <1>2, <1>3, <1>4, <1>5, <1>6, <1>7, <1>8, <1>9, <1>10, <1>11, <1>12,
     NextCases DEF SchedulerStep

\* No proxy is in two unfinished jobs, whatever the queues return and however
\* refreshes, restarts and failing writes come in between, as long as the
\* operator does not revive a proxy the batch being claimed already holds.
THEOREM OneJob == Spec /\ [][RevivesWait]_vars => []OneJobPerNode
<1>. DEFINE Inv == IInv /\ \A n \in Nodes : Guarded(n)
<1>1. Init => Inv
  BY InitIInv DEF Init, NoJobs, Guarded
<1>2. Inv /\ [Next]_vars /\ [RevivesWait]_vars => Inv'
  <2>. SUFFICES ASSUME Inv, [Next]_vars, [RevivesWait]_vars PROVE Inv'
    OBVIOUS
  <2>1. IInv'
    BY NextIInv
  <2>2. \A n \in Nodes : Guarded(n)'
    BY GuardedKept
  <2>. QED
    BY <2>1, <2>2
<1>3. Inv => OneJobPerNode
  BY DEF Guarded, OneJobPerNode
<1>. QED
  BY <1>1, <1>2, <1>3, PTL DEF Spec

(***************************************************************************)
(* The feed.                                                               *)
(***************************************************************************)
\* A retired row holds a publication lease only if the test in hand found it
\* good after its retirement, and then nothing will hide that it is retired.
Unhidden(n) ==
  /\ row[n].state = "WAITING_FOR_PORT" => row[n].waiting # "INVALID" /\ jobs[n] = 0
  /\ Effective(row[n]) = "RETIRED" /\ row[n].leased =>
       /\ row[n].state = "RETIRED" /\ n \notin picked
       /\ jobs[n] > 0 => work.node = n /\ ~work.full

LEMMA TouchedUnhidden ==
  ASSUME NEW r, NEW s, Sound(r), Touched(r, s)
  PROVE  /\ r.state = "WAITING_FOR_PORT" /\ s.state = "WAITING_FOR_PORT"
              => s.waiting = r.waiting
         /\ Effective(s) = "RETIRED" /\ s.leased
              => Effective(r) = "RETIRED" /\ r.leased /\ s.state = r.state
         /\ s.leased => r.leased
         /\ s.state = "WAITING_FOR_PORT" => r.state = "WAITING_FOR_PORT"
<1>. r \in Rows
  BY DEF Sound
<1>1. s.leased => r.leased
  <2>1. CASE \/ s = r
             \/ s = [r EXCEPT !.seen = FALSE]
             \/ s = [r EXCEPT !.claimed = FALSE]
             \/ s = [r EXCEPT !.leased = FALSE]
             \/ s = Copied(r)
             \/ s = DormantRevived(r)
             \/ s = Revived(r)
    BY <2>1 DEF Copied, DormantRevived, Revived, Rows
  <2>2. ASSUME NEW manually \in BOOLEAN, s = Ingested(r, manually)
        PROVE  s.leased => r.leased
    BY <2>2 DEF Ingested, NewRow, NoRow, Rows
  <2>3. ASSUME NEW aged \in BOOLEAN, s = Reconciled(r, aged)
        PROVE  s.leased => r.leased
    <3>1. Missed(r) \in Rows /\ Missed(r).leased = r.leased
      BY MissedKeepsLease
    <3>2. s = Missed(r) \/ s = [Missed(r) EXCEPT !.state = "RETIRED"]
      BY <2>3 DEF Reconciled
    <3>. QED
      BY <3>1, <3>2 DEF Rows
  <2>. QED
    BY <2>1, <2>2, <2>3 DEF Touched
<1>2. \/ s.state = r.state /\ s.from = r.from /\ s.waiting = r.waiting
      \/ s.state = "RETIRED" /\ ~r.leased
      \/ s.state \in {"CANDIDATE", "PROBATION"}
  BY TouchedState
<1>. QED
  BY <1>1, <1>2 DEF Effective

LEMMA WaitingUnhidden ==
  ASSUME NEW r, Sound(r), Effective(r) = "RETIRED" => ~r.leased,
         r.state = "WAITING_FOR_PORT" => r.waiting # "INVALID"
  PROVE  /\ Waiting(r).state = "WAITING_FOR_PORT" => Waiting(r).waiting # "INVALID"
         /\ Effective(Waiting(r)) = "RETIRED" => ~Waiting(r).leased
<1>1. CASE r.valid
  BY <1>1 DEF Waiting, Effective, Sound, Rows
<1>2. CASE ~r.valid
  BY <1>2 DEF Waiting, Effective, Sound, Rows
<1>. QED
  BY <1>1, <1>2

LEMMA ReleasedUnhidden ==
  ASSUME NEW r, Sound(r)
  PROVE  /\ Effective(Released(r)) = Effective(r)
         /\ Released(r).leased = r.leased /\ Released(r).waiting = r.waiting
         /\ r.state # "TESTING" => Released(r) = r
         /\ r.state = "TESTING" => Released(r).state = r.from
<1>1. CASE r.state = "TESTING"
  BY <1>1 DEF Released, Effective, Sound, Rows, Queues, Null
<1>2. CASE r.state # "TESTING"
  BY <1>2 DEF Released
<1>. QED
  BY <1>1, <1>2

LEMMA ClaimUnhidden ==
  ASSUME NEW r, Sound(r), Pickable(r)
  PROVE  /\ Claim(r).state = "TESTING"
         /\ Effective(Claim(r)) = Effective(r) /\ Claim(r).leased = r.leased
BY DEF Claim, Pickable, Effective, Sound, Rows, Queues, Null

LEMMA AppliedUnhidden ==
  ASSUME NEW r, Sound(r), r.state # Absent, NEW e \in Events,
         NEW v \in Verdicts(PriorLifecycle(r), e.stage, e.class)
  PROVE  /\ Applied(r, e, v).state = v /\ Applied(r, e, v).waiting = r.waiting
         /\ v \in Queues \cup {"RETIRED", "INVALID", "WAITING_FOR_PORT"}
         /\ v = "RETIRED" => Effective(r) = "RETIRED"
         /\ v = "WAITING_FOR_PORT" => r.state = "WAITING_FOR_PORT"
         /\ v = "INVALID" => ~Applied(r, e, v).valid
         /\ Applied(r, e, v).leased => r.leased \/ e.class = "SUCCESS"
         /\ r.leased => Applied(r, e, v).leased
<1>1. PriorLifecycle(r) \in
        Queues \cup {"RETIRED", "INVALID", "WAITING_FOR_PORT"}
  BY DEF Sound, PriorLifecycle, Rows, States, Lifecycles, Queues
<1>2. /\ v \in Queues \cup {"RETIRED", "INVALID", "WAITING_FOR_PORT"}
      /\ v = "RETIRED" => PriorLifecycle(r) = "RETIRED"
      /\ v = "INVALID" => e.class = "INVALID_CONFIG" \/ PriorLifecycle(r) = "INVALID"
      /\ v = "WAITING_FOR_PORT" => PriorLifecycle(r) = "WAITING_FOR_PORT"
  BY <1>1, VerdictsOfLifecycle
<1>3. PriorLifecycle(r) = "RETIRED" => Effective(r) = "RETIRED"
  BY DEF PriorLifecycle, Effective
<1>4. /\ PriorLifecycle(r) = "WAITING_FOR_PORT" => r.state = "WAITING_FOR_PORT"
      /\ PriorLifecycle(r) = "INVALID" => ~r.valid
  BY DEF PriorLifecycle, Sound, Queues
<1>5. /\ Applied(r, e, v).state = v /\ Applied(r, e, v).waiting = r.waiting
      /\ Applied(r, e, v).valid = (r.valid /\ e.class # "INVALID_CONFIG")
      /\ Applied(r, e, v).leased =
           (r.leased \/ (e.class = "SUCCESS" /\ LeaseMinutes(e.stage, e.fast) > 0))
  BY DEF Applied, Sound, Rows
<1>. QED
  BY <1>2, <1>3, <1>4, <1>5

\* The report in hand is a full one only if nothing in it can earn a lease.
FullReportsEarnNothing ==
  work.full => \A i \in DOMAIN work.events : work.events[i].class = "LOCAL_OVERLOAD"

LEMMA TakenReportEarnsNothing ==
  ASSUME TypeOK, FullReportsEarnNothing, [Next]_vars
  PROVE  FullReportsEarnNothing'
<1>1. CASE UNCHANGED work
  BY <1>1 DEF FullReportsEarnNothing
<1>2. CASE work' = NoWork
  BY <1>2 DEF FullReportsEarnNothing, NoWork
<1>3. ASSUME NEW n \in Nodes, NEW report \in Probes, NEW full \in BOOLEAN,
             TakeReport(n, report, full)
      PROVE  FullReportsEarnNothing'
  BY <1>3 DEF TakeReport, FullReportsEarnNothing
<1>4. CASE work.events # << >> /\ work' = [work EXCEPT !.events = Tail(work.events)]
  <2>1. /\ work'.full = work.full /\ work'.events = Tail(work.events)
        /\ work.events \in Seq(Events)
    BY <1>4 DEF TypeOK
  <2>2. \A i \in DOMAIN Tail(work.events) :
          i + 1 \in DOMAIN work.events /\ Tail(work.events)[i] = work.events[i + 1]
    BY <1>4, <2>1
  <2>. QED
    BY <2>1, <2>2 DEF FullReportsEarnNothing
<1>. QED
  BY <1>1, <1>2, <1>3, <1>4
     DEF Next, SchedulerStep, RefreshStep, OperatorStep, Expiry, ClaimSelect,
         ClaimUpdate, ClaimDone, ClaimFails, ApplyEvent, ApplyFails, FinishJob,
         BatchDone, StartRefresh, SourceFails, CopyCached, Ingest, FinishRefresh,
         RefreshFails, ReviveNode, ReviveDormant, ManualImport, Cleanup,
         TestLeaseExpires, PublicationLeaseExpires, Crash, vars

LEMMA UnhiddenKept ==
  ASSUME IInv, FullReportsEarnNothing, [Next]_vars,
         NEW n \in Nodes, Unhidden(n)
  PROVE  Unhidden(n)'
<1>. DEFINE r == row[n]
            s == row'[n]
<1>. /\ TypeOK /\ Sound(r) /\ r \in Rows
  BY DEF IInv, Orderly, Sound
<1>1. CASE TouchingStep
  BY <1>1, TouchedUnhidden DEF TouchingStep, Unhidden
<1>2. ASSUME NEW k \in 1..Rounds, NEW S \in SUBSET Nodes, ClaimSelect(k, S)
      PROVE  Unhidden(n)'
  <2>1. QueueOf(k) \in Queues
    BY DEF QueueOf, QueueOrder, Rounds, Queues
  <2>2. n \in S => Effective(r) \in Queues
    BY <1>2, <2>1 DEF ClaimSelect, Eligible, Effective, Queues
  <2>. QED
    BY <1>2, <2>2 DEF ClaimSelect, Unhidden, Queues
<1>3. ASSUME NEW m \in Nodes, ClaimUpdate(m) PROVE Unhidden(n)'
  <2>1. CASE m = n
    <3>1. ~(Effective(r) = "RETIRED" /\ r.leased) /\ Pickable(r)
      BY <1>3, <2>1 DEF ClaimUpdate, Unhidden, IInv, Orderly
    <3>2. (s = r /\ jobs' = jobs) \/ s = Claim(r)
      BY <1>3, <2>1 DEF ClaimUpdate, Update, TypeOK
    <3>3. /\ Effective(s) = Effective(r) /\ s.leased = r.leased
          /\ s.state = "WAITING_FOR_PORT" => s = r /\ jobs' = jobs
      BY <3>1, <3>2, ClaimUnhidden
    <3>. QED
      BY <3>1, <3>3 DEF Unhidden
  <2>2. CASE m # n
    <3>1. s = r /\ jobs'[n] = jobs[n] /\ picked' \subseteq picked /\ work' = work
      BY <1>3, <2>2 DEF ClaimUpdate, Update, TypeOK
    <3>. QED
      BY <3>1 DEF Unhidden
  <2>. QED
    BY <2>1, <2>2
<1>4. CASE ClaimDone
  BY <1>4 DEF ClaimDone, Unhidden
<1>5. CASE ClaimFails \/ Crash
  BY <1>5 DEF ClaimFails, Crash, NoJobs, Unhidden
<1>6. ASSUME NEW m \in Nodes, NEW report \in Probes, NEW full \in BOOLEAN,
             TakeReport(m, report, full)
      PROVE  Unhidden(n)'
  BY <1>6, FleetConstants DEF TakeReport, Unhidden, NoWork
<1>7. ASSUME NEW v \in Lifecycles \cup {"WAITING_FOR_PORT"}, ApplyEvent(v)
      PROVE  Unhidden(n)'
  <2>. DEFINE e == Head(work.events)
  <2>1. /\ work.node \in Nodes /\ picked = {}
        /\ r.state # Absent \/ n # work.node
    BY <1>7 DEF ApplyEvent, IInv, Orderly
  <2>2. /\ picked' = picked /\ jobs' = jobs /\ work'.node = work.node
        /\ work'.full = work.full
    BY <1>7 DEF ApplyEvent, TypeOK
  <2>3. CASE n = work.node
    <3>1. /\ e \in Events
          /\ work.full => e.class = "LOCAL_OVERLOAD"
          /\ v \in Verdicts(PriorLifecycle(r), e.stage, e.class)
          /\ s = Applied(r, e, v)
      BY <1>7, <2>3, HeadTailProperties
         DEF ApplyEvent, Update, TypeOK, FullReportsEarnNothing
    <3>2. r.state # Absent /\ picked = {} /\ jobs[n] > 0
      BY <1>7, <2>3 DEF ApplyEvent, IInv, Orderly
    <3>3. r.state # "WAITING_FOR_PORT"
      BY <3>2 DEF Unhidden
    <3>. HIDE DEF e
    <3>4. /\ s.state = v
          /\ v \in Queues \cup {"RETIRED", "INVALID"}
          /\ v = "RETIRED" => Effective(r) = "RETIRED"
          /\ s.leased => r.leased \/ e.class = "SUCCESS"
      BY <3>1, <3>2, <3>3, AppliedUnhidden
    <3>5. Effective(s) = v
      BY <3>4 DEF Effective, Queues
    <3>6. Effective(r) = "RETIRED" /\ r.leased => ~work.full
      BY <3>2 DEF Unhidden
    <3>7. v = "RETIRED" /\ s.leased => ~work.full
      BY <3>1, <3>4, <3>6
    <3>. QED
      BY <2>2, <2>3, <3>2, <3>4, <3>5, <3>7 DEF Unhidden, Queues
  <2>4. CASE n # work.node
    <3>1. s = r
      BY <1>7, <2>4 DEF ApplyEvent, Update, TypeOK
    <3>. QED
      BY <2>2, <3>1 DEF Unhidden
  <2>. QED
    BY <2>3, <2>4
<1>8. CASE ApplyFails
  <2>1. /\ row' = row /\ picked' = picked /\ jobs' = jobs
        /\ work'.node = work.node /\ work'.full = work.full
    BY <1>8 DEF ApplyFails, TypeOK
  <2>. QED
    BY <2>1 DEF Unhidden
<1>9. ASSUME NEW fails \in BOOLEAN, FinishJob(fails) PROVE Unhidden(n)'
  <2>1. /\ work.node \in Nodes /\ jobs[work.node] > 0 /\ picked = {} /\ picked' = {}
    BY <1>9 DEF FinishJob, IInv, Orderly, TypeOK
  <2>2. CASE n = work.node
    <3>1. jobs'[n] = 0
      BY <1>9, <2>1, <2>2 DEF FinishJob, TypeOK
    <3>2. \/ s = r
          \/ s = Waiting(r) /\ work.full
          \/ s = Released(r)
      BY <1>9, <2>2 DEF FinishJob, Update, TypeOK
    <3>3. work.full => ~(Effective(r) = "RETIRED" /\ r.leased)
      BY <2>1, <2>2 DEF Unhidden
    <3>. HIDE DEF r, s
    <3>. QED
      BY <2>1, <3>1, <3>2, <3>3, WaitingUnhidden, ReleasedUnhidden
         DEF Unhidden, r, s, Sound, Queues
  <2>3. CASE n # work.node
    <3>1. s = r /\ jobs'[n] = jobs[n]
      BY <1>9, <2>3 DEF FinishJob, Update, TypeOK
    <3>. QED
      BY <2>1, <2>3, <3>1 DEF Unhidden
  <2>. QED
    BY <2>2, <2>3
<1>10. CASE BatchDone \/ UNCHANGED vars
  BY <1>10 DEF BatchDone, vars, Unhidden
<1>11. ASSUME NEW S \in SUBSET Nodes, Cleanup(S) PROVE Unhidden(n)'
  BY <1>11 DEF Cleanup, Unhidden, NoRow, Effective, Absent
<1>. QED
  BY <1>1, <1>2, <1>3, <1>4, <1>5, <1>6, <1>7, <1>8, <1>9, <1>10, <1>11, NextCases,
     OtherStepTouches DEF SchedulerStep

\* Only the end of the lease ends the lease.
LEMMA TouchedLease ==
  ASSUME NEW r, NEW s, Sound(r), r.state # Absent, r.leased, Touched(r, s),
         s # [r EXCEPT !.leased = FALSE]
  PROVE  s.leased
<1>. r \in Rows
  BY DEF Sound
<1>1. CASE \/ s = r
           \/ s = [r EXCEPT !.seen = FALSE]
           \/ s = [r EXCEPT !.claimed = FALSE]
           \/ s = Copied(r)
           \/ s = DormantRevived(r)
           \/ s = Revived(r)
  BY <1>1 DEF Copied, DormantRevived, Revived, Rows
<1>2. ASSUME NEW manually \in BOOLEAN, s = Ingested(r, manually)
      PROVE  s.leased
  BY <1>2 DEF Ingested, Rows
<1>3. ASSUME NEW aged \in BOOLEAN, s = Reconciled(r, aged)
      PROVE  s.leased
  BY <1>3, MissedKeepsLease DEF Reconciled, Rows
<1>. QED
  BY <1>1, <1>2, <1>3 DEF Touched

LEMMA InitUnhidden ==
  ASSUME Init PROVE FullReportsEarnNothing /\ \A n \in Nodes : Unhidden(n)
BY DEF Init, NoWork, NoJobs, NoRow, Absent, FullReportsEarnNothing, Unhidden,
       Effective

LEMMA UnhiddenInvariant ==
  Spec => [](IInv /\ FullReportsEarnNothing /\ \A n \in Nodes : Unhidden(n))
<1>. DEFINE Inv == IInv /\ FullReportsEarnNothing /\ \A n \in Nodes : Unhidden(n)
<1>1. Init => Inv
  BY InitIInv, InitUnhidden
<1>2. Inv /\ [Next]_vars => Inv'
  <2>. SUFFICES ASSUME Inv, [Next]_vars PROVE Inv'
    OBVIOUS
  <2>1. IInv'
    BY NextIInv
  <2>2. FullReportsEarnNothing'
    BY TakenReportEarnsNothing DEF IInv
  <2>3. \A n \in Nodes : Unhidden(n)'
    BY UnhiddenKept
  <2>. QED
    BY <2>1, <2>2, <2>3
<1>. QED
  BY <1>1, <1>2, PTL DEF Spec

\* What the feed carries is a member of the fleet: no claim, late report or
\* port shortage hides a retired or invalid proxy that holds a lease behind
\* an execution state.
THEOREM FeedSound == Spec => []FeedListsMembers
<1>1. IInv /\ (\A n \in Nodes : Unhidden(n)) => FeedListsMembers
  <2>. SUFFICES ASSUME IInv, NEW n \in Nodes, Unhidden(n), Published(row[n])
                PROVE  Effective(row[n]) \notin {"INVALID", "RETIRED"}
    BY DEF FeedListsMembers
  <2>1. Sound(row[n])
    BY DEF IInv, Orderly
  <2>. QED
    BY <2>1 DEF Published, Effective, Unhidden, Sound, Queues
<1>. QED
  BY <1>1, UnhiddenInvariant, PTL

\* A published proxy leaves the feed only when its lease ends or its config is
\* found invalid, whichever writer acts: the promise clients are given.
THEOREM FeedPromise == Spec => FeedKeepsItsPromise
<1>. DEFINE Kept(n) ==
       Published(row[n]) /\ ~Published(row[n])' =>
         \/ row'[n] = [row[n] EXCEPT !.leased = FALSE]
         \/ ~row'[n].valid
<1>1. ASSUME IInv, [Next]_vars, NEW n \in Nodes, Unhidden(n)
      PROVE  Kept(n)
  <2>. DEFINE r == row[n]
              s == row'[n]
  <2>. SUFFICES ASSUME Published(r), s.valid,
                       s # [r EXCEPT !.leased = FALSE]
                PROVE  Published(s)
    OBVIOUS
  <2>1. Sound(r) /\ r \in Rows /\ IInv'
    BY <1>1, NextIInv DEF IInv, Orderly, Sound
  <2>2. Sound(s)
    BY <2>1 DEF IInv, Orderly
  <2>3. Effective(r) # "RETIRED" /\ r.state \notin {"INVALID", "RETIRED", Absent}
    BY <1>1 DEF Unhidden, Published
  <2>. HIDE DEF r, s
  <2>4. CASE Touched(r, s)
    <3>1. s.leased
      BY <2>1, <2>3, <2>4, TouchedLease DEF Published
    <3>. QED
      BY <2>1, <2>3, <2>4, <3>1, TouchedState DEF Published, Absent
  <2>5. CASE Scheduled(r, s)
    <3>1. CASE Pickable(r) /\ s = Claim(r)
      BY <2>1, <3>1, ClaimUnhidden DEF Published, Absent
    <3>2. ASSUME NEW e \in Events,
                 NEW v \in Verdicts(PriorLifecycle(r), e.stage, e.class),
                 s = Applied(r, e, v)
          PROVE  Published(s)
      <4>1. /\ s.state = v /\ s.leased
            /\ v \in Queues \cup {"RETIRED", "INVALID", "WAITING_FOR_PORT"}
            /\ v = "RETIRED" => Effective(r) = "RETIRED"
            /\ v = "INVALID" => ~s.valid
        BY <2>1, <2>3, <3>2, AppliedUnhidden DEF Published
      <4>. QED
        BY <2>3, <4>1 DEF Published, Queues, Absent
    <3>3. CASE s = Waiting(r)
      BY <2>1, <3>3 DEF Waiting, Published, Rows, Absent
    <3>4. CASE s = Released(r)
      BY <2>1, <2>3, <3>4, ReleasedUnhidden
         DEF Published, Effective, Sound, Queues, Absent
    <3>. QED
      BY <2>5, <3>1, <3>2, <3>3, <3>4 DEF Scheduled
  <2>. QED
    BY <1>1, <2>3, <2>4, <2>5, StepOfRow DEF r, s
<1>2. IInv /\ (\A n \in Nodes : Unhidden(n)) /\ [Next]_vars =>
        [\A n \in Nodes : Published(row[n]) /\ ~Published(row[n])' =>
           \/ row'[n] = [row[n] EXCEPT !.leased = FALSE]
           \/ ~row'[n].valid]_vars
  BY <1>1
<1>. QED
  BY <1>2, UnhiddenInvariant, PTL DEF Spec, FeedKeepsItsPromise

(***************************************************************************)
(* The lifecycles move as module Lifecycle says, as long as the            *)
(* scheduler's own writes succeed as well.                                 *)
(***************************************************************************)
\* A waiting row waits for a lifecycle, and a report once applied has taken
\* the row out of TESTING.
Placed(n) ==
  /\ row[n].state = "WAITING_FOR_PORT" => row[n].waiting \in Queues \cup {"RETIRED"}
  /\ work.node = n /\ work.events = << >> => row[n].state # "TESTING"

MovesFrom(l, m) == m = l \/ << l, m >> \in Abstract!Moves

LEMMA VerdictsMove ==
  ASSUME NEW l \in Queues \cup {"RETIRED", "INVALID"}, NEW stage, NEW class,
         NEW v \in Verdicts(l, stage, class)
  PROVE  MovesFrom(l, v)
BY DEF Verdicts, RealDownload, MovesFrom, Queues, Abstract!Moves, Abstract!Live,
       Abstract!Absent

\* The lifecycle of a row that is in its place.
LEMMA PlacedLifecycle ==
  ASSUME NEW r, Sound(r),
         r.state = "WAITING_FOR_PORT" => r.waiting \in Queues \cup {"RETIRED"}
  PROVE  Effective(r) \in Queues \cup {"RETIRED", "INVALID", Absent}
BY DEF Effective, Sound, Rows, States, Lifecycles, Queues, Absent

LEMMA TouchedMoves ==
  ASSUME NEW r, NEW s, Sound(r), Touched(r, s),
         r.state = "WAITING_FOR_PORT" => r.waiting \in Queues \cup {"RETIRED"}
  PROVE  /\ MovesFrom(Effective(r), Effective(s))
         /\ s.state = "TESTING" => r.state = "TESTING"
         /\ s.state = "WAITING_FOR_PORT" =>
              r.state = "WAITING_FOR_PORT" /\ s.waiting = r.waiting
<1>1. Effective(r) \in Queues \cup {"RETIRED", "INVALID", Absent}
  BY PlacedLifecycle
<1>2. CASE s.state = r.state /\ s.from = r.from /\ s.waiting = r.waiting
  BY <1>2 DEF Effective, MovesFrom
<1>3. CASE s.state = "RETIRED" /\ r.state \notin {"INVALID", "RETIRED", Absent}
  <2>1. Effective(r) \in Queues \cup {"RETIRED"}
    BY <1>1, <1>3 DEF Effective, Sound, Rows, States, Lifecycles, Queues, Absent
  <2>. QED
    BY <1>3, <2>1 DEF Effective, MovesFrom, Queues, Abstract!Moves, Abstract!Live
<1>4. CASE s.state = "CANDIDATE" /\ r.state \in {Absent, "RETIRED"}
  BY <1>4 DEF Effective, MovesFrom, Absent, Abstract!Moves, Abstract!Absent
<1>5. CASE s.state = "PROBATION" /\ r.state \in {"DORMANT", "PROBATION", "CANDIDATE"}
  BY <1>5 DEF Effective, MovesFrom, Abstract!Moves
<1>. QED
  BY <1>2, <1>3, <1>4, <1>5, TouchedState

LEMMA PlacedStep ==
  ASSUME IInv, ~LockedWrites, [Next]_vars,
         NEW n \in Nodes, Unhidden(n), Placed(n)
  PROVE  Placed(n)' /\ MovesFrom(Effective(row[n]), Effective(row'[n]))
<1>. DEFINE r == row[n]
            s == row'[n]
            Goal == Placed(n)' /\ MovesFrom(Effective(r), Effective(s))
<1>. /\ TypeOK /\ Sound(r) /\ r \in Rows
  BY DEF IInv, Orderly, Sound
<1>1. CASE TouchingStep
  <2>1. Touched(r, s) /\ UNCHANGED work
    BY <1>1 DEF TouchingStep
  <2>. QED
    BY <2>1, TouchedMoves DEF Placed
<1>2. CASE UNCHANGED << row, work >>
  BY <1>2 DEF Placed, MovesFrom
<1>3. ASSUME NEW m \in Nodes, ClaimUpdate(m) PROVE Goal
  <2>1. /\ work' = NoWork /\ NoWork.node # n
        /\ m \in picked /\ Pickable(row[m]) /\ Sound(row[m])
    BY <1>3, FleetConstants DEF ClaimUpdate, IInv, Orderly, NoWork
  <2>2. s = r \/ (m = n /\ s = Claim(r))
    BY <1>3 DEF ClaimUpdate, Update, TypeOK
  <2>. QED
    BY <2>1, <2>2, ClaimUnhidden DEF Placed, MovesFrom
<1>4. CASE ClaimFails \/ ApplyFails
  BY <1>4 DEF ClaimFails, ApplyFails
<1>5. ASSUME NEW m \in Nodes, NEW report \in Probes, NEW full \in BOOLEAN,
             TakeReport(m, report, full)
      PROVE  Goal
  <2>1. UNCHANGED row /\ work'.events # << >>
    BY <1>5, FleetConstants DEF TakeReport
  <2>. QED
    BY <2>1 DEF Placed, MovesFrom
<1>6. ASSUME NEW v \in Lifecycles \cup {"WAITING_FOR_PORT"}, ApplyEvent(v)
      PROVE  Goal
  <2>. DEFINE e == Head(work.events)
  <2>1. work'.node = work.node
    BY <1>6 DEF ApplyEvent, TypeOK
  <2>2. CASE n = work.node
    <3>1. /\ e \in Events /\ r.state \notin {Absent, "WAITING_FOR_PORT"}
          /\ v \in Verdicts(PriorLifecycle(r), e.stage, e.class)
          /\ s = Applied(r, e, v)
      BY <1>6, <2>2, HeadTailProperties
         DEF ApplyEvent, Update, TypeOK, IInv, Orderly, Unhidden
    <3>2. PriorLifecycle(r) = Effective(r)
      BY <3>1 DEF PriorLifecycle, Effective
    <3>3. Effective(r) \in Queues \cup {"RETIRED", "INVALID"}
      BY <3>1 DEF Effective, Sound, Rows, States, Lifecycles, Queues, Absent
    <3>. HIDE DEF e
    <3>4. s.state = v /\ v \in Queues \cup {"RETIRED", "INVALID"}
      BY <3>1, AppliedUnhidden
    <3>5. MovesFrom(Effective(r), v)
      BY <3>1, <3>2, <3>3, VerdictsMove
    <3>. QED
      BY <2>2, <3>4, <3>5 DEF Placed, Effective, Queues
  <2>3. CASE n # work.node
    <3>1. s = r
      BY <1>6, <2>3 DEF ApplyEvent, Update, TypeOK
    <3>. QED
      BY <2>1, <2>3, <3>1 DEF Placed, MovesFrom
  <2>. QED
    BY <2>2, <2>3
<1>7. ASSUME NEW fails \in BOOLEAN, FinishJob(fails) PROVE Goal
  <2>1. work' = NoWork /\ NoWork.node # n
    BY <1>7, FleetConstants DEF FinishJob, NoWork
  <2>2. CASE n = work.node
    <3>1. r.state \notin {Absent, "WAITING_FOR_PORT", "TESTING"}
      BY <1>7, <2>2 DEF FinishJob, IInv, Orderly, Unhidden, Placed
    <3>2. s = Waiting(r) \/ s = Released(r)
      BY <1>7, <2>2 DEF FinishJob, Update, TypeOK
    <3>3. CASE r.valid /\ s = Waiting(r)
      BY <2>1, <3>1, <3>3 DEF Waiting, Placed, MovesFrom, Effective, Sound, Rows,
         States, Lifecycles, Queues
    <3>4. CASE s = r
      BY <2>1, <3>4 DEF Placed, MovesFrom
    <3>. QED
      BY <3>1, <3>2, <3>3, <3>4 DEF Waiting, Released
  <2>3. CASE n # work.node
    <3>1. s = r
      BY <1>7, <2>3 DEF FinishJob, Update, TypeOK
    <3>. QED
      BY <2>1, <3>1 DEF Placed, MovesFrom
  <2>. QED
    BY <2>2, <2>3
<1>8. ASSUME NEW S \in SUBSET Nodes, Cleanup(S) PROVE Goal
  <2>1. UNCHANGED work /\ (s = r \/ (r.state = "RETIRED" /\ s = NoRow))
    BY <1>8 DEF Cleanup
  <2>. QED
    BY <2>1 DEF Placed, MovesFrom, NoRow, Effective, Absent, Abstract!Moves,
                Abstract!Absent
<1>9. CASE Crash
  BY <1>9, FleetConstants DEF Crash, NoWork, Placed, MovesFrom
<1>10. CASE ClaimDone \/ BatchDone \/ UNCHANGED vars
  BY <1>2, <1>10 DEF ClaimDone, BatchDone, vars
<1>11. ASSUME NEW k \in 1..Rounds, NEW S \in SUBSET Nodes, ClaimSelect(k, S)
       PROVE  Goal
  BY <1>2, <1>11 DEF ClaimSelect
<1>. QED
  BY <1>1, <1>3, <1>4, <1>5, <1>6, <1>7, <1>8, <1>9, <1>10, <1>11, NextCases,
     OtherStepTouches DEF SchedulerStep

\* The fleet implements module Lifecycle: between any two states every
\* proxy's lifecycle stays or makes one of the promised moves.  Claims, port
\* shortages, released leases and restarts are stutters of it.
THEOREM FleetImplementsLifecycle ==
  ~LockedWrites => (Spec => LifecycleMovesLegally)
<1>. SUFFICES ASSUME ~LockedWrites
              PROVE  Spec => LifecycleMovesLegally
  OBVIOUS
<1>. DEFINE Inv == /\ IInv /\ \A n \in Nodes : Unhidden(n)
                   /\ \A n \in Nodes : Placed(n)
            life == [n \in Nodes |-> Effective(row[n])]
<1>1. Init => (\A n \in Nodes : Placed(n)) /\ Abstract!Init
  BY FleetConstants
     DEF Init, Placed, NoWork, NoRow, Effective, Absent, Abstract!Init, Abstract!Absent
<1>2. ASSUME IInv, \A n \in Nodes : Unhidden(n), \A n \in Nodes : Placed(n),
             [Next]_vars
      PROVE  (\A n \in Nodes : Placed(n)') /\ [Abstract!Next]_life
  <2>1. \A n \in Nodes :
          Placed(n)' /\ MovesFrom(Effective(row[n]), Effective(row'[n]))
    BY <1>2, PlacedStep
  <2>2. IInv'
    BY <1>2, NextIInv
  <2>3. \A n \in Nodes :
          Effective(row'[n]) \in Abstract!Live \cup {"INVALID", "RETIRED", Abstract!Absent}
    <3>. SUFFICES ASSUME NEW n \in Nodes
                  PROVE  Effective(row'[n]) \in
                           Queues \cup {"RETIRED", "INVALID", Absent}
      BY DEF Abstract!Live, Abstract!Absent, Absent, Queues
    <3>1. Sound(row'[n])
      BY <2>2 DEF IInv, Orderly
    <3>2. row'[n].state = "WAITING_FOR_PORT" => row'[n].waiting \in Queues \cup {"RETIRED"}
      BY <2>1 DEF Placed
    <3>. HIDE DEF IInv
    <3>. QED
      BY <3>1, <3>2, PlacedLifecycle
  <2>4. life' \in [Nodes -> Abstract!Live \cup {"INVALID", "RETIRED", Abstract!Absent}]
    BY <2>3
  <2>5. Abstract!Next
    BY <2>1, <2>4 DEF Abstract!Next, MovesFrom
  <2>. QED
    BY <2>1, <2>5
<1>3. Inv /\ [Next]_vars =>
        (\A n \in Nodes : Placed(n))' /\ [Abstract!Next]_life
  BY <1>2
<1>. QED
  BY <1>1, <1>3, UnhiddenInvariant, PTL
     DEF Spec, LifecycleMovesLegally, Abstract!Spec
=============================================================================
