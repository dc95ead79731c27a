------------------------------- MODULE Queues -------------------------------
(***************************************************************************)
(* How one tick of the scheduler divides its claims among the four queues  *)
(* (scheduler/mod.rs): QueueQuota::for_capacity, and the two passes of     *)
(* claim_due over QUEUE_ORDER, the first by quota and the second by        *)
(* whatever capacity is left.  Which rows of a queue are claimed, and what *)
(* a claim does to a row, is in NodeStore and Fleet: here a queue is the   *)
(* number of its rows that are due.                                        *)
(*                                                                         *)
(* The credits of QueueDebt are accrued, consumed and stored, but neither  *)
(* a quota nor a limit reads them, so they have no variable.               *)
(***************************************************************************)
EXTENDS Integers

CONSTANTS
  Capacities,      \* values of runtime.xray_concurrency, the size of a batch
  MaxDue           \* a bound on the rows that are due in one queue

ASSUME QueuesConstants ==
  /\ Capacities \subseteq Nat \ {0}
  /\ MaxDue \in Nat

Order == << "CANDIDATE", "PROBATION", "DORMANT", "ACTIVE" >>
Queues == {"CANDIDATE", "PROBATION", "DORMANT", "ACTIVE"}

VARIABLES
  due,             \* for each queue, its rows that could be claimed now
  capacity,        \* of the present tick
  round,           \* queries made in the present tick: 4 by quota, 4 of overflow
  jobs,            \* claims of the last tick, for each queue
  left             \* rows that the last query of each queue left behind

qvars == << due, capacity, round, jobs, left >>

Total(f) == f["CANDIDATE"] + f["PROBATION"] + f["DORMANT"] + f["ACTIVE"]

Least(a, b) == IF a < b THEN a ELSE b

(***************************************************************************)
(* QueueQuota::for_capacity: the largest remainders of 40/30/20/10 get the *)
(* slots that rounding down leaves over; ties go in the order of queues.   *)
(***************************************************************************)
Share == [q \in Queues |-> CASE q = "CANDIDATE" -> 40 [] q = "PROBATION" -> 30
                             [] q = "DORMANT" -> 20 [] q = "ACTIVE" -> 10]

Whole(c, q) == (c * Share[q]) \div 100
Remainder(c, q) == (c * Share[q]) % 100

\* The queues are in the order of falling shares.
Before(c, p, q) ==
  \/ Remainder(c, p) > Remainder(c, q)
  \/ Remainder(c, p) = Remainder(c, q) /\ Share[p] > Share[q]

One(b) == IF b THEN 1 ELSE 0
Rank(c, q) == Total([p \in Queues |-> One(Before(c, p, q))])

Unallocated(c) == c - Total([q \in Queues |-> Whole(c, q)])

Quota(c, q) == Whole(c, q) + One(Rank(c, q) < Unallocated(c))

(***************************************************************************)
(* claim_due.                                                              *)
(***************************************************************************)
Rounds == 8
QueueOf(k) == Order[((k - 1) % 4) + 1]

\* Mutant of Limit: a queue may take all of the capacity in the first pass.
LimitOfFirstCome(k) == capacity - Total(jobs)

\* Mutant of Limit: the second pass is cut to the quotas as well.
LimitOfQuota(k) ==
  Least(Quota(capacity, QueueOf(k)), capacity - Total(jobs))

\* The rows query k may claim: append_claims cuts the limit of its caller
\* down to what is left of the capacity.
Limit(k) ==
  LET free == capacity - Total(jobs)
  IN  IF k <= 4 THEN Least(Quota(capacity, QueueOf(k)), free) ELSE free

Nothing == [q \in Queues |-> 0]

QInit ==
  /\ due = Nothing
  /\ capacity = 0 /\ round = 0
  /\ jobs = Nothing /\ left = Nothing

\* A tick that is not paused: the limit of the moment is its capacity
\* (the configuration keeps it positive).
Tick(c) ==
  /\ round = 0
  /\ capacity' = c /\ round' = 1
  /\ jobs' = Nothing /\ left' = due
  /\ UNCHANGED due

\* Mutant of Claims: the limit is not cut to the capacity that is left.
ClaimsBeyond(k) == Least(Quota(capacity, QueueOf(k)) + Total(jobs), due[QueueOf(k)])

\* The rows query k claims.  Nobody else takes a test lease, so each UPDATE
\* finds its row as the SELECT did.
Claims(k) == Least(Limit(k), due[QueueOf(k)])

\* append_claims makes no query when nothing may be claimed.
Claim(k) ==
  /\ round = k
  /\ round' = k + 1
  /\ IF Limit(k) > 0
     THEN LET q == QueueOf(k)
          IN  /\ due' = [due EXCEPT ![q] = @ - Claims(k)]
              /\ jobs' = [jobs EXCEPT ![q] = @ + Claims(k)]
              /\ left' = [left EXCEPT ![q] = due[q] - Claims(k)]
     ELSE UNCHANGED << due, jobs, left >>
  /\ UNCHANGED capacity

\* The batch, tested: an empty one ends at once.  Its rows come back to some
\* queue when their next test is due (Arrive).
Finish ==
  /\ round = Rounds + 1
  /\ round' = 0 /\ left' = Nothing
  /\ UNCHANGED << due, capacity, jobs >>

\* A statement of claim_due fails; the rows claimed so far stay claimed.
ClaimFails ==
  /\ round \in 1..Rounds
  /\ round' = 0 /\ jobs' = Nothing /\ left' = Nothing
  /\ UNCHANGED << due, capacity >>

\* A row falls due: its time has come, it is new, released or revived.
Arrive(q) ==
  /\ due[q] < MaxDue
  /\ due' = [due EXCEPT ![q] = @ + 1]
  /\ UNCHANGED << capacity, round, jobs, left >>

\* A row that is due leaves its queue: retired, revived into another one,
\* moved by a late report.
Leave(q) ==
  /\ due[q] > 0
  /\ due' = [due EXCEPT ![q] = @ - 1]
  /\ UNCHANGED << capacity, round, jobs, left >>

QNext ==
  \/ \E c \in Capacities : Tick(c)
  \/ \E k \in 1..Rounds : Claim(k)
  \/ Finish
  \/ ClaimFails
  \/ \E q \in Queues : Arrive(q) \/ Leave(q)

QSpec == QInit /\ [][QNext]_qvars

\* The timer ticks again and again, and again and again claim_due succeeds and
\* its batch comes to an end.  Nothing is assumed of the rows.
QFairSpec ==
  /\ QSpec
  /\ WF_qvars(\E c \in Capacities : Tick(c))
  /\ []<><< Finish >>_qvars

(***************************************************************************)
(* Properties.                                                             *)
(***************************************************************************)
\* Of every variable; a batch is never larger than the capacity it was
\* claimed for, which is what limits the probes that run at once.
QTypeOK ==
  /\ due \in [Queues -> 0..MaxDue]
  /\ capacity \in Capacities \cup {0}
  /\ round \in 0..(Rounds + 1)
  /\ round > 0 => capacity \in Capacities
  /\ jobs \in [Queues -> Nat]
  /\ left \in [Queues -> 0..MaxDue]
  /\ Total(jobs) <= capacity

\* The two passes of claim_due.  Whatever the other queues hold, each one gets
\* its quota of the batch or is left empty: the overflow of one never comes out
\* of the quota of another.  And no slot is wasted: a batch with room in it has
\* left no row behind that one of its queries could have claimed.
CapacityIsShared ==
  /\ round = 5 =>
       \A q \in Queues : jobs[q] >= Quota(capacity, q) \/ left[q] = 0
  /\ round = Rounds + 1 /\ Total(jobs) < capacity => left = Nothing

\* The queues that have a quota at every capacity of the range.
Entitled == {q \in Queues : \A c \in Capacities : Quota(c, q) > 0}

Served(q) == due[q] = 0 \/ jobs[q] > 0

\* A queue with a quota is never passed over for ever, however fast the other
\* queues fill.
QueueIsServed == \A q \in Entitled : []<>Served(q)

\* Stated by the comment of QueueDebt, "so a smaller queue cannot be starved
\* forever by a permanently full candidate queue", and by docs/TASKs.md.
NoQueueStarves == \A q \in Queues : []<>Served(q)
=============================================================================
