-------------------------- MODULE Batches_proofs ----------------------------
(***************************************************************************)
(* Theorems about the batch a tick of the scheduler checks: how many rows  *)
(* of each queue it claims (module Queues, for every capacity and any      *)
(* number of due rows), and how the batch test isolates the proxy that     *)
(* breaks a configuration (module Batch, for any set of proxies, any range *)
(* of ports and any way of splitting a group in two).                      *)
(***************************************************************************)
EXTENDS Queues, Batch, FiniteSetTheorems, TLAPS

(***************************************************************************)
(* The quotas.  What is rounded off repeats with every ten slots.          *)
(***************************************************************************)
LEMMA Shares ==
  /\ Share["CANDIDATE"] = 40 /\ Share["PROBATION"] = 30
  /\ Share["DORMANT"] = 20 /\ Share["ACTIVE"] = 10
BY DEF Share, Queues

LEMMA Tens ==
  ASSUME NEW c \in Nat
  PROVE  \E k \in Nat, r \in 0..9 : c = 10 * k + r
<1>1. c = 10 * (c \div 10) + (c % 10) /\ c \div 10 \in Nat /\ c % 10 \in 0..9
  OBVIOUS
<1>. QED
  BY <1>1

LEMMA Rounded ==
  ASSUME NEW k \in Nat, NEW r \in 0..9, NEW m \in 1..4
  PROVE  /\ ((10 * k + r) * (10 * m)) \div 100 = m * k + (m * r) \div 10
         /\ ((10 * k + r) * (10 * m)) % 100 = 10 * ((m * r) % 10)
<1>1. CASE m = 1
  BY <1>1
<1>2. CASE m = 2
  BY <1>2
<1>3. CASE m = 3
  BY <1>3
<1>4. CASE m = 4
  BY <1>4
<1>. QED
  BY <1>1, <1>2, <1>3, <1>4

LEMMA Parts ==
  ASSUME NEW k \in Nat, NEW r \in 0..9
  PROVE  LET c == 10 * k + r IN
         /\ Whole(c, "CANDIDATE") = 4 * k + (4 * r) \div 10
         /\ Whole(c, "PROBATION") = 3 * k + (3 * r) \div 10
         /\ Whole(c, "DORMANT") = 2 * k + (2 * r) \div 10
         /\ Whole(c, "ACTIVE") = k + r \div 10
         /\ Remainder(c, "CANDIDATE") = 10 * ((4 * r) % 10)
         /\ Remainder(c, "PROBATION") = 10 * ((3 * r) % 10)
         /\ Remainder(c, "DORMANT") = 10 * ((2 * r) % 10)
         /\ Remainder(c, "ACTIVE") = 10 * (r % 10)
<1>. DEFINE c == 10 * k + r
<1>1. /\ (c * 10) \div 100 = 1 * k + (1 * r) \div 10 /\ (c * 10) % 100 = 10 * ((1 * r) % 10)
      /\ (c * 20) \div 100 = 2 * k + (2 * r) \div 10 /\ (c * 20) % 100 = 10 * ((2 * r) % 10)
      /\ (c * 30) \div 100 = 3 * k + (3 * r) \div 10 /\ (c * 30) % 100 = 10 * ((3 * r) % 10)
      /\ (c * 40) \div 100 = 4 * k + (4 * r) \div 10 /\ (c * 40) % 100 = 10 * ((4 * r) % 10)
  BY Rounded
<1>. QED
  BY <1>1, Shares DEF Whole, Remainder

\* The quotas of an arbitrary capacity, by its last digit.
LEMMA QuotaTable ==
  ASSUME NEW k \in Nat, NEW r \in 0..9
  PROVE  LET c == 10 * k + r IN
         /\ Quota(c, "CANDIDATE") = 4 * k + << 0, 1, 1, 1, 2, 2, 2, 3, 3, 3 >>[r + 1]
         /\ Quota(c, "PROBATION") = 3 * k + << 0, 0, 1, 1, 1, 2, 2, 2, 2, 3 >>[r + 1]
         /\ Quota(c, "DORMANT") = 2 * k + << 0, 0, 0, 1, 1, 1, 1, 1, 2, 2 >>[r + 1]
         /\ Quota(c, "ACTIVE") = k + << 0, 0, 0, 0, 0, 0, 1, 1, 1, 1 >>[r + 1]
<1>. DEFINE c == 10 * k + r
            C == "CANDIDATE"  P == "PROBATION"  D == "DORMANT"  A == "ACTIVE"
<1>1. /\ Whole(c, C) = 4 * k + (4 * r) \div 10 /\ Remainder(c, C) = 10 * ((4 * r) % 10)
      /\ Whole(c, P) = 3 * k + (3 * r) \div 10 /\ Remainder(c, P) = 10 * ((3 * r) % 10)
      /\ Whole(c, D) = 2 * k + (2 * r) \div 10 /\ Remainder(c, D) = 10 * ((2 * r) % 10)
      /\ Whole(c, A) = k + r \div 10 /\ Remainder(c, A) = 10 * (r % 10)
  BY Parts
<1>2. \A f : Total([q \in Queues |-> f[q]]) = f[C] + f[P] + f[D] + f[A]
  BY DEF Total, Queues
<1>3. Unallocated(c) = c - (Whole(c, C) + Whole(c, P) + Whole(c, D) + Whole(c, A))
  BY DEF Unallocated, Total, Queues
<1>4. \A q : Rank(c, q) = One(Before(c, C, q)) + One(Before(c, P, q))
                          + One(Before(c, D, q)) + One(Before(c, A, q))
  BY DEF Rank, Total, Queues
<1>. HIDE DEF c
<1>5. CASE r = 0
  BY <1>1, <1>3, <1>4, <1>5, Shares DEF Quota, Before, One, c
<1>6. CASE r = 1
  BY <1>1, <1>3, <1>4, <1>6, Shares DEF Quota, Before, One, c
<1>7. CASE r = 2
  BY <1>1, <1>3, <1>4, <1>7, Shares DEF Quota, Before, One, c
<1>8. CASE r = 3
  BY <1>1, <1>3, <1>4, <1>8, Shares DEF Quota, Before, One, c
<1>9. CASE r = 4
  BY <1>1, <1>3, <1>4, <1>9, Shares DEF Quota, Before, One, c
<1>10. CASE r = 5
  BY <1>1, <1>3, <1>4, <1>10, Shares DEF Quota, Before, One, c
<1>11. CASE r = 6
  BY <1>1, <1>3, <1>4, <1>11, Shares DEF Quota, Before, One, c
<1>12. CASE r = 7
  BY <1>1, <1>3, <1>4, <1>12, Shares DEF Quota, Before, One, c
<1>13. CASE r = 8
  BY <1>1, <1>3, <1>4, <1>13, Shares DEF Quota, Before, One, c
<1>14. CASE r = 9
  BY <1>1, <1>3, <1>4, <1>14, Shares DEF Quota, Before, One, c
<1>. QED
  BY <1>5, <1>6, <1>7, <1>8, <1>9, <1>10, <1>11, <1>12, <1>13, <1>14

\* What every capacity is divided into: no quota is negative, and together they
\* are the capacity (QueueQuota::for_capacity loses no slot and adds none).
THEOREM QuotasAddUp ==
  ASSUME NEW c \in Nat
  PROVE  /\ \A q \in Queues : Quota(c, q) \in Nat
         /\ Total([q \in Queues |-> Quota(c, q)]) = c
<1>1. PICK k \in Nat, r \in 0..9 : c = 10 * k + r
  BY Tens
<1>2. /\ Quota(c, "CANDIDATE") = 4 * k + << 0, 1, 1, 1, 2, 2, 2, 3, 3, 3 >>[r + 1]
      /\ Quota(c, "PROBATION") = 3 * k + << 0, 0, 1, 1, 1, 2, 2, 2, 2, 3 >>[r + 1]
      /\ Quota(c, "DORMANT") = 2 * k + << 0, 0, 0, 1, 1, 1, 1, 1, 2, 2 >>[r + 1]
      /\ Quota(c, "ACTIVE") = k + << 0, 0, 0, 0, 0, 0, 1, 1, 1, 1 >>[r + 1]
  BY <1>1, QuotaTable
<1>. QED
  BY <1>1, <1>2 DEF Total, Queues

\* From six slots on every queue has a quota of its own (a floor of six under
\* health.xray_concurrency_min rules out the starvation of ACTIVE).
THEOREM SixSuffice ==
  ASSUME NEW c \in Nat, c >= 6, NEW q \in Queues
  PROVE  Quota(c, q) > 0
<1>1. PICK k \in Nat, r \in 0..9 : c = 10 * k + r
  BY Tens
<1>2. /\ Quota(c, "CANDIDATE") = 4 * k + << 0, 1, 1, 1, 2, 2, 2, 3, 3, 3 >>[r + 1]
      /\ Quota(c, "PROBATION") = 3 * k + << 0, 0, 1, 1, 1, 2, 2, 2, 2, 3 >>[r + 1]
      /\ Quota(c, "DORMANT") = 2 * k + << 0, 0, 0, 1, 1, 1, 1, 1, 2, 2 >>[r + 1]
      /\ Quota(c, "ACTIVE") = k + << 0, 0, 0, 0, 0, 0, 1, 1, 1, 1 >>[r + 1]
  BY <1>1, QuotaTable
<1>3. k > 0 \/ r >= 6
  BY <1>1
<1>. QED
  BY <1>2, <1>3 DEF Queues

(***************************************************************************)
(* The type invariant.                                                     *)
(***************************************************************************)
LEMMA Positions ==
  ASSUME NEW k \in 1..Rounds
  PROVE  QueueOf(k) \in Queues
BY DEF Rounds, QueueOf, Order, Queues

\* What a query claims fits into the capacity and is due.
LEMMA ClaimsFit ==
  ASSUME QTypeOK, NEW k \in 1..Rounds, round = k, Limit(k) > 0
  PROVE  /\ Claims(k) \in 0..due[QueueOf(k)]
         /\ Claims(k) <= capacity - Total(jobs)
         /\ Claims(k) = Limit(k) \/ Claims(k) = due[QueueOf(k)]
<1>a. capacity \in Nat /\ QueueOf(k) \in Queues
  BY QueuesConstants, Positions DEF QTypeOK
<1>b. \A q \in Queues : jobs[q] \in Nat /\ due[q] \in Nat
  BY QueuesConstants DEF QTypeOK
<1>c. Total(jobs) \in Nat
  BY <1>b DEF Total, Queues
<1>d. Quota(capacity, QueueOf(k)) \in Nat
  BY <1>a, QuotasAddUp
<1>1. /\ capacity \in Nat /\ Total(jobs) \in Nat /\ QueueOf(k) \in Queues
      /\ due[QueueOf(k)] \in Nat /\ Quota(capacity, QueueOf(k)) \in Nat
  BY <1>a, <1>b, <1>c, <1>d
<1>2. Limit(k) \in Int /\ Limit(k) <= capacity - Total(jobs)
  BY <1>1 DEF Limit, Least
<1>. QED
  BY <1>1, <1>2 DEF Claims, Least

LEMMA Sums ==
  ASSUME NEW f \in [Queues -> Nat], NEW q \in Queues, NEW n \in Nat
  PROVE  /\ [f EXCEPT ![q] = @ + n] \in [Queues -> Nat]
         /\ Total([f EXCEPT ![q] = @ + n]) = Total(f) + n
BY DEF Queues, Total

LEMMA QTypeInit == QInit => QTypeOK
BY QueuesConstants DEF QInit, QTypeOK, Nothing, Total, Queues, Rounds

LEMMA QTypeStep == QTypeOK /\ [QNext]_qvars => QTypeOK'
<1>. SUFFICES ASSUME QTypeOK, [QNext]_qvars PROVE QTypeOK'
  OBVIOUS
<1>. USE QueuesConstants
<1>1. ASSUME NEW c \in Capacities, Tick(c) PROVE QTypeOK'
  BY <1>1 DEF Tick, QTypeOK, Nothing, Total, Queues, Rounds
<1>2. ASSUME NEW k \in 1..Rounds, Claim(k) PROVE QTypeOK'
  <2>1. CASE Limit(k) > 0
    <3>. DEFINE q == QueueOf(k)
    <3>1. q \in Queues /\ Claims(k) \in 0..due[q] /\ Claims(k) <= capacity - Total(jobs)
      BY <1>2, <2>1, Positions, ClaimsFit DEF Claim
    <3>2. jobs' \in [Queues -> Nat] /\ Total(jobs') = Total(jobs) + Claims(k)
      <4>1. jobs' = [jobs EXCEPT ![q] = @ + Claims(k)]
        BY <1>2, <2>1 DEF Claim
      <4>2. jobs \in [Queues -> Nat] /\ Claims(k) \in Nat
        BY <3>1 DEF QTypeOK
      <4>. QED
        BY <4>1, <4>2, <3>1, Sums
    <3>3. Total(jobs) \in Nat /\ capacity \in Nat
      BY DEF QTypeOK, Total, Queues
    <3>4. due[q] \in 0..MaxDue
      BY <3>1 DEF QTypeOK
    <3>5. due[q] - Claims(k) \in 0..MaxDue
      BY <3>1, <3>4
    <3>6. due' \in [Queues -> 0..MaxDue] /\ left' \in [Queues -> 0..MaxDue]
      BY <1>2, <2>1, <3>1, <3>5 DEF Claim, QTypeOK
    <3>7. Total(jobs') <= capacity'
      BY <1>2, <3>1, <3>2, <3>3 DEF Claim
    <3>. QED
      BY <1>2, <3>2, <3>6, <3>7 DEF Claim, QTypeOK, Rounds
  <2>2. CASE ~(Limit(k) > 0)
    BY <1>2, <2>2 DEF Claim, QTypeOK, Total, Rounds
  <2>. QED
    BY <2>1, <2>2
<1>3. CASE Finish
  BY <1>3 DEF Finish, QTypeOK, Nothing, Total, Rounds
<1>4. CASE ClaimFails
  BY <1>4 DEF ClaimFails, QTypeOK, Nothing, Total, Queues, Rounds
<1>5. ASSUME NEW q \in Queues, Arrive(q) PROVE QTypeOK'
  BY <1>5 DEF Arrive, QTypeOK, Total
<1>6. ASSUME NEW q \in Queues, Leave(q) PROVE QTypeOK'
  BY <1>6 DEF Leave, QTypeOK, Total
<1>7. CASE UNCHANGED qvars
  BY <1>7 DEF qvars, QTypeOK, Total
<1>. QED
  BY <1>1, <1>2, <1>3, <1>4, <1>5, <1>6, <1>7 DEF QNext

\* The types, and that a batch is never larger than the capacity it was claimed
\* for (the limit claim_due hands to every query).
THEOREM QueuesTypeCorrect == QSpec => []QTypeOK
<1>1. QInit => QTypeOK
  BY QTypeInit
<1>2. QTypeOK /\ [QNext]_qvars => QTypeOK'
  BY QTypeStep
<1>. QED
  BY <1>1, <1>2, PTL DEF QSpec

(***************************************************************************)
(* The two passes.  In the first one a query finds its whole quota free,   *)
(* because the queries before it took no more than theirs and the quotas   *)
(* add up to the capacity.                                                 *)
(***************************************************************************)
FirstPass ==
  round \in 1..5 =>
    \A i \in 1..4 :
      /\ i < round => /\ jobs[Order[i]] <= Quota(capacity, Order[i])
                      /\ \/ jobs[Order[i]] >= Quota(capacity, Order[i])
                         \/ left[Order[i]] = 0
      /\ i >= round => jobs[Order[i]] = 0

SecondPass ==
  round \in 5..(Rounds + 1) =>
    \A i \in 1..4 :
      i < round - 4 => left[Order[i]] = 0 \/ Total(jobs) = capacity

QInv == QTypeOK /\ FirstPass /\ SecondPass

LEMMA Orders ==
  /\ \A i \in 1..4 : Order[i] \in Queues
  /\ \A i, j \in 1..4 : Order[i] = Order[j] => i = j
  /\ \A q \in Queues : \E i \in 1..4 : q = Order[i]
  /\ \A k \in 1..4 : QueueOf(k) = Order[k] /\ QueueOf(k + 4) = Order[k]
<1>1. \A i \in 1..4 : Order[i] \in Queues
  BY DEF Order, Queues
<1>2. \A i, j \in 1..4 : Order[i] = Order[j] => i = j
  BY DEF Order
<1>3. \A q \in Queues : \E i \in 1..4 : q = Order[i]
  BY DEF Order, Queues
<1>4. \A k \in 1..4 : QueueOf(k) = Order[k] /\ QueueOf(k + 4) = Order[k]
  BY DEF QueueOf
<1>. QED
  BY <1>1, <1>2, <1>3, <1>4

LEMMA WholeQuotaFree ==
  ASSUME QInv, NEW k \in 1..4, round = k
  PROVE  Limit(k) = Quota(capacity, Order[k])
<1>1. /\ Quota(capacity, "CANDIDATE") \in Nat /\ Quota(capacity, "PROBATION") \in Nat
      /\ Quota(capacity, "DORMANT") \in Nat /\ Quota(capacity, "ACTIVE") \in Nat
      /\ Quota(capacity, "CANDIDATE") + Quota(capacity, "PROBATION")
         + Quota(capacity, "DORMANT") + Quota(capacity, "ACTIVE") = capacity
  <2>1. capacity \in Nat
    BY QueuesConstants DEF QInv, QTypeOK
  <2>. QED
    BY <2>1, QuotasAddUp DEF Total, Queues
<1>2. \A i \in 1..4 :
        /\ i < k => jobs[Order[i]] <= Quota(capacity, Order[i])
        /\ i >= k => jobs[Order[i]] = 0
  BY DEF QInv, FirstPass
<1>3. /\ Order[1] = "CANDIDATE" /\ Order[2] = "PROBATION"
      /\ Order[3] = "DORMANT" /\ Order[4] = "ACTIVE"
  BY DEF Order
<1>4. /\ jobs["CANDIDATE"] \in Nat /\ jobs["PROBATION"] \in Nat
      /\ jobs["DORMANT"] \in Nat /\ jobs["ACTIVE"] \in Nat
  BY DEF QInv, QTypeOK, Queues
<1>5. Quota(capacity, Order[k]) <= capacity - Total(jobs)
  <2>1. CASE k = 1
    <3>1. /\ jobs["CANDIDATE"] = 0 /\ jobs["PROBATION"] = 0
          /\ jobs["DORMANT"] = 0 /\ jobs["ACTIVE"] = 0
      BY <1>2, <1>3, <2>1
    <3>2. Total(jobs) = 0
      BY <3>1 DEF Total
    <3>. QED
      BY <1>1, <1>3, <2>1, <3>2
  <2>2. CASE k = 2
    BY <1>1, <1>2, <1>3, <1>4, <2>2 DEF Total
  <2>3. CASE k = 3
    BY <1>1, <1>2, <1>3, <1>4, <2>3 DEF Total
  <2>4. CASE k = 4
    BY <1>1, <1>2, <1>3, <1>4, <2>4 DEF Total
  <2>. QED
    BY <2>1, <2>2, <2>3, <2>4
<1>6. /\ Quota(capacity, Order[k]) \in Nat
      /\ capacity - Total(jobs) \in Int
  <2>1. capacity \in Nat /\ Total(jobs) \in Nat
    BY <1>4, QueuesConstants DEF QInv, QTypeOK, Total
  <2>. QED
    BY <1>1, <1>3, <2>1, QuotasAddUp, Orders
<1>7. QueueOf(k) = Order[k]
  BY Orders
<1>. QED
  BY <1>5, <1>6, <1>7 DEF Limit, Least

LEMMA FirstPassClaim ==
  ASSUME QInv, NEW k \in 1..Rounds, Claim(k)
  PROVE  FirstPass'
<1>. SUFFICES ASSUME NEW i \in 1..4, round' \in 1..5
              PROVE  /\ i < round' => /\ jobs'[Order[i]] <= Quota(capacity', Order[i])
                                      /\ \/ jobs'[Order[i]] >= Quota(capacity', Order[i])
                                         \/ left'[Order[i]] = 0
                     /\ i >= round' => jobs'[Order[i]] = 0
  BY DEF FirstPass
<1>. DEFINE p == Order[i]  q == Order[k]
<1>1. k \in 1..4 /\ round = k /\ round' = k + 1 /\ capacity' = capacity
  BY DEF Claim, Rounds
<1>2. /\ QueueOf(k) = q /\ q \in Queues /\ p \in Queues /\ (p = q => i = k)
      /\ Limit(k) = Quota(capacity, q)
  BY <1>1, Orders, WholeQuotaFree
<1>3. /\ i < k => jobs[p] <= Quota(capacity, p) /\ (jobs[p] >= Quota(capacity, p) \/ left[p] = 0)
      /\ i >= k => jobs[p] = 0
  BY <1>1 DEF QInv, FirstPass
<1>4. /\ Quota(capacity, q) \in Nat /\ Quota(capacity, p) \in Nat
      /\ jobs[p] \in Nat /\ jobs[q] \in Nat
  BY <1>2, QueuesConstants, QuotasAddUp DEF QInv, QTypeOK
<1>5. CASE Limit(k) > 0
  <2>1. /\ Claims(k) \in Nat /\ Claims(k) <= Limit(k) /\ due[q] \in Nat
        /\ Claims(k) = Limit(k) \/ Claims(k) = due[q]
    BY <1>1, <1>2, <1>4, <1>5, ClaimsFit, QueuesConstants DEF QInv, QTypeOK, Claims, Least
  <2>2. /\ jobs' = [jobs EXCEPT ![q] = @ + Claims(k)]
        /\ left' = [left EXCEPT ![q] = due[q] - Claims(k)]
    BY <1>2, <1>5 DEF Claim
  <2>3. jobs \in [Queues -> Nat] /\ left \in [Queues -> 0..MaxDue]
    BY DEF QInv, QTypeOK
  <2>4. CASE i = k
    <3>1. jobs'[p] = Claims(k) /\ left'[p] = due[q] - Claims(k)
      BY <1>2, <1>3, <1>4, <2>1, <2>2, <2>3, <2>4
    <3>. QED
      BY <1>1, <1>2, <2>1, <2>4, <3>1
  <2>5. CASE i # k
    <3>1. jobs'[p] = jobs[p] /\ left'[p] = left[p]
      BY <1>2, <2>2, <2>3, <2>5
    <3>. QED
      BY <1>1, <1>3, <2>5, <3>1
  <2>. QED
    BY <2>4, <2>5
<1>6. CASE ~(Limit(k) > 0)
  <2>1. jobs' = jobs /\ left' = left /\ Quota(capacity, q) = 0
    BY <1>2, <1>4, <1>6 DEF Claim
  <2>. QED
    BY <1>1, <1>2, <1>3, <1>4, <2>1
<1>. QED
  BY <1>5, <1>6

LEMMA SecondPassClaim ==
  ASSUME QInv, NEW k \in 1..Rounds, Claim(k)
  PROVE  SecondPass'
<1>. SUFFICES ASSUME NEW i \in 1..4, round' \in 5..(Rounds + 1), i < round' - 4
              PROVE  left'[Order[i]] = 0 \/ Total(jobs') = capacity'
  BY DEF SecondPass
<1>. DEFINE p == Order[i]  q == QueueOf(k)
<1>1. k \in 5..8 /\ round = k /\ round' = k + 1 /\ capacity' = capacity
  BY DEF Claim, Rounds
<1>2. q = Order[k - 4] /\ q \in Queues /\ p \in Queues
  <2>1. k - 4 \in 1..4 /\ k = (k - 4) + 4
    BY <1>1
  <2>. QED
    BY <2>1, Orders
<1>3. i < k - 4 => left[p] = 0 \/ Total(jobs) = capacity
  BY <1>1 DEF QInv, SecondPass, Rounds
<1>4. Total(jobs) \in Nat /\ capacity \in Nat /\ Total(jobs) <= capacity
  <2>1. \A x \in Queues : jobs[x] \in Nat
    BY DEF QInv, QTypeOK
  <2>. QED
    BY <2>1, QueuesConstants DEF QInv, QTypeOK, Total, Queues
<1>5. Limit(k) = capacity - Total(jobs)
  BY <1>1 DEF Limit
<1>6. CASE Limit(k) > 0
  <2>1. Claims(k) \in Nat /\ (Claims(k) = Limit(k) \/ Claims(k) = due[q]) /\ due[q] \in Nat
    BY <1>1, <1>2, <1>6, ClaimsFit, QueuesConstants DEF QInv, QTypeOK
  <2>2. /\ jobs' = [jobs EXCEPT ![q] = @ + Claims(k)]
        /\ left' = [left EXCEPT ![q] = due[q] - Claims(k)]
    BY <1>6 DEF Claim
  <2>3. jobs \in [Queues -> Nat] /\ left \in [Queues -> 0..MaxDue]
    BY DEF QInv, QTypeOK
  <2>4. Total(jobs') = Total(jobs) + Claims(k)
    BY <1>2, <2>1, <2>2, <2>3, Sums
  <2>5. CASE Claims(k) = Limit(k)
    BY <1>1, <1>4, <1>5, <2>4, <2>5
  <2>6. CASE Claims(k) = due[q] /\ p = q
    BY <1>2, <2>1, <2>2, <2>3, <2>6
  <2>7. CASE p # q
    <3>1. i < k - 4
      BY <1>1, <1>2, <2>7
    <3>2. left'[p] = left[p] /\ Total(jobs) # capacity
      BY <1>2, <1>4, <1>5, <1>6, <2>2, <2>3, <2>7
    <3>. QED
      BY <1>3, <3>1, <3>2
  <2>. QED
    BY <2>1, <2>5, <2>6, <2>7
<1>7. CASE ~(Limit(k) > 0)
  <2>1. jobs' = jobs
    BY <1>7 DEF Claim
  <2>. QED
    BY <1>1, <1>4, <1>5, <1>7, <2>1
<1>. QED
  BY <1>6, <1>7

LEMMA PassesStep == QInv /\ [QNext]_qvars => QInv'
<1>. SUFFICES ASSUME QInv, [QNext]_qvars PROVE QInv'
  OBVIOUS
<1>1. QTypeOK'
  BY QTypeStep DEF QInv
<1>2. FirstPass' /\ SecondPass'
  <2>1. ASSUME NEW c \in Capacities, Tick(c) PROVE FirstPass' /\ SecondPass'
    <3>1. round' = 1 /\ jobs' = Nothing
      BY <2>1 DEF Tick
    <3>2. \A i \in 1..4 : jobs'[Order[i]] = 0
      BY <3>1, Orders DEF Nothing
    <3>. QED
      BY <3>1, <3>2 DEF FirstPass, SecondPass, Rounds
  <2>2. ASSUME NEW k \in 1..Rounds, Claim(k) PROVE FirstPass' /\ SecondPass'
    BY <2>2, FirstPassClaim, SecondPassClaim
  <2>3. CASE Finish \/ ClaimFails
    BY <2>3 DEF Finish, ClaimFails, FirstPass, SecondPass
  <2>4. CASE (\E q \in Queues : Arrive(q) \/ Leave(q)) \/ UNCHANGED qvars
    <3>1. UNCHANGED << capacity, round, jobs, left >>
      BY <2>4 DEF Arrive, Leave, qvars
    <3>. QED
      BY <3>1 DEF QInv, FirstPass, SecondPass, Total
  <2>. QED
    BY <2>1, <2>2, <2>3, <2>4 DEF QNext
<1>. QED
  BY <1>1, <1>2 DEF QInv

LEMMA PassesInit == QInit => QInv
BY QTypeInit DEF QInit, QInv, FirstPass, SecondPass

LEMMA PassesShare == QInv => CapacityIsShared
<1>. SUFFICES ASSUME QInv PROVE CapacityIsShared
  OBVIOUS
<1>1. ASSUME round = 5, NEW q \in Queues
      PROVE  jobs[q] >= Quota(capacity, q) \/ left[q] = 0
  BY <1>1, Orders DEF QInv, FirstPass
<1>2. ASSUME round = Rounds + 1, Total(jobs) < capacity PROVE left = Nothing
  <2>1. \A q \in Queues : left[q] = 0
    <3>1. Total(jobs) # capacity
      <4>1. Total(jobs) \in Nat /\ capacity \in Nat
        BY QueuesConstants DEF QInv, QTypeOK, Total, Queues
      <4>. QED
        BY <1>2, <4>1
    <3>. QED
      BY <1>2, <3>1, Orders DEF QInv, SecondPass, Rounds
  <2>. QED
    BY <2>1 DEF QInv, QTypeOK, Nothing
<1>. QED
  BY <1>1, <1>2 DEF CapacityIsShared

\* Whatever the capacity and however many rows are due: no queue's overflow comes
\* out of another one's quota, and no slot of a batch is wasted (claim_due).
THEOREM SharesSound == QSpec => []CapacityIsShared
<1>1. QInit => QInv
  BY PassesInit
<1>2. QInv /\ [QNext]_qvars => QInv'
  BY PassesStep
<1>3. QInv => CapacityIsShared
  BY PassesShare
<1>. QED
  BY <1>1, <1>2, <1>3, PTL DEF QSpec

(***************************************************************************)
(* Stacks of groups.                                                       *)
(***************************************************************************)
Members(s) == UNION {s[i] : i \in 1..Len(s)}

LEMMA MembersOfTail ==
  ASSUME NEW s \in Seq(SUBSET Jobs), s # << >>
  PROVE  /\ Tail(s) \in Seq(SUBSET Jobs) /\ Head(s) \in SUBSET Jobs
         /\ Members(s) = Head(s) \cup Members(Tail(s))
<1>1. /\ Tail(s) \in Seq(SUBSET Jobs) /\ Len(Tail(s)) = Len(s) - 1
      /\ \A i \in 1..Len(Tail(s)) : Tail(s)[i] = s[i + 1]
      /\ Head(s) = s[1] /\ Len(s) \in Nat \ {0} /\ s[1] \in SUBSET Jobs
  OBVIOUS
<1>2. ASSUME NEW j \in Members(s) PROVE j \in Head(s) \cup Members(Tail(s))
  <2>1. PICK i \in 1..Len(s) : j \in s[i]
    BY <1>2 DEF Members
  <2>2. i = 1 \/ (i - 1 \in 1..Len(Tail(s)) /\ Tail(s)[i - 1] = s[i])
    BY <1>1
  <2>. QED
    BY <1>1, <2>1, <2>2 DEF Members
<1>3. ASSUME NEW j \in Head(s) \cup Members(Tail(s)) PROVE j \in Members(s)
  <2>1. CASE j \in Head(s)
    BY <1>1, <2>1 DEF Members
  <2>2. CASE j \in Members(Tail(s))
    <3>1. PICK i \in 1..Len(Tail(s)) : j \in Tail(s)[i]
      BY <2>2 DEF Members
    <3>2. i + 1 \in 1..Len(s) /\ j \in s[i + 1]
      BY <1>1, <3>1
    <3>. QED
      BY <3>2 DEF Members
  <2>. QED
    BY <1>3, <2>1, <2>2
<1>. QED
  BY <1>1, <1>2, <1>3

LEMMA MembersOfSplit ==
  ASSUME NEW a \in SUBSET Jobs, NEW b \in SUBSET Jobs, NEW s \in Seq(SUBSET Jobs)
  PROVE  /\ << a, b >> \o s \in Seq(SUBSET Jobs) /\ << a, b >> \o s # << >>
         /\ Members(<< a, b >> \o s) = a \cup b \cup Members(s)
<1>. DEFINE t == << a, b >> \o s
<1>1. /\ t \in Seq(SUBSET Jobs) /\ Len(t) = Len(s) + 2 /\ t[1] = a /\ t[2] = b
      /\ \A i \in 1..Len(s) : t[i + 2] = s[i]
      /\ Len(s) \in Nat
  OBVIOUS
<1>. HIDE DEF t
<1>2. ASSUME NEW j \in Members(t) PROVE j \in a \cup b \cup Members(s)
  <2>1. PICK i \in 1..Len(t) : j \in t[i]
    BY <1>2 DEF Members
  <2>2. i = 1 \/ i = 2 \/ (i - 2 \in 1..Len(s) /\ s[i - 2] = t[i])
    BY <1>1
  <2>. QED
    BY <1>1, <2>1, <2>2 DEF Members
<1>3. ASSUME NEW j \in a \cup b \cup Members(s) PROVE j \in Members(t)
  <2>1. CASE j \in a \cup b
    <3>1. 1 \in 1..Len(t) /\ 2 \in 1..Len(t)
      BY <1>1
    <3>. QED
      BY <1>1, <2>1, <3>1 DEF Members
  <2>2. CASE j \in Members(s)
    <3>1. PICK i \in 1..Len(s) : j \in s[i]
      BY <2>2 DEF Members
    <3>2. i + 2 \in 1..Len(t) /\ j \in t[i + 2]
      BY <1>1, <3>1
    <3>. QED
      BY <3>2 DEF Members
  <2>. QED
    BY <1>3, <2>1, <2>2
<1>4. t # << >>
  BY <1>1
<1>. QED
  BY <1>1, <1>2, <1>3, <1>4 DEF t

LEMMA MembersOfOne ==
  ASSUME NEW a \in SUBSET Jobs
  PROVE  << a >> \in Seq(SUBSET Jobs) /\ Members(<< a >>) = a
BY DEF Members

(***************************************************************************)
(* Types.                                                                  *)
(***************************************************************************)
LEMMA TypeInit == Init => TypeOK
BY BatchConstants DEF Init, TypeOK, None

LEMMA GroupIsOfJobs ==
  ASSUME TypeOK
  PROVE  /\ Group \in SUBSET Jobs
         /\ groups # << >> => /\ Group = Head(groups)
                              /\ Tail(groups) \in Seq(SUBSET Jobs)
         /\ Grouped \in SUBSET Jobs
<1>1. CASE groups = << >>
  <2>1. \A j \in Grouped : FALSE
    BY <1>1 DEF Grouped
  <2>. QED
    BY <1>1, <2>1 DEF Group
<1>2. CASE groups # << >>
  <2>1. /\ Tail(groups) \in Seq(SUBSET Jobs) /\ Head(groups) \in SUBSET Jobs
    BY <1>2, MembersOfTail DEF TypeOK
  <2>2. \A i \in 1..Len(groups) : groups[i] \in SUBSET Jobs
    BY DEF TypeOK
  <2>. QED
    BY <1>2, <2>1, <2>2 DEF Group, Grouped
<1>. QED
  BY <1>1, <1>2

(***************************************************************************)
(* Nobody is lost: while groups are tested, a proxy either has its report  *)
(* or is in a group that is still to come.  The checks end before that,    *)
(* and a proxy being checked is in neither of the two.                     *)
(***************************************************************************)
Accounted ==
  /\ at \in {"ports", "start", "test"} => groups # << >> /\ Known \cup Grouped = Jobs
  /\ at = "check" => mine = {} /\ checking \cap (Known \cup Grouped) = {}
  /\ at # "check" => checking = {}
  /\ EveryJobIsReported

LEMMA FreshTypes ==
  ASSUME Fresh, others' = others, TypeOK, at' \in {"idle", "check"}
  PROVE  TypeOK'
BY BatchConstants DEF Fresh, TypeOK, None

LEMMA ProceedTypes ==
  ASSUME TypeOK, NEW rest \in Seq(SUBSET Jobs), Proceed(rest),
         UNCHANGED << checking, over, others, asked >>,
         report' \in [Jobs -> Results \cup {None}], mishaps' \in 0..Mishaps
  PROVE  TypeOK'
BY DEF Proceed, TypeOK

LEMMA ReportedTypes ==
  ASSUME TypeOK, NEW S, NEW result \in Results
  PROVE  Reported(S, result) \in [Jobs -> Results \cup {None}]
BY DEF Reported, TypeOK

LEMMA TypeStep == TypeOK /\ Accounted /\ [Next]_vars => TypeOK'
<1>. SUFFICES ASSUME TypeOK, Accounted, [Next]_vars PROVE TypeOK'
  OBVIOUS
<1>1. CASE Begin
  BY <1>1, FreshTypes DEF Begin
<1>2. ASSUME NEW j \in Jobs, StartCheck(j) PROVE TypeOK'
  BY <1>2 DEF StartCheck, TypeOK
<1>3. ASSUME NEW j \in Jobs, CheckPasses(j) PROVE TypeOK'
  <2>1. Survivors \cup {j} \in SUBSET Jobs
    BY GroupIsOfJobs DEF Survivors
  <2>2. << Survivors \cup {j} >> \in Seq(SUBSET Jobs)
    BY <2>1, MembersOfOne
  <2>. QED
    BY <1>3, <2>2 DEF CheckPasses, TypeOK
<1>4. ASSUME NEW j \in Jobs, NEW result \in {"invalid", "unreachable"}, CheckFails(j, result)
      PROVE  TypeOK'
  BY <1>4 DEF CheckFails, TypeOK, Results
<1>5. CASE ChecksEnd
  BY <1>5 DEF ChecksEnd, TypeOK
<1>6. ASSUME NEW port \in Ports, LookAt(port) PROVE TypeOK'
  BY <1>6 DEF LookAt, TypeOK
<1>7. CASE Reserve \/ PortsTaken
  BY <1>7 DEF Reserve, PortsTaken, TypeOK
<1>8. CASE PortsExhausted
  <2>1. groups # << >>
    BY <1>8 DEF PortsExhausted, Accounted
  <2>2. /\ Tail(groups) \in Seq(SUBSET Jobs)
        /\ report' \in [Jobs -> Results \cup {None}] /\ mishaps' \in 0..Mishaps
    BY <1>8, <2>1, GroupIsOfJobs, ReportedTypes DEF PortsExhausted, TypeOK, Results
  <2>. QED
    BY <1>8, <2>2, ProceedTypes DEF PortsExhausted
<1>9. CASE Starts
  BY <1>9 DEF Starts, TypeOK
<1>10. CASE StartFails
  <2>1. groups # << >>
    BY <1>10 DEF StartFails, Accounted
  <2>2. /\ Tail(groups) \in Seq(SUBSET Jobs)
        /\ report' \in [Jobs -> Results \cup {None}]
    BY <1>10, <2>1, GroupIsOfJobs, ReportedTypes DEF StartFails, Results
  <2>3. mishaps' \in 0..Mishaps
    BY <1>10, BatchConstants DEF StartFails, Fault, TypeOK
  <2>. QED
    BY <1>10, <2>2, <2>3, ProceedTypes DEF StartFails
<1>11. ASSUME NEW half \in SUBSET Jobs, StartSplits(half) PROVE TypeOK'
  <2>1. groups # << >>
    BY <1>11 DEF StartSplits, Accounted
  <2>2. PICK other \in SUBSET Group : Proceed(<< half, other >> \o Tail(groups))
    BY <1>11 DEF StartSplits
  <2>3. << half, other >> \o Tail(groups) \in Seq(SUBSET Jobs)
    <3>1. other \in SUBSET Jobs /\ Tail(groups) \in Seq(SUBSET Jobs)
      BY <2>1, GroupIsOfJobs
    <3>. QED
      BY <3>1, MembersOfSplit
  <2>4. mishaps' \in 0..Mishaps /\ report' \in [Jobs -> Results \cup {None}]
    BY <1>11, BatchConstants DEF StartSplits, Fault, TypeOK
  <2>. QED
    BY <1>11, <2>2, <2>3, <2>4, ProceedTypes DEF StartSplits
<1>12. ASSUME NEW j \in Jobs, SendRequest(j) PROVE TypeOK'
  BY <1>12 DEF SendRequest, TypeOK
<1>13. ASSUME NEW j \in Jobs, TestTimesOut(j) PROVE TypeOK'
  BY <1>13 DEF TestTimesOut, TypeOK, Results
<1>14. ASSUME NEW j \in Jobs, NEW result \in {"failed", "passed"}, TestEnds(j, result)
       PROVE  TypeOK'
  BY <1>14 DEF TestEnds, TypeOK, Results
<1>15. CASE TestsEnd
  <2>1. Tail(groups) \in Seq(SUBSET Jobs)
    BY <1>15, GroupIsOfJobs DEF TestsEnd, Accounted
  <2>2. report' \in [Jobs -> Results \cup {None}] /\ mishaps' \in 0..Mishaps
    BY <1>15 DEF TestsEnd, TypeOK
  <2>. QED
    BY <1>15, <2>1, <2>2, ProceedTypes DEF TestsEnd
<1>16. CASE HandOver \/ Abort
  BY <1>16, FreshTypes DEF HandOver, Abort
<1>17. ASSUME NEW j \in Jobs, DeadlinePasses(j) PROVE TypeOK'
  BY <1>17 DEF DeadlinePasses, TypeOK
<1>18. ASSUME NEW port \in Ports, OthersTake(port) \/ OthersLeave(port) PROVE TypeOK'
  BY <1>18 DEF OthersTake, OthersLeave, TypeOK
<1>19. CASE UNCHANGED vars
  BY <1>19 DEF vars, TypeOK
<1>. QED
  BY <1>1, <1>2, <1>3, <1>4, <1>5, <1>6, <1>7, <1>8, <1>9, <1>10, <1>11, <1>12,
     <1>13, <1>14, <1>15, <1>16, <1>17, <1>18, <1>19 DEF Next, Run, Check, Test

(***************************************************************************)
(* The step of Accounted.                                                  *)
(***************************************************************************)
LEMMA ProceedAccounts ==
  ASSUME NEW rest \in Seq(SUBSET Jobs), Proceed(rest), checking' = {},
         Known' \cup Members(rest) = Jobs
  PROVE  Accounted'
<1>1. groups' = rest /\ mine' = {} /\ at' = IF rest = << >> THEN "done" ELSE "ports"
  BY DEF Proceed
<1>2. rest = << >> => Members(rest) = {}
  BY DEF Members
<1>3. Grouped' = Members(rest)
  BY <1>1 DEF Grouped, Members
<1>. QED
  BY <1>1, <1>2, <1>3 DEF Accounted, EveryJobIsReported

LEMMA ReportedKnown ==
  ASSUME TypeOK, NEW result \in Results, report' = Reported(Group, result)
  PROVE  Known' = Known \cup Group
<1>1. None \notin Results
  BY DEF None, Results
<1>2. Group \in SUBSET Jobs
  BY GroupIsOfJobs
<1>. QED
  BY <1>1, <1>2 DEF Known, Reported

\* A report more, and nothing else that counts.
LEMMA ReportAdds ==
  ASSUME TypeOK, NEW j \in Jobs, NEW result \in Results,
         report' = [report EXCEPT ![j] = result]
  PROVE  Known' = Known \cup {j}
BY DEF Known, TypeOK, None, Results

\* The group in hand is what is tested, and what is left is the rest.
LEMMA InHand ==
  ASSUME TypeOK, Accounted, at \in {"ports", "start", "test"}
  PROVE  /\ Tail(groups) \in Seq(SUBSET Jobs) /\ Group \in SUBSET Jobs
         /\ Known \cup Group \cup Members(Tail(groups)) = Jobs
         /\ checking = {}
<1>1. groups # << >> /\ Known \cup Grouped = Jobs /\ checking = {}
  BY DEF Accounted
<1>2. Grouped = Members(groups)
  BY DEF Grouped, Members
<1>3. groups \in Seq(SUBSET Jobs)
  BY DEF TypeOK
<1>4. /\ Tail(groups) \in Seq(SUBSET Jobs) /\ Head(groups) \in SUBSET Jobs
      /\ Members(groups) = Head(groups) \cup Members(Tail(groups))
  BY <1>1, <1>3, MembersOfTail
<1>. QED
  BY <1>1, <1>2, <1>4, GroupIsOfJobs

\* A step of the tests that leaves the groups as they are.
LEMMA StaysAccounted ==
  ASSUME TypeOK, Accounted, Known \subseteq Known', groups' = groups,
         checking' = checking, at \in {"ports", "start", "test"},
         at' \in {"ports", "start", "test"}
  PROVE  Accounted'
<1>1. Known' \subseteq Jobs /\ Grouped' = Grouped /\ Grouped \subseteq Jobs
  BY GroupIsOfJobs DEF Known, Grouped
<1>. QED
  BY <1>1 DEF Accounted, EveryJobIsReported

LEMMA AccountedStep == TypeOK /\ Accounted /\ [Next]_vars => Accounted'
<1>. SUFFICES ASSUME TypeOK, Accounted, [Next]_vars PROVE Accounted'
  OBVIOUS
<1>1. CASE Begin \/ HandOver \/ Abort
  BY <1>1 DEF Begin, HandOver, Abort, Fresh, Accounted, EveryJobIsReported
<1>2. ASSUME UNCHANGED << at, checking, groups, mine, report >> PROVE Accounted'
  BY <1>2 DEF Accounted, EveryJobIsReported, Known, Grouped
<1>3. ASSUME NEW j \in Jobs, StartCheck(j) PROVE Accounted'
  <2>1. Known' = Known /\ Grouped' = Grouped
    BY <1>3 DEF StartCheck, Known, Grouped
  <2>. QED
    BY <1>3, <2>1 DEF StartCheck, Survivors, Accounted, EveryJobIsReported
<1>4. ASSUME NEW j \in Jobs, CheckPasses(j) PROVE Accounted'
  <2>1. Survivors \cup {j} \in SUBSET Jobs
    BY GroupIsOfJobs DEF Survivors
  <2>2. Known' = Known /\ Grouped' = Grouped \cup {j}
    BY <1>4, <2>1, MembersOfOne DEF CheckPasses, Known, Grouped, Members, Survivors
  <2>. QED
    BY <1>4, <2>2 DEF CheckPasses, Accounted, EveryJobIsReported
<1>5. ASSUME NEW j \in Jobs, NEW result \in {"invalid", "unreachable"}, CheckFails(j, result)
      PROVE  Accounted'
  <2>1. Known' = Known \cup {j} /\ Grouped' = Grouped
    BY <1>5, ReportAdds DEF CheckFails, Results, Grouped
  <2>. QED
    BY <1>5, <2>1 DEF CheckFails, Accounted, EveryJobIsReported
<1>6. CASE ChecksEnd
  <2>1. checking = {}
    BY <1>6 DEF ChecksEnd, Survivors, Accounted, TypeOK
  <2>2. Known' = Known /\ Grouped' = Grouped /\ (groups = << >> => Grouped = {})
    BY <1>6 DEF ChecksEnd, Known, Grouped
  <2>. QED
    BY <1>6, <2>1, <2>2 DEF ChecksEnd, Survivors, Accounted, EveryJobIsReported
<1>7. ASSUME NEW port \in Ports, LookAt(port) PROVE Accounted'
  BY <1>7, StaysAccounted DEF LookAt, Known
<1>8. CASE Reserve \/ PortsTaken \/ Starts
  BY <1>8, StaysAccounted DEF Reserve, PortsTaken, Starts, Known
<1>9. CASE PortsExhausted
  <2>1. Known' = Known \cup Group
    BY <1>9, ReportedKnown DEF PortsExhausted, Results
  <2>. QED
    BY <1>9, <2>1, InHand, ProceedAccounts DEF PortsExhausted
<1>10. CASE StartFails
  <2>1. Known' = Known \cup Group
    BY <1>10, ReportedKnown DEF StartFails, Results
  <2>. QED
    BY <1>10, <2>1, InHand, ProceedAccounts DEF StartFails
<1>11. ASSUME NEW half \in SUBSET Jobs, StartSplits(half) PROVE Accounted'
  <2>1. PICK other \in SUBSET Group :
          Splits(half, other) /\ Proceed(<< half, other >> \o Tail(groups))
    BY <1>11 DEF StartSplits
  <2>2. /\ Tail(groups) \in Seq(SUBSET Jobs) /\ Group \in SUBSET Jobs /\ checking = {}
        /\ Known \cup Group \cup Members(Tail(groups)) = Jobs
    BY <1>11, InHand DEF StartSplits
  <2>3. /\ << half, other >> \o Tail(groups) \in Seq(SUBSET Jobs)
        /\ Members(<< half, other >> \o Tail(groups)) = half \cup other \cup Members(Tail(groups))
    <3>1. other \in SUBSET Jobs
      BY <2>2
    <3>2. \A s \in Seq(SUBSET Jobs) :
            /\ << half, other >> \o s \in Seq(SUBSET Jobs)
            /\ Members(<< half, other >> \o s) = half \cup other \cup Members(s)
      BY <3>1, MembersOfSplit
    <3>. QED
      BY <2>2, <3>2
  <2>4. Known' = Known /\ checking' = {} /\ half \cup other = Group
    BY <1>11, <2>1, <2>2 DEF StartSplits, Known, Splits
  <2>5. Known' \cup Members(<< half, other >> \o Tail(groups)) = Jobs
    BY <2>2, <2>3, <2>4
  <2>. QED
    BY <2>1, <2>3, <2>4, <2>5, ProceedAccounts
<1>12. ASSUME NEW j \in Jobs, SendRequest(j) PROVE Accounted'
  BY <1>12, StaysAccounted DEF SendRequest, Known
<1>13. ASSUME NEW j \in Jobs, TestTimesOut(j) PROVE Accounted'
  <2>1. Known \subseteq Known'
    BY <1>13, ReportAdds DEF TestTimesOut, Results
  <2>. QED
    BY <1>13, <2>1, StaysAccounted DEF TestTimesOut
<1>14. ASSUME NEW j \in Jobs, NEW result \in {"failed", "passed"}, TestEnds(j, result)
       PROVE  Accounted'
  <2>1. Known \subseteq Known'
    BY <1>14, ReportAdds DEF TestEnds, Results
  <2>. QED
    BY <1>14, <2>1, StaysAccounted DEF TestEnds
<1>15. CASE TestsEnd
  <2>1. Known' = Known /\ Group \subseteq Known
    BY <1>15 DEF TestsEnd, Known
  <2>. QED
    BY <1>15, <2>1, InHand, ProceedAccounts DEF TestsEnd
<1>16. ASSUME NEW j \in Jobs, DeadlinePasses(j) PROVE Accounted'
  BY <1>2, <1>16 DEF DeadlinePasses
<1>17. ASSUME NEW port \in Ports, OthersTake(port) \/ OthersLeave(port) PROVE Accounted'
  BY <1>2, <1>17 DEF OthersTake, OthersLeave
<1>18. CASE UNCHANGED vars
  BY <1>2, <1>18 DEF vars
<1>. QED
  BY <1>1, <1>3, <1>4, <1>5, <1>6, <1>7, <1>8, <1>9, <1>10, <1>11, <1>12, <1>13,
     <1>14, <1>15, <1>16, <1>17, <1>18 DEF Next, Run, Check, Test

(***************************************************************************)
(* Who is blamed for a start.                                              *)
(***************************************************************************)
Blamed == {j \in Jobs \ Refused : report[j] = "not_started"}

LEMMA BlamedIsFinite == IsFiniteSet(Blamed) /\ Cardinality(Blamed) \in Nat
<1>1. Blamed \in SUBSET Jobs
  BY DEF Blamed
<1>2. IsFiniteSet(Blamed)
  BY <1>1, FS_Subset, BatchConstants
<1>. QED
  BY <1>2, FS_CardinalityType

LEMMA NobodyMoreBlamed ==
  ASSUME TypeOK, ColleaguesAreSpared, Blamed' \subseteq Blamed, mishaps' = mishaps
  PROVE  ColleaguesAreSpared'
<1>1. Cardinality(Blamed') <= Cardinality(Blamed) /\ Cardinality(Blamed') \in Nat
  <2>1. IsFiniteSet(Blamed')
    BY BlamedIsFinite, FS_Subset
  <2>. QED
    BY <2>1, BlamedIsFinite, FS_Subset, FS_CardinalityType
<1>. QED
  BY <1>1, BlamedIsFinite DEF ColleaguesAreSpared, Blamed, TypeOK

LEMMA NobodyBlamed ==
  ASSUME Blamed' = {}, mishaps' \in Nat
  PROVE  ColleaguesAreSpared'
BY FS_EmptySet DEF ColleaguesAreSpared, Blamed

LEMMA BlameStep ==
  TypeOK /\ Accounted /\ ColleaguesAreSpared /\ [Next]_vars => ColleaguesAreSpared'
<1>. SUFFICES ASSUME TypeOK, Accounted, ColleaguesAreSpared, [Next]_vars
              PROVE  ColleaguesAreSpared'
  OBVIOUS
<1>1. CASE Begin \/ HandOver \/ Abort
  <2>1. Blamed' = {} /\ mishaps' = 0
    BY <1>1 DEF Begin, HandOver, Abort, Fresh, Blamed, None
  <2>. QED
    BY <2>1, NobodyBlamed
<1>2. ASSUME UNCHANGED << report, mishaps >> PROVE ColleaguesAreSpared'
  BY <1>2 DEF ColleaguesAreSpared
<1>3. ASSUME NEW j \in Jobs, NEW result \in Results \ {"not_started"},
             report' = [report EXCEPT ![j] = result], mishaps' = mishaps
      PROVE  ColleaguesAreSpared'
  <2>1. Blamed' \subseteq Blamed
    BY <1>3 DEF Blamed, TypeOK
  <2>. QED
    BY <1>3, <2>1, NobodyMoreBlamed
<1>4. CASE PortsExhausted
  <2>1. Blamed' \subseteq Blamed
    BY <1>4 DEF PortsExhausted, Reported, Blamed
  <2>. QED
    BY <1>4, <2>1, NobodyMoreBlamed DEF PortsExhausted
<1>5. CASE StartFails
  <2>1. PICK j : Group = {j}
    <3>1. IsFiniteSet(Group)
      BY GroupIsOfJobs, FS_Subset, BatchConstants
    <3>. QED
      BY <1>5, <3>1, FS_Singleton DEF StartFails, Alone
  <2>2. Blamed' \subseteq Blamed \cup ({j} \ Refused)
    BY <1>5, <2>1 DEF StartFails, Reported, Blamed
  <2>3. CASE j \in Refused
    <3>1. Blamed' \subseteq Blamed /\ mishaps' = mishaps
      BY <1>5, <2>1, <2>2, <2>3 DEF StartFails, Fault
    <3>. QED
      BY <3>1, NobodyMoreBlamed
  <2>4. CASE j \notin Refused
    <3>1. mishaps' = mishaps + 1
      BY <1>5, <2>1, <2>4 DEF StartFails, Fault
    <3>2. /\ IsFiniteSet(Blamed \cup {j})
          /\ Cardinality(Blamed \cup {j}) \in Nat
          /\ Cardinality(Blamed \cup {j}) <= Cardinality(Blamed) + 1
      <4>1. /\ IsFiniteSet(Blamed \cup {j})
            /\ Cardinality(Blamed \cup {j}) = IF j \in Blamed THEN Cardinality(Blamed)
                                               ELSE Cardinality(Blamed) + 1
        BY BlamedIsFinite, FS_AddElement
      <4>2. Cardinality(Blamed) \in Nat
        BY BlamedIsFinite
      <4>. QED
        BY <4>1, <4>2
    <3>3. Blamed' \in SUBSET (Blamed \cup {j})
      BY <2>2
    <3>4. Cardinality(Blamed') <= Cardinality(Blamed \cup {j}) /\ Cardinality(Blamed') \in Nat
      BY <3>2, <3>3, FS_Subset, FS_CardinalityType
    <3>5. Cardinality(Blamed) <= mishaps /\ mishaps \in Nat
      BY DEF ColleaguesAreSpared, Blamed, TypeOK
    <3>6. Cardinality(Blamed') <= mishaps'
      BY <3>1, <3>2, <3>4, <3>5, BlamedIsFinite
    <3>. QED
      BY <3>6 DEF ColleaguesAreSpared, Blamed
  <2>. QED
    BY <2>3, <2>4
<1>6. ASSUME NEW half \in SUBSET Jobs, StartSplits(half) PROVE ColleaguesAreSpared'
  <2>1. report' = report /\ (mishaps' = mishaps \/ mishaps' = mishaps + 1)
    BY <1>6 DEF StartSplits, Fault
  <2>. QED
    BY <2>1, BlamedIsFinite DEF ColleaguesAreSpared, Blamed, TypeOK
<1>7. CASE Check
  BY <1>2, <1>3, <1>7 DEF Check, StartCheck, CheckPasses, CheckFails, Results
<1>8. CASE Test
  BY <1>2, <1>3, <1>8 DEF Test, SendRequest, TestTimesOut, TestEnds, Results
<1>9. CASE ChecksEnd \/ Reserve \/ PortsTaken \/ Starts \/ TestsEnd \/ UNCHANGED vars
  BY <1>2, <1>9 DEF ChecksEnd, Reserve, PortsTaken, Starts, TestsEnd, vars
<1>10. ASSUME NEW port \in Ports, LookAt(port) \/ OthersTake(port) \/ OthersLeave(port)
       PROVE  ColleaguesAreSpared'
  BY <1>2, <1>10 DEF LookAt, OthersTake, OthersLeave
<1>11. ASSUME NEW j \in Jobs, DeadlinePasses(j) PROVE ColleaguesAreSpared'
  BY <1>2, <1>11 DEF DeadlinePasses
<1>. QED
  BY <1>1, <1>4, <1>5, <1>6, <1>7, <1>8, <1>9, <1>10, <1>11 DEF Next, Run

(***************************************************************************)
(* The theorems.                                                           *)
(***************************************************************************)
IInv == TypeOK /\ Accounted /\ ColleaguesAreSpared

LEMMA InvInit == Init => IInv
<1>. SUFFICES ASSUME Init PROVE IInv
  OBVIOUS
<1>1. Accounted
  BY DEF Init, Accounted, EveryJobIsReported
<1>2. ColleaguesAreSpared
  <2>1. {j \in Jobs \ Refused : report[j] = "not_started"} = {}
    BY DEF Init, None
  <2>. QED
    BY <2>1, FS_EmptySet DEF Init, ColleaguesAreSpared
<1>. QED
  BY <1>1, <1>2, TypeInit DEF IInv

LEMMA InvStep == IInv /\ [Next]_vars => IInv'
BY TypeStep, AccountedStep, BlameStep DEF IInv

\* The types of the batch; a port is never reserved for the batch and taken by
\* somebody else at once (allocate_ports).
THEOREM TypeCorrect == Spec => []TypeOK
<1>1. Init => IInv
  BY InvInit
<1>2. IInv /\ [Next]_vars => IInv'
  BY InvStep
<1>3. IInv => TypeOK
  BY DEF IInv
<1>. QED
  BY <1>1, <1>2, <1>3, PTL DEF Spec

\* However the groups are split: every claimed proxy has its report at the end
\* and the ports are given back, and a proxy whose config is accepted is blamed
\* only for a start that failed with it alone (test_survivor_batch).
THEOREM SplitsSound == Spec => []SplitsAreHarmless
<1>1. Init => IInv
  BY InvInit
<1>2. IInv /\ [Next]_vars => IInv'
  BY InvStep
<1>3. IInv => SplitsAreHarmless
  BY DEF IInv, Accounted, SplitsAreHarmless
<1>. QED
  BY <1>1, <1>2, <1>3, PTL DEF Spec

(***************************************************************************)
(* The batch is finite.  Every step of the probe takes away from what      *)
(* remains to be done at most, and nothing adds to it: a group is worth    *)
(* as many trials as there are nodes in the tree of its splits, and each   *)
(* trial takes at most two steps for every port and for every proxy.       *)
(***************************************************************************)
InProgress == at \notin {"idle", "done"}

Apart(s) ==
  /\ \A i \in 1..Len(s) : s[i] # {}
  /\ \A i, k \in 1..Len(s) : i # k => s[i] \cap s[k] = {}

\* The groups to come are disjoint, and the survivors are one while they gather.
Stacked == Apart(groups) /\ (at = "check" => Len(groups) <= 1)

Trials(s) == 2 * Cardinality(Members(s)) - Len(s)

\* More than a trial of one group takes, and what the trial in hand has taken.
Cost == 2 * Cardinality(Ports) + 2 * Cardinality(Jobs) + 4

Spent ==
  IF at = "ports" THEN 2 * Cardinality(Ports \ unseen) + (IF found = {} THEN 1 ELSE 0)
  ELSE IF at = "start" THEN 2 * Cardinality(Ports) + 2
  ELSE 2 * Cardinality(Ports) + 3 + Cardinality(Group \cap asked) + Cardinality(Group \cap Known)

Unchecked == Jobs \ (checking \cup Known \cup Grouped)

Remaining ==
  IF ~InProgress THEN 0
  ELSE IF at = "check"
       THEN Cost * (2 * Cardinality(Jobs)) + 2 * Cardinality(Unchecked) + Cardinality(checking) + 1
       ELSE Cost * Trials(groups) - Spent

Most == Cost * (2 * Cardinality(Jobs)) + 2 * Cardinality(Jobs) + 1

(***************************************************************************)
(* Counting.                                                               *)
(***************************************************************************)
LEMMA SomeJobs ==
  ASSUME NEW S \in SUBSET Jobs
  PROVE  IsFiniteSet(S) /\ Cardinality(S) \in 0..Cardinality(Jobs) /\ Cardinality(Jobs) \in Nat
<1>1. IsFiniteSet(S) /\ Cardinality(S) <= Cardinality(Jobs)
  BY BatchConstants, FS_Subset
<1>2. Cardinality(S) \in Nat /\ Cardinality(Jobs) \in Nat
  BY <1>1, BatchConstants, FS_CardinalityType
<1>. QED
  BY <1>1, <1>2

LEMMA SomePorts ==
  ASSUME NEW S \in SUBSET Ports
  PROVE  IsFiniteSet(S) /\ Cardinality(S) \in 0..Cardinality(Ports) /\ Cardinality(Ports) \in Nat
<1>1. IsFiniteSet(S) /\ Cardinality(S) <= Cardinality(Ports)
  BY BatchConstants, FS_Subset
<1>2. Cardinality(S) \in Nat /\ Cardinality(Ports) \in Nat
  BY <1>1, BatchConstants, FS_CardinalityType
<1>. QED
  BY <1>1, <1>2

LEMMA OneJobMore ==
  ASSUME NEW S \in SUBSET Jobs, NEW j \in Jobs, j \notin S
  PROVE  Cardinality(S \cup {j}) = Cardinality(S) + 1
<1>1. IsFiniteSet(S)
  BY SomeJobs
<1>. QED
  BY <1>1, FS_AddElement

LEMMA OnePortMore ==
  ASSUME NEW S \in SUBSET Ports, NEW p \in Ports, p \notin S
  PROVE  Cardinality(S \cup {p}) = Cardinality(S) + 1
<1>1. IsFiniteSet(S)
  BY SomePorts
<1>. QED
  BY <1>1, FS_AddElement

LEMMA Disjoint ==
  ASSUME NEW S \in SUBSET Jobs, NEW T \in SUBSET Jobs, S \cap T = {}
  PROVE  Cardinality(S \cup T) = Cardinality(S) + Cardinality(T)
<1>1. /\ IsFiniteSet(S) /\ Cardinality(S) \in Nat
      /\ IsFiniteSet(T) /\ Cardinality(T) \in Nat
  BY SomeJobs
<1>2. Cardinality(S \cap T) = 0
  BY FS_EmptySet
<1>3. Cardinality(S \cup T) = Cardinality(S) + Cardinality(T) - Cardinality(S \cap T)
  BY <1>1, FS_Union, Zenon
<1>. QED
  BY <1>1, <1>2, <1>3

LEMMA FewerTrials ==
  ASSUME NEW c \in Nat, NEW x \in Nat, NEW y \in Nat, x < y
  PROVE  c * x \in Nat /\ c * y \in Nat /\ c * x + c <= c * y
<1>1. PICK d \in Nat : y = x + 1 + d
  OBVIOUS
<1>2. c * y = c * x + c + c * d
  BY <1>1
<1>3. c * d \in Nat /\ c * x \in Nat
  OBVIOUS
<1>. QED
  BY <1>2, <1>3

LEMMA NoMoreTrials ==
  ASSUME NEW c \in Nat, NEW x \in Nat, NEW y \in Nat, x <= y
  PROVE  c * x \in Nat /\ c * y \in Nat /\ c * x <= c * y
<1>1. CASE x = y
  BY <1>1
<1>2. CASE x < y
  BY <1>2, FewerTrials
<1>. QED
  BY <1>1, <1>2

(***************************************************************************)
(* Stacks of disjoint groups.                                              *)
(***************************************************************************)
LEMMA ApartTail ==
  ASSUME NEW s \in Seq(SUBSET Jobs), s # << >>, Apart(s)
  PROVE  /\ Tail(s) \in Seq(SUBSET Jobs) /\ Apart(Tail(s)) /\ Len(Tail(s)) = Len(s) - 1
         /\ Head(s) \in SUBSET Jobs /\ Head(s) # {} /\ Head(s) \cap Members(Tail(s)) = {}
<1>1. /\ Tail(s) \in Seq(SUBSET Jobs) /\ Len(Tail(s)) = Len(s) - 1
      /\ \A i \in 1..Len(Tail(s)) : Tail(s)[i] = s[i + 1]
      /\ Head(s) = s[1] /\ Len(s) \in Nat \ {0} /\ s[1] \in SUBSET Jobs
  OBVIOUS
<1>2. Apart(Tail(s))
  <2>1. \A i \in 1..Len(Tail(s)) : i + 1 \in 1..Len(s)
    BY <1>1
  <2>2. \A i, k \in 1..Len(Tail(s)) : i # k => i + 1 # k + 1
    OBVIOUS
  <2>. QED
    BY <1>1, <2>1, <2>2 DEF Apart
<1>3. ASSUME NEW j \in Head(s), NEW i \in 1..Len(Tail(s)), j \in Tail(s)[i] PROVE FALSE
  <2>1. 1 \in 1..Len(s) /\ i + 1 \in 1..Len(s) /\ i + 1 # 1
    BY <1>1
  <2>. QED
    BY <1>1, <1>3, <2>1 DEF Apart
<1>4. Head(s) # {}
  BY <1>1 DEF Apart
<1>. QED
  BY <1>1, <1>2, <1>3, <1>4 DEF Members

LEMMA ApartSplit ==
  ASSUME NEW a \in SUBSET Jobs, NEW b \in SUBSET Jobs, NEW s \in Seq(SUBSET Jobs),
         Apart(s), a # {}, b # {}, a \cap b = {}, (a \cup b) \cap Members(s) = {}
  PROVE  Apart(<< a, b >> \o s) /\ Len(<< a, b >> \o s) = Len(s) + 2
<1>. DEFINE t == << a, b >> \o s
<1>1. /\ t \in Seq(SUBSET Jobs) /\ Len(t) = Len(s) + 2 /\ t[1] = a /\ t[2] = b
      /\ \A i \in 1..Len(s) : t[i + 2] = s[i]
      /\ Len(s) \in Nat
  OBVIOUS
<1>. HIDE DEF t
<1>2. ASSUME NEW i \in 1..Len(t)
      PROVE  i = 1 \/ i = 2 \/ (i - 2 \in 1..Len(s) /\ t[i] = s[i - 2])
  BY <1>1
<1>3. \A i \in 1..Len(s) : s[i] # {} /\ s[i] \cap a = {} /\ s[i] \cap b = {}
  BY DEF Apart, Members
<1>4. \A i \in 1..Len(t) : t[i] # {}
  BY <1>1, <1>2, <1>3
<1>5. ASSUME NEW i \in 1..Len(t), NEW k \in 1..Len(t), i # k PROVE t[i] \cap t[k] = {}
  <2>1. CASE i \in {1, 2} /\ k \in {1, 2}
    BY <1>1, <1>5, <2>1
  <2>2. CASE i \in {1, 2} /\ k \notin {1, 2}
    BY <1>1, <1>2, <1>3, <2>2
  <2>3. CASE i \notin {1, 2} /\ k \in {1, 2}
    BY <1>1, <1>2, <1>3, <2>3
  <2>4. CASE i \notin {1, 2} /\ k \notin {1, 2}
    <3>1. /\ i - 2 \in 1..Len(s) /\ t[i] = s[i - 2]
          /\ k - 2 \in 1..Len(s) /\ t[k] = s[k - 2] /\ i - 2 # k - 2
      BY <1>2, <1>5, <2>4
    <3>. QED
      BY <3>1 DEF Apart
  <2>. QED
    BY <2>1, <2>2, <2>3, <2>4
<1>. QED
  BY <1>1, <1>4, <1>5 DEF Apart, t

LEMMA MembersAreJobs ==
  ASSUME NEW s \in Seq(SUBSET Jobs)
  PROVE  Members(s) \in SUBSET Jobs /\ Len(s) \in Nat
<1>1. \A i \in 1..Len(s) : s[i] \in SUBSET Jobs
  OBVIOUS
<1>. QED
  BY <1>1 DEF Members

\* A group for every member, at most.
LEMMA TrialsArePositive ==
  ASSUME NEW s \in Seq(SUBSET Jobs), Apart(s)
  PROVE  /\ Len(s) <= Cardinality(Members(s))
         /\ Cardinality(Members(s)) \in 0..Cardinality(Jobs)
         /\ Len(s) \in Nat /\ Cardinality(Jobs) \in Nat
         /\ Trials(s) \in Nat /\ Trials(s) <= 2 * Cardinality(Jobs)
         /\ s # << >> => Trials(s) >= 1
<1>1. /\ Members(s) \in SUBSET Jobs /\ Len(s) \in Nat
      /\ IsFiniteSet(Members(s)) /\ Cardinality(Members(s)) \in 0..Cardinality(Jobs)
      /\ Cardinality(Jobs) \in Nat
  BY MembersAreJobs, SomeJobs
<1>. DEFINE f == [i \in 1..Len(s) |-> CHOOSE j \in s[i] : TRUE]
<1>2. \A i \in 1..Len(s) : f[i] \in s[i]
  BY DEF Apart
<1>3. \A i \in 1..Len(s) : f[i] \in Members(s)
  <2>. HIDE DEF f
  <2>. QED
    BY <1>2 DEF Members
<1>4. f \in [1..Len(s) -> Members(s)]
  BY <1>3
<1>5. \A i, k \in 1..Len(s) : f[i] = f[k] => i = k
  <2>. HIDE DEF f
  <2>. QED
    BY <1>2 DEF Apart
<1>6. f \in Injection(1..Len(s), Members(s))
  <2>. HIDE DEF f
  <2>. QED
    BY <1>4, <1>5 DEF Injection, IsInjective
<1>7. Cardinality(1..Len(s)) <= Cardinality(Members(s))
  BY <1>1, <1>6, FS_Injection
<1>8. Cardinality(1..Len(s)) = Len(s)
  <2>1. IsFiniteSet(1..Len(s)) /\ Cardinality(1..Len(s)) = IF 1 > Len(s) THEN 0 ELSE Len(s) - 1 + 1
    <3>1. 1 \in Int /\ Len(s) \in Int
      BY <1>1
    <3>. QED
      BY <3>1, FS_Interval, Zenon
  <2>. QED
    BY <1>1, <2>1
<1>9. s # << >> => Len(s) >= 1
  BY <1>1
<1>. QED
  BY <1>1, <1>7, <1>8, <1>9 DEF Trials

LEMMA TrialsOfTail ==
  ASSUME NEW s \in Seq(SUBSET Jobs), s # << >>, Apart(s)
  PROVE  Trials(Tail(s)) < Trials(s)
<1>1. /\ Tail(s) \in Seq(SUBSET Jobs) /\ Len(Tail(s)) = Len(s) - 1 /\ Len(s) \in Nat
      /\ Head(s) \in SUBSET Jobs /\ Head(s) # {} /\ Head(s) \cap Members(Tail(s)) = {}
      /\ Members(s) = Head(s) \cup Members(Tail(s))
  BY ApartTail, MembersOfTail, MembersAreJobs
<1>2. /\ IsFiniteSet(Head(s)) /\ Cardinality(Head(s)) \in Nat /\ Cardinality(Head(s)) # 0
      /\ IsFiniteSet(Members(Tail(s))) /\ Cardinality(Members(Tail(s))) \in Nat
  <2>1. Members(Tail(s)) \in SUBSET Jobs
    BY <1>1, MembersAreJobs
  <2>. QED
    BY <1>1, <2>1, SomeJobs, FS_EmptySet
<1>3. Cardinality(Members(s)) = Cardinality(Head(s)) + Cardinality(Members(Tail(s)))
  <2>1. Members(Tail(s)) \in SUBSET Jobs
    BY <1>1, MembersAreJobs
  <2>. QED
    BY <1>1, <2>1, Disjoint
<1>. QED
  BY <1>1, <1>2, <1>3 DEF Trials

LEMMA TrialsOfSplit ==
  ASSUME NEW s \in Seq(SUBSET Jobs), s # << >>, Apart(s),
         NEW a \in SUBSET Jobs, NEW b \in SUBSET Jobs,
         a # {}, b # {}, a \cap b = {}, a \cup b = Head(s)
  PROVE  Apart(<< a, b >> \o Tail(s)) /\ Trials(<< a, b >> \o Tail(s)) < Trials(s)
<1>1. /\ Tail(s) \in Seq(SUBSET Jobs) /\ Apart(Tail(s))
      /\ Len(Tail(s)) = Len(s) - 1 /\ Len(s) \in Nat
      /\ Head(s) \cap Members(Tail(s)) = {}
      /\ Members(s) = Head(s) \cup Members(Tail(s))
  BY ApartTail, MembersOfTail, MembersAreJobs
<1>2. \A r \in Seq(SUBSET Jobs) :
        Apart(r) /\ (a \cup b) \cap Members(r) = {}
          => /\ Apart(<< a, b >> \o r) /\ Len(<< a, b >> \o r) = Len(r) + 2
             /\ Members(<< a, b >> \o r) = a \cup b \cup Members(r)
  BY ApartSplit, MembersOfSplit
<1>. DEFINE t == Tail(s)
            u == << a, b >> \o t
<1>3. Apart(u) /\ Len(u) = Len(t) + 2 /\ Members(u) = a \cup b \cup Members(t)
  BY <1>1, <1>2
<1>4. Cardinality(Members(s)) \in Nat
  BY TrialsArePositive
<1>. HIDE DEF u
<1>5. Trials(u) < Trials(s)
  <2>1. Members(u) = Members(s)
    BY <1>1, <1>3
  <2>2. Len(u) = Len(s) + 1
    BY <1>1, <1>3
  <2>. QED
    BY <1>1, <1>4, <2>1, <2>2 DEF Trials
<1>. QED
  BY <1>3, <1>5 DEF u

(***************************************************************************)
(* What remains.                                                           *)
(***************************************************************************)
LEMMA StackedInit == Init => Stacked
BY DEF Init, Stacked, Apart

LEMMA GroupedIsMembers == Grouped = Members(groups)
BY DEF Grouped, Members

LEMMA KnownAreJobs == Known \in SUBSET Jobs
BY DEF Known

\* What TypeOK and Accounted have for the measure.
LEMMA SpentIsBounded ==
  ASSUME TypeOK
  PROVE  /\ Spent \in 0..Cost - 1 /\ Cost \in Nat \ {0}
         /\ Cardinality(Jobs) \in Nat /\ Cardinality(Ports) \in Nat
<1>1. /\ Cardinality(Group \cap asked) \in 0..Cardinality(Jobs)
      /\ Cardinality(Group \cap Known) \in 0..Cardinality(Jobs)
      /\ Cardinality(Jobs) \in Nat
  <2>1. Group \cap asked \in SUBSET Jobs /\ Group \cap Known \in SUBSET Jobs
    BY GroupIsOfJobs DEF TypeOK
  <2>. QED
    BY <2>1, SomeJobs
<1>2. Cardinality(Ports \ unseen) \in 0..Cardinality(Ports) /\ Cardinality(Ports) \in Nat
  BY SomePorts
<1>. QED
  BY <1>1, <1>2 DEF Spent, Cost

LEMMA RemainingIsPositive ==
  ASSUME TypeOK, Accounted, Stacked, InProgress
  PROVE  Remaining \in 1..Most
<1>1. Spent \in 0..Cost - 1 /\ Cost \in Nat \ {0} /\ Cardinality(Jobs) \in Nat
  BY SpentIsBounded
<1>2. CASE at = "check"
  <2>1. Unchecked \in SUBSET Jobs /\ checking \in SUBSET Jobs /\ Unchecked \cap checking = {}
    BY DEF Unchecked, TypeOK
  <2>2. Unchecked \cup checking \in SUBSET Jobs
    BY <2>1
  <2>3. /\ Cardinality(Unchecked) \in Nat /\ Cardinality(checking) \in Nat
        /\ Cardinality(Unchecked) + Cardinality(checking) <= Cardinality(Jobs)
    <3>1. Cardinality(Unchecked \cup checking) \in 0..Cardinality(Jobs)
      BY <2>2, SomeJobs
    <3>2. Cardinality(Unchecked) \in Nat /\ Cardinality(checking) \in Nat
      BY <2>1, SomeJobs
    <3>3. Cardinality(Unchecked \cup checking) = Cardinality(Unchecked) + Cardinality(checking)
      BY <2>1, Disjoint
    <3>. QED
      BY <1>1, <3>1, <3>2, <3>3
  <2>4. Cost * (2 * Cardinality(Jobs)) \in Nat
    BY <1>1
  <2>. QED
    BY <1>1, <1>2, <2>3, <2>4 DEF Remaining, InProgress, Most
<1>3. CASE at # "check"
  <2>1. groups # << >> /\ groups \in Seq(SUBSET Jobs) /\ Apart(groups)
    BY <1>3 DEF InProgress, Accounted, TypeOK, Stacked
  <2>2. /\ Trials(groups) \in Nat /\ Trials(groups) <= 2 * Cardinality(Jobs)
        /\ Trials(groups) >= 1
    BY <2>1, TrialsArePositive
  <2>3. /\ Cost * Trials(groups) <= Cost * (2 * Cardinality(Jobs))
        /\ Cost * 1 <= Cost * Trials(groups)
        /\ Cost * Trials(groups) \in Nat /\ Cost * (2 * Cardinality(Jobs)) \in Nat
    BY <1>1, <2>2, NoMoreTrials
  <2>. QED
    BY <1>1, <1>3, <2>3 DEF Remaining, InProgress, Most
<1>. QED
  BY <1>2, <1>3

\* A trial ends, and the groups to come have fewer trials left.
LEMMA ProceedTakesAway ==
  ASSUME TypeOK, Accounted, Stacked, at \in {"ports", "start", "test"},
         NEW rest \in Seq(SUBSET Jobs), Apart(rest), Trials(rest) < Trials(groups),
         Proceed(rest)
  PROVE  Remaining' < Remaining /\ Stacked'
<1>1. Spent \in 0..Cost - 1 /\ Cost \in Nat \ {0}
  BY SpentIsBounded
<1>2. groups' = rest /\ unseen' = Ports /\ at' = IF rest = << >> THEN "done" ELSE "ports"
  BY DEF Proceed
<1>3. groups \in Seq(SUBSET Jobs) /\ Trials(groups) \in Nat /\ Trials(rest) \in Nat
  BY TrialsArePositive DEF TypeOK, Stacked
<1>4. /\ Cost * Trials(rest) + Cost <= Cost * Trials(groups)
      /\ Cost * Trials(rest) \in Nat /\ Cost * Trials(groups) \in Nat
  BY <1>1, <1>3, FewerTrials
<1>5. Remaining = Cost * Trials(groups) - Spent
  BY DEF Remaining, InProgress
<1>6. CASE rest = << >>
  <2>1. Remaining' = 0
    BY <1>2, <1>6 DEF Remaining, InProgress
  <2>. QED
    BY <1>1, <1>2, <1>4, <1>5, <1>6, <2>1 DEF Stacked
<1>7. CASE rest # << >>
  <2>1. Spent' \in {0, 1}
    <3>1. Ports \ Ports = {}
      OBVIOUS
    <3>2. Cardinality(Ports \ unseen') = 0 /\ at' = "ports"
      BY <1>2, <1>7, <3>1, FS_EmptySet
    <3>3. Spent' = 2 * Cardinality(Ports \ unseen') + (IF found' = {} THEN 1 ELSE 0)
      BY <3>2 DEF Spent
    <3>. QED
      BY <3>2, <3>3
  <2>2. Remaining' = Cost * Trials(rest) - Spent'
    <3>1. Trials(groups)' = Trials(rest) /\ Cost' = Cost /\ at' = "ports"
      BY <1>2, <1>7 DEF Trials, Members, Cost
    <3>. QED
      BY <3>1 DEF Remaining, InProgress
  <2>. QED
    BY <1>1, <1>2, <1>4, <1>5, <1>7, <2>1, <2>2 DEF Stacked
<1>. QED
  BY <1>6, <1>7

\* The group in hand has been dealt with.
LEMMA GroupTakesAway ==
  ASSUME TypeOK, Accounted, Stacked, at \in {"ports", "start", "test"},
         Proceed(Tail(groups))
  PROVE  Remaining' < Remaining /\ Stacked'
<1>1. groups # << >> /\ groups \in Seq(SUBSET Jobs) /\ Apart(groups)
  BY DEF Accounted, TypeOK, Stacked
<1>2. /\ Tail(groups) \in Seq(SUBSET Jobs) /\ Apart(Tail(groups))
      /\ Trials(Tail(groups)) < Trials(groups)
  BY <1>1, ApartTail, TrialsOfTail
<1>. QED
  BY <1>2, ProceedTakesAway

LEMMA SplitTakesAway ==
  ASSUME TypeOK, Accounted, Stacked, NEW half \in SUBSET Jobs, StartSplits(half)
  PROVE  Remaining' < Remaining /\ Stacked'
<1>1. PICK other \in SUBSET Group :
        Splits(half, other) /\ Proceed(<< half, other >> \o Tail(groups))
  BY DEF StartSplits
<1>2. at = "start" /\ groups # << >> /\ groups \in Seq(SUBSET Jobs) /\ Apart(groups)
  BY DEF StartSplits, Accounted, TypeOK, Stacked
<1>3. /\ Group = Head(groups) /\ Group \in SUBSET Jobs /\ Group # {}
      /\ Tail(groups) \in Seq(SUBSET Jobs)
  BY <1>2, ApartTail, GroupIsOfJobs
<1>4. half # {} /\ other # {}
  <2>1. /\ IsFiniteSet(Group) /\ Cardinality(Group) \in Nat
        /\ Cardinality(Group) # 0 /\ Cardinality(Group) # 1
    BY <1>3, SomeJobs, FS_EmptySet DEF StartSplits, Alone
  <2>2. Cardinality(half) = Cardinality(Group) \div 2 /\ half \cup other = Group
    BY <1>1 DEF Splits, Half
  <2>3. Cardinality(half) # 0 /\ Cardinality(half) # Cardinality(Group)
    BY <2>1, <2>2
  <2>. QED
    BY <2>2, <2>3, FS_EmptySet
<1>5. half \cap other = {} /\ half \cup other = Head(groups) /\ other \in SUBSET Jobs
  BY <1>1, <1>3 DEF Splits
<1>6. /\ Apart(<< half, other >> \o Tail(groups))
      /\ Trials(<< half, other >> \o Tail(groups)) < Trials(groups)
  BY <1>2, <1>4, <1>5, TrialsOfSplit
<1>7. << half, other >> \o Tail(groups) \in Seq(SUBSET Jobs)
  <2>1. \A r \in Seq(SUBSET Jobs) : << half, other >> \o r \in Seq(SUBSET Jobs)
    BY <1>5, MembersOfSplit
  <2>. QED
    BY <1>3, <2>1
<1>. QED
  BY <1>1, <1>2, <1>6, <1>7, ProceedTakesAway

\* A step within a trial.
LEMMA TrialGoesOn ==
  ASSUME TypeOK, at \in {"ports", "start", "test"}, at' \in {"ports", "start", "test"},
         groups' = groups, Stacked, Spent' \in Nat, Spent' > Spent
  PROVE  Remaining' < Remaining /\ Stacked'
<1>1. Spent \in Nat /\ Cost \in Nat
  BY SpentIsBounded
<1>2. groups \in Seq(SUBSET Jobs) /\ Trials(groups) \in Nat
  BY TrialsArePositive DEF TypeOK, Stacked
<1>3. Cost * Trials(groups) \in Nat
  BY <1>1, <1>2
<1>4. Trials(groups)' = Trials(groups) /\ Cost' = Cost
  BY DEF Trials, Members, Cost
<1>5. Remaining = Cost * Trials(groups) - Spent /\ Remaining' = Cost * Trials(groups) - Spent'
  BY <1>4 DEF Remaining, InProgress
<1>. QED
  BY <1>1, <1>3, <1>5 DEF Stacked

\* A step of the checks.
LEMMA CheckTakesAway ==
  ASSUME TypeOK, Accounted, Stacked, Check
  PROVE  Remaining' < Remaining /\ Stacked'
<1>1. /\ Cardinality(Unchecked) \in Nat /\ Cardinality(checking) \in Nat
      /\ Cost * (2 * Cardinality(Jobs)) \in Nat
  <2>1. Unchecked \in SUBSET Jobs /\ checking \in SUBSET Jobs
    BY DEF Unchecked, TypeOK
  <2>. QED
    BY <2>1, SomeJobs, SpentIsBounded
<1>2. at = "check" /\ at' = "check"
  BY DEF Check, StartCheck, CheckPasses, CheckFails, Accounted
<1>. DEFINE Base == Cost * (2 * Cardinality(Jobs))
<1>3. /\ Remaining = Base + 2 * Cardinality(Unchecked) + Cardinality(checking) + 1
      /\ Remaining' = Base + 2 * Cardinality(Unchecked)' + Cardinality(checking)' + 1
  BY <1>2 DEF Remaining, InProgress, Cost
<1>. HIDE DEF Base
<1>4. ASSUME NEW j \in Jobs, StartCheck(j) PROVE Remaining' < Remaining /\ Stacked'
  <2>1. /\ checking' = checking \cup {j} /\ j \notin checking
        /\ j \in Unchecked /\ Unchecked' = Unchecked \ {j}
    BY <1>4 DEF StartCheck, Unchecked, Survivors, Known, Grouped
  <2>2. /\ Cardinality(checking)' = Cardinality(checking) + 1
        /\ Cardinality(Unchecked)' = Cardinality(Unchecked) - 1
    <3>1. checking \in SUBSET Jobs /\ IsFiniteSet(Unchecked)
      BY SomeJobs DEF TypeOK, Unchecked
    <3>2. Cardinality(checking \cup {j}) = Cardinality(checking) + 1
      BY <2>1, <3>1, OneJobMore
    <3>3. Cardinality(Unchecked \ {j}) = Cardinality(Unchecked) - 1
      BY <2>1, <3>1, FS_RemoveElement
    <3>. QED
      BY <2>1, <3>2, <3>3
  <2>3. Stacked'
    BY <1>4 DEF StartCheck, Stacked
  <2>. QED
    BY <1>1, <1>3, <2>2, <2>3 DEF Base
<1>5. ASSUME NEW j \in checking, checking' = checking \ {j},
             Unchecked' = Unchecked
      PROVE  Remaining' < Remaining
  <2>1. IsFiniteSet(checking)
    BY SomeJobs DEF TypeOK
  <2>2. Cardinality(checking \ {j}) = Cardinality(checking) - 1
    BY <2>1, FS_RemoveElement
  <2>. QED
    BY <1>1, <1>3, <1>5, <2>2 DEF Base
<1>6. ASSUME NEW j \in Jobs, CheckPasses(j) PROVE Remaining' < Remaining /\ Stacked'
  <2>1. Survivors \cup {j} \in SUBSET Jobs
    BY GroupIsOfJobs DEF Survivors
  <2>2. Known' = Known /\ Grouped' = Grouped \cup {j}
    BY <1>6, <2>1, MembersOfOne DEF CheckPasses, Known, Grouped, Members, Survivors
  <2>3. Unchecked' = Unchecked /\ j \in checking /\ checking' = checking \ {j}
    BY <1>6, <2>2 DEF Unchecked, CheckPasses
  <2>4. Stacked'
    BY <1>6 DEF CheckPasses, Stacked, Apart
  <2>. QED
    BY <1>5, <2>3, <2>4
<1>7. ASSUME NEW j \in Jobs, NEW result \in {"invalid", "unreachable"}, CheckFails(j, result)
      PROVE  Remaining' < Remaining /\ Stacked'
  <2>1. Known' = Known \cup {j} /\ Grouped' = Grouped
    BY <1>7, ReportAdds DEF CheckFails, Results, Grouped
  <2>2. Unchecked' = Unchecked /\ j \in checking /\ checking' = checking \ {j}
    BY <1>7, <2>1 DEF Unchecked, CheckFails
  <2>3. Stacked'
    BY <1>7 DEF CheckFails, Stacked
  <2>. QED
    BY <1>5, <2>2, <2>3
<1>. QED
  BY <1>4, <1>6, <1>7 DEF Check

LEMMA ChecksEndTakesAway ==
  ASSUME TypeOK, Accounted, Stacked, ChecksEnd
  PROVE  Remaining' < Remaining /\ Stacked'
<1>1. Remaining > Cost * (2 * Cardinality(Jobs)) /\ Cost * (2 * Cardinality(Jobs)) \in Nat
      /\ Remaining \in Nat
  <2>1. Unchecked \in SUBSET Jobs /\ checking \in SUBSET Jobs
    BY DEF Unchecked, TypeOK
  <2>2. Cardinality(Unchecked) \in Nat /\ Cardinality(checking) \in Nat
    BY <2>1, SomeJobs
  <2>3. Cost * (2 * Cardinality(Jobs)) \in Nat
    BY SpentIsBounded
  <2>. QED
    BY <2>2, <2>3 DEF Remaining, InProgress, ChecksEnd
<1>2. Stacked'
  BY DEF ChecksEnd, Stacked
<1>3. CASE groups = << >>
  <2>1. Remaining' = 0
    BY <1>3 DEF ChecksEnd, Remaining, InProgress
  <2>. QED
    BY <1>1, <1>2, <2>1
<1>4. CASE groups # << >>
  <2>1. Spent' \in {0, 1}
    <3>1. Ports \ Ports = {} /\ at' = "ports" /\ unseen' = Ports
      BY <1>4 DEF ChecksEnd
    <3>2. Cardinality(Ports \ unseen') = 0
      BY <3>1, FS_EmptySet
    <3>3. Spent' = 2 * Cardinality(Ports \ unseen') + (IF found' = {} THEN 1 ELSE 0)
      BY <3>1 DEF Spent
    <3>. QED
      BY <3>2, <3>3
  <2>2. Remaining' = Cost * Trials(groups) - Spent'
    <3>1. Trials(groups)' = Trials(groups) /\ Cost' = Cost /\ at' = "ports"
      BY <1>4 DEF ChecksEnd, Trials, Members, Cost
    <3>. QED
      BY <3>1 DEF Remaining, InProgress
  <2>3. groups \in Seq(SUBSET Jobs) /\ Apart(groups)
    BY DEF TypeOK, Stacked
  <2>4. Trials(groups) \in Nat /\ Trials(groups) <= 2 * Cardinality(Jobs)
    BY <2>3, TrialsArePositive
  <2>5. /\ Cost * Trials(groups) <= Cost * (2 * Cardinality(Jobs))
        /\ Cost * Trials(groups) \in Nat
    BY <2>4, NoMoreTrials, SpentIsBounded
  <2>. QED
    BY <1>1, <1>2, <2>1, <2>2, <2>5
<1>. QED
  BY <1>3, <1>4

\* A step of the tests of a group.
LEMMA TestTakesAway ==
  ASSUME TypeOK, Accounted, Stacked, Test
  PROVE  Remaining' < Remaining /\ Stacked'
<1>1. /\ at = "test" /\ at' = "test" /\ groups' = groups /\ Group' = Group
      /\ Group \in SUBSET Jobs
  BY GroupIsOfJobs DEF Test, SendRequest, TestTimesOut, TestEnds, Group
<1>2. /\ Cardinality(Group \cap asked) \in Nat /\ Cardinality(Group \cap Known) \in Nat
      /\ Cardinality(Ports) \in Nat
  <2>1. Group \cap asked \in SUBSET Jobs /\ Group \cap Known \in SUBSET Jobs
    BY <1>1
  <2>. QED
    BY <2>1, SomeJobs, SpentIsBounded
<1>3. PICK base \in Nat :
        /\ Spent = base + Cardinality(Group \cap asked) + Cardinality(Group \cap Known)
        /\ Spent' = base + Cardinality(Group \cap asked') + Cardinality(Group \cap Known')
  <2>1. 2 * Cardinality(Ports) + 3 \in Nat
    BY <1>2
  <2>. QED
    BY <1>1, <2>1 DEF Spent
<1>4. ASSUME NEW j \in Jobs, SendRequest(j) PROVE Spent' = Spent + 1
  <2>1. Group \cap asked' = (Group \cap asked) \cup {j} /\ j \notin Group \cap asked
        /\ Known' = Known /\ Group \cap asked \in SUBSET Jobs
    BY <1>1, <1>4 DEF SendRequest, Known
  <2>2. Cardinality((Group \cap asked) \cup {j}) = Cardinality(Group \cap asked) + 1
    BY <2>1, OneJobMore
  <2>3. /\ Cardinality(Group \cap asked') = Cardinality(Group \cap asked) + 1
        /\ Cardinality(Group \cap Known') = Cardinality(Group \cap Known)
    BY <2>1, <2>2
  <2>. QED
    BY <1>2, <1>3, <2>3
<1>5. ASSUME NEW j \in Group, j \notin Known, Known' = Known \cup {j}, asked' = asked
      PROVE  Spent' = Spent + 1
  <2>1. Group \cap Known' = (Group \cap Known) \cup {j} /\ j \notin Group \cap Known
        /\ Group \cap Known \in SUBSET Jobs /\ j \in Jobs
    BY <1>1, <1>5
  <2>2. Cardinality((Group \cap Known) \cup {j}) = Cardinality(Group \cap Known) + 1
    BY <2>1, OneJobMore
  <2>3. /\ Cardinality(Group \cap Known') = Cardinality(Group \cap Known) + 1
        /\ Cardinality(Group \cap asked') = Cardinality(Group \cap asked)
    BY <1>5, <2>1, <2>2
  <2>. QED
    BY <1>2, <1>3, <2>3
<1>6. ASSUME NEW j \in Jobs, TestTimesOut(j) PROVE Spent' = Spent + 1
  <2>1. Known' = Known \cup {j} /\ asked' = asked /\ j \in Group /\ j \notin Known
    BY <1>6, ReportAdds DEF TestTimesOut, Results
  <2>. QED
    BY <1>5, <2>1
<1>7. ASSUME NEW j \in Jobs, NEW result \in {"failed", "passed"}, TestEnds(j, result)
      PROVE  Spent' = Spent + 1
  <2>1. Known' = Known \cup {j} /\ asked' = asked /\ j \in Group /\ j \notin Known
    BY <1>7, ReportAdds DEF TestEnds, Results
  <2>. QED
    BY <1>5, <2>1
<1>8. Spent' = Spent + 1
  BY <1>4, <1>6, <1>7 DEF Test
<1>9. Spent \in Nat
  BY SpentIsBounded
<1>10. Spent' \in Nat /\ Spent' > Spent
  BY <1>8, <1>9
<1>. QED
  BY <1>1, <1>10, TrialGoesOn

\* The steps between the checks and the tests.
LEMMA StartTakesAway ==
  ASSUME TypeOK, Accounted, Stacked,
         (\E port \in Ports : LookAt(port)) \/ Reserve \/ PortsTaken \/ Starts
  PROVE  Remaining' < Remaining /\ Stacked'
<1>1. /\ Cardinality(Ports) \in Nat /\ Spent \in Nat
  BY SpentIsBounded
<1>2. ASSUME NEW port \in Ports, LookAt(port) PROVE Remaining' < Remaining /\ Stacked'
  <2>1. /\ at = "ports" /\ at' = "ports" /\ groups' = groups
        /\ Ports \ unseen' = (Ports \ unseen) \cup {port} /\ port \notin Ports \ unseen
    BY <1>2 DEF LookAt, TypeOK
  <2>2. Cardinality(Ports \ unseen') = Cardinality(Ports \ unseen) + 1
    <3>1. Ports \ unseen \in SUBSET Ports
      OBVIOUS
    <3>2. Cardinality((Ports \ unseen) \cup {port}) = Cardinality(Ports \ unseen) + 1
      BY <2>1, <3>1, OnePortMore
    <3>. QED
      BY <2>1, <3>2
  <2>3. /\ Spent = 2 * Cardinality(Ports \ unseen) + 1
        /\ Spent' = 2 * Cardinality(Ports \ unseen') + (IF found' = {} THEN 1 ELSE 0)
    BY <1>2, <2>1 DEF Spent, LookAt
  <2>4. Cardinality(Ports \ unseen) \in Nat
    BY SomePorts
  <2>5. Spent' \in Nat /\ Spent' > Spent
    BY <2>2, <2>3, <2>4
  <2>. QED
    BY <2>1, <2>5, TrialGoesOn
<1>3. CASE Reserve
  <2>1. /\ at = "ports" /\ at' = "ports" /\ groups' = groups /\ unseen' = unseen
        /\ found # {} /\ found' = {}
    BY <1>3 DEF Reserve
  <2>2. Spent' = Spent + 1
    <3>1. Spent = 2 * Cardinality(Ports \ unseen) /\ Spent' = 2 * Cardinality(Ports \ unseen) + 1
      BY <2>1, SomePorts DEF Spent
    <3>. QED
      BY <3>1
  <2>3. Spent' \in Nat /\ Spent' > Spent
    BY <1>1, <2>2
  <2>. QED
    BY <2>1, <2>3, TrialGoesOn
<1>4. CASE PortsTaken
  <2>1. at = "ports" /\ at' = "start" /\ groups' = groups
    BY <1>4 DEF PortsTaken
  <2>2. Cardinality(Ports \ unseen) \in 0..Cardinality(Ports)
    BY SomePorts
  <2>3. /\ Spent = 2 * Cardinality(Ports \ unseen) + (IF found = {} THEN 1 ELSE 0)
        /\ Spent' = 2 * Cardinality(Ports) + 2
    BY <2>1 DEF Spent
  <2>4. Spent' \in Nat /\ Spent' > Spent
    BY <1>1, <2>2, <2>3
  <2>. QED
    BY <2>1, <2>4, TrialGoesOn
<1>5. CASE Starts
  <2>1. at = "start" /\ at' = "test" /\ groups' = groups /\ Group' = Group /\ Known' = Known
        /\ asked' = asked
    BY <1>5 DEF Starts, Group, Known
  <2>2. /\ Cardinality(Group \cap asked) \in Nat /\ Cardinality(Group \cap Known) \in Nat
    <3>1. Group \cap asked \in SUBSET Jobs /\ Group \cap Known \in SUBSET Jobs
      BY GroupIsOfJobs
    <3>. QED
      BY <3>1, SomeJobs
  <2>3. /\ Spent = 2 * Cardinality(Ports) + 2
        /\ Spent' = 2 * Cardinality(Ports) + 3 + Cardinality(Group \cap asked)
                      + Cardinality(Group \cap Known)
    BY <2>1 DEF Spent
  <2>4. Spent' \in Nat /\ Spent' > Spent
    BY <1>1, <2>2, <2>3
  <2>. QED
    BY <2>1, <2>4, TrialGoesOn
<1>. QED
  BY <1>2, <1>3, <1>4, <1>5

LEMMA RunTakesAway ==
  ASSUME TypeOK, Accounted, Stacked, InProgress, Run
  PROVE  Remaining' < Remaining /\ Stacked'
<1>1. ~Begin /\ ~HandOver
  BY DEF InProgress, Begin, HandOver
<1>2. CASE PortsExhausted \/ StartFails \/ TestsEnd
  BY <1>2, GroupTakesAway DEF PortsExhausted, StartFails, TestsEnd
<1>. QED
  BY <1>1, <1>2, CheckTakesAway, ChecksEndTakesAway, StartTakesAway, SplitTakesAway,
     TestTakesAway DEF Run

\* Deadlines, others at the ports and shutdown add nothing.
LEMMA OthersAddNothing ==
  ASSUME TypeOK, Accounted, Stacked, [Next]_vars, ~Run
  PROVE  Remaining' \in {0, Remaining} /\ Stacked'
<1>1. CASE Abort
  <2>1. at' = "idle" /\ groups' = << >>
    BY <1>1 DEF Abort, Fresh
  <2>. QED
    BY <2>1 DEF Remaining, InProgress, Stacked, Apart
<1>2. ASSUME UNCHANGED << at, checking, groups, unseen, found, asked, report >>
      PROVE  Remaining' = Remaining /\ Stacked'
  <2>1. /\ Spent' = Spent /\ Unchecked' = Unchecked /\ Trials(groups)' = Trials(groups)
        /\ Cost' = Cost
    BY <1>2 DEF Spent, Unchecked, Trials, Cost, Members, Group, Known, Grouped
  <2>. QED
    BY <1>2, <2>1 DEF Remaining, InProgress, Stacked
<1>3. CASE UNCHANGED vars
  BY <1>2, <1>3 DEF vars
<1>4. ASSUME NEW j \in Jobs, DeadlinePasses(j)
      PROVE  Remaining' = Remaining /\ Stacked'
  BY <1>2, <1>4 DEF DeadlinePasses
<1>5. ASSUME NEW port \in Ports, OthersTake(port) \/ OthersLeave(port)
      PROVE  Remaining' = Remaining /\ Stacked'
  BY <1>2, <1>5 DEF OthersTake, OthersLeave
<1>. QED
  BY <1>1, <1>3, <1>4, <1>5 DEF Next

LEMMA StackedStep == TypeOK /\ Accounted /\ Stacked /\ [Next]_vars => Stacked'
<1>. SUFFICES ASSUME TypeOK, Accounted, Stacked, [Next]_vars PROVE Stacked'
  OBVIOUS
<1>1. CASE Begin \/ HandOver
  BY <1>1 DEF Begin, HandOver, Fresh, Stacked, Apart
<1>2. CASE Run /\ ~Begin /\ ~HandOver
  <2>1. InProgress
    BY <1>2 DEF Run, InProgress, Check, StartCheck, CheckPasses, CheckFails, ChecksEnd,
       LookAt, Reserve, PortsTaken, PortsExhausted, Starts, StartFails, StartSplits, Test,
       SendRequest, TestTimesOut, TestEnds, TestsEnd, Accounted
  <2>. QED
    BY <1>2, <2>1, RunTakesAway
<1>. QED
  BY <1>1, <1>2, OthersAddNothing

\* A batch takes at most Most steps of the probe, however its groups are split
\* and its proxies time out, and nothing that happens beside it prolongs it
\* (test_batch, test_survivor_batch): what BatchEnds rests on for batches and
\* port ranges of any size, the only wait left being for the next of its steps.
THEOREM BatchesAreFinite ==
  Spec => /\ [](InProgress => Remaining \in 1..Most)
          /\ [][/\ InProgress /\ Run => Remaining' < Remaining
                /\ InProgress => Remaining' \in 0..Remaining]_vars
<1>. DEFINE J == IInv /\ Stacked
<1>1. Init => J
  BY InvInit, StackedInit
<1>2. J /\ [Next]_vars => J'
  BY InvStep, StackedStep DEF IInv
<1>3. J => (InProgress => Remaining \in 1..Most)
  BY RemainingIsPositive DEF IInv
<1>4. J' => (InProgress => Remaining \in 1..Most)'
  BY <1>3, PTL
<1>5. J /\ [Next]_vars
        => [/\ InProgress /\ Run => Remaining' < Remaining
            /\ InProgress => Remaining' \in 0..Remaining]_vars
  <2>. SUFFICES ASSUME J, [Next]_vars, InProgress
                PROVE  /\ Run => Remaining' < Remaining
                       /\ Remaining' \in 0..Remaining
    OBVIOUS
  <2>1. Remaining \in Nat /\ Remaining' \in Nat
    <3>1. Most \in Nat /\ Most' \in Nat
      BY SpentIsBounded, <1>2 DEF IInv, Most, Cost
    <3>2. Remaining \in 1..Most
      BY <1>3
    <3>3. InProgress' => Remaining' \in 1..Most'
      BY <1>2, <1>4
    <3>4. ~InProgress' => Remaining' = 0
      BY DEF Remaining
    <3>. QED
      BY <3>1, <3>2, <3>3, <3>4
  <2>2. Run => Remaining' < Remaining
    BY RunTakesAway DEF IInv
  <2>3. ~Run => Remaining' \in {0, Remaining}
    BY OthersAddNothing DEF IInv
  <2>. QED
    BY <2>1, <2>2, <2>3
<1>. QED
  BY <1>1, <1>2, <1>3, <1>5, PTL DEF Spec
==============================================================================
