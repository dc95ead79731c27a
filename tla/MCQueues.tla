------------------------------ MODULE MCQueues ------------------------------
(***************************************************************************)
(* The instances of Queues that TLC explores.                              *)
(***************************************************************************)
EXTENDS Queues

\* Six is the first capacity at which every queue has a quota; three leaves
\* ACTIVE without one.
SmallCapacities == {3, 6}

\* health.xray_concurrency_min, which is also where the limit starts.
DefaultCapacity == {4}
=============================================================================
