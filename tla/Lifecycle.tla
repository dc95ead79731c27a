----------------------------- MODULE Lifecycle ------------------------------
(***************************************************************************)
(* What the fleet promises about the lifecycle of its proxies: the moves a *)
(* lifecycle may make, and nothing of the machinery that makes them (test  *)
(* leases, execution states, half-finished runs, restarts).  Module Fleet  *)
(* implements it, with the lifecycle of a row read through the execution   *)
(* states TESTING and WAITING_FOR_PORT.                                    *)
(***************************************************************************)
CONSTANT Nodes

VARIABLE life

Absent == "ABSENT"
Live == {"CANDIDATE", "ACTIVE", "PROBATION", "DORMANT"}

Moves ==
  {<< Absent, "CANDIDATE" >>}                      \* imported
    \cup (Live \X {"ACTIVE"})                      \* a real download
    \cup {<< "ACTIVE", "PROBATION" >>,             \* demoted, one step at a time
          << "PROBATION", "DORMANT" >>,
          << "DORMANT", "PROBATION" >>,            \* recovered or revived
          << "CANDIDATE", "PROBATION" >>}          \* revived
    \cup (Live \X {"INVALID", "RETIRED"})          \* structurally bad; gone upstream
    \cup {<< "RETIRED", "CANDIDATE" >>,            \* back upstream
          << "RETIRED", "INVALID" >>,              \* found bad by its last test
          << "RETIRED", Absent >>}                 \* tombstone cleaned up

Init == life = [n \in Nodes |-> Absent]

\* One statement may move several rows (revive_dormant, finish_refresh).
Next ==
  /\ \E f \in [Nodes -> Live \cup {"INVALID", "RETIRED", Absent}] : life' = f
  /\ \A n \in Nodes : life'[n] = life[n] \/ << life[n], life'[n] >> \in Moves

Spec == Init /\ [][Next]_life
=============================================================================
