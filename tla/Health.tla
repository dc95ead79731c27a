------------------------------- MODULE Health -------------------------------
(***************************************************************************)
(* health::decide (src/src/src/health/mod.rs): what one probe event does   *)
(* to the lifecycle, the failure counters and the publication lease of a   *)
(* proxy.  Pure operators over the record the function takes.              *)
(***************************************************************************)
EXTENDS Evidence

\* The lifecycles a proxy keeps between tests.  TESTING and WAITING_FOR_PORT
\* are execution states laid over one of these (module NodeStore).
Lifecycles == {"CANDIDATE", "ACTIVE", "PROBATION", "DORMANT", "INVALID",
               "RETIRED"}

\* Mutants of NextStreak: an inconclusive event counts as a failure; a success
\* does not clear the streak.
StreakOfAnything(streak, class) == IF class = "SUCCESS" THEN 0 ELSE streak + 1
StreakNeverCleared(streak, class) == IF Conclusive(class) THEN streak + 1 ELSE streak

\* The counters as an event leaves them: a success clears both, an
\* inconclusive event touches neither, and a conclusive failure counts as
\* independent only when its run had not failed before.
NextStreak(streak, class) ==
  CASE class = "SUCCESS"   -> 0
    [] Inconclusive(class) -> streak
    [] OTHER               -> streak + 1

NextIndependent(independent, class, newFailure) ==
  CASE class = "SUCCESS"                       -> 0
    [] Conclusive(class) /\ newFailure         -> independent + 1
    [] OTHER                                   -> independent

RealDownload(stage, class) == stage = "DOWNLOAD" /\ class = "SUCCESS"

(***************************************************************************)
(* The lifecycle transition.  in is                                        *)
(*   [lifecycle, alpha, beta, resident, streak, independent, stage, class] *)
(* with streak and independent already advanced by the event, and resident *)
(* saying that an activation time is known and the minimum residence is    *)
(* over.  The order of the cases is the order of the code.                 *)
(***************************************************************************)
NextLifecycle(in) ==
  LET below(percent) == ScoreBelow(in.alpha, in.beta, percent)
  IN
  IF in.class = "INVALID_CONFIG" \/ in.lifecycle = "INVALID" THEN "INVALID"
  ELSE IF in.lifecycle = "RETIRED" THEN "RETIRED"
  ELSE IF RealDownload(in.stage, in.class) THEN "ACTIVE"
  ELSE CASE in.lifecycle = "ACTIVE" ->
              IF in.resident /\ below(35) /\ in.independent >= 2
              THEN "PROBATION" ELSE "ACTIVE"
         [] in.lifecycle = "PROBATION" ->
              IF ~below(70) THEN "ACTIVE"
              ELSE IF below(15) /\ in.streak >= 3 THEN "DORMANT" ELSE "PROBATION"
         [] in.lifecycle = "DORMANT" ->
              IF ~below(70) /\ in.class = "SUCCESS" THEN "PROBATION" ELSE "DORMANT"
         [] OTHER -> in.lifecycle

\* Mutant of NextLease: what is granted is added to what is left.
LeaseAdded(lease, granted, class) ==
  IF class = "SUCCESS" THEN lease + granted ELSE lease

\* The publication lease only grows: a failure keeps it, a success extends it
\* to what its stage grants when that is longer.  Leases are the time left.
NextLease(lease, granted, class) ==
  IF class = "SUCCESS" /\ granted > lease THEN granted ELSE lease

(***************************************************************************)
(* The lifecycles NextLifecycle can return for some evidence, counters and *)
(* residence: all that a module needs which does not track evidence.       *)
(***************************************************************************)
Verdicts(lifecycle, stage, class) ==
  IF class = "INVALID_CONFIG" \/ lifecycle = "INVALID" THEN {"INVALID"}
  ELSE IF lifecycle = "RETIRED" THEN {"RETIRED"}
  ELSE IF RealDownload(stage, class) THEN {"ACTIVE"}
  ELSE CASE lifecycle = "ACTIVE"    -> {"ACTIVE", "PROBATION"}
         [] lifecycle = "PROBATION" -> {"PROBATION", "ACTIVE", "DORMANT"}
         [] lifecycle = "DORMANT"   ->
              IF class = "SUCCESS" THEN {"DORMANT", "PROBATION"} ELSE {"DORMANT"}
         [] OTHER                   -> {lifecycle}
=============================================================================
