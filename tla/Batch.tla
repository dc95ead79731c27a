------------------------------- MODULE Batch --------------------------------
(***************************************************************************)
(* One batch of the scheduler in the probe (probe::test_batch and          *)
(* test_survivor_batch, with allocate_ports and XrayBatchSession): every   *)
(* proxy is checked by itself first; those that pass share one Xray        *)
(* process with a port for each.  When the process does not start, the     *)
(* group is split in two and either half is tried again.                   *)
(*                                                                         *)
(* The recursion is a stack of groups, the one in hand first.  The order   *)
(* of a group is the one in which the checks have ended, so that any split *)
(* by size may happen.  Reports are told apart by what the proxy is blamed *)
(* for; Evidence has their events.                                         *)
(***************************************************************************)
EXTENDS Integers, FiniteSets, Sequences

CONSTANTS
  Jobs,            \* the claimed proxies
  Refused,         \* those that can be parsed, but whose config Xray refuses
  Ports,           \* ports.test
  Parallel,        \* download_concurrency
  Mishaps          \* bound: how often Xray fails to start for another reason

ASSUME BatchConstants ==
  /\ IsFiniteSet(Jobs) /\ Refused \subseteq Jobs
  /\ Ports \subseteq Nat \ {0} /\ IsFiniteSet(Ports)
  /\ Parallel \in Nat \ {0} /\ Mishaps \in Nat

VARIABLES
  at,              \* the step the batch is at
  checking,        \* proxies whose check is under way
  over,            \* proxies whose deadline, set when their check began, is over
  groups,          \* what is left to test, the group in hand first
  unseen,          \* ports that allocate_ports has not come to
  found,           \* the port found free, not reserved yet
  mine,            \* ports reserved for the group in hand
  others,          \* ports somebody else has
  asked,           \* proxies a request has been sent through
  report,          \* by proxy, what it is reported for
  mishaps          \* starts that have failed for another reason

vars == << at, checking, over, groups, unseen, found, mine, others, asked, report, mishaps >>

None == "none"
Results == {"invalid", "unreachable", "not_started", "no_port", "timeout",
            "failed", "passed"}

Known == {j \in Jobs : report[j] # None}

\* The group in hand, and all that is still to test.
Group == IF groups = << >> THEN {} ELSE Head(groups)
Grouped == UNION {groups[i] : i \in 1..Len(groups)}

TypeOK ==
  /\ at \in {"idle", "check", "ports", "start", "test", "done"}
  /\ checking \subseteq Jobs /\ over \subseteq Jobs /\ asked \subseteq Jobs
  /\ groups \in Seq(SUBSET Jobs)
  /\ unseen \subseteq Ports /\ found \subseteq Ports /\ mine \subseteq Ports
  /\ others \subseteq Ports /\ mine \cap others = {}
  /\ report \in [Jobs -> Results \cup {None}]
  /\ mishaps \in 0..Mishaps

Fresh ==
  /\ checking' = {} /\ over' = {} /\ asked' = {}
  /\ groups' = << >> /\ unseen' = {} /\ found' = {} /\ mine' = {}
  /\ report' = [j \in Jobs |-> None] /\ mishaps' = 0

Init ==
  /\ at = "idle"
  /\ checking = {} /\ over = {} /\ asked = {}
  /\ groups = << >> /\ unseen = {} /\ found = {} /\ mine = {} /\ others = {}
  /\ report = [j \in Jobs |-> None] /\ mishaps = 0

\* The scheduler has claimed the jobs.
Begin == at = "idle" /\ at' = "check" /\ Fresh /\ UNCHANGED others

(***************************************************************************)
(* test_batch: the checks, 2 * Parallel at a time.                         *)
(***************************************************************************)
\* The survivors so far are the only group while the checks last.
Survivors == Grouped

StartCheck(j) ==
  /\ at = "check"
  /\ j \notin checking \cup Known \cup Survivors
  /\ Cardinality(checking) < 2 * Parallel
  /\ checking' = checking \cup {j}
  /\ UNCHANGED << at, over, groups, unseen, found, mine, others, asked, report, mishaps >>

\* preflight sees the deadline before it connects, and waits no longer than it.
CheckPasses(j) ==
  /\ j \in checking \ over
  /\ checking' = checking \ {j}
  /\ groups' = << Survivors \cup {j} >>
  /\ UNCHANGED << at, over, unseen, found, mine, others, asked, report, mishaps >>

CheckFails(j, result) ==
  /\ j \in checking
  /\ checking' = checking \ {j}
  /\ report' = [report EXCEPT ![j] = result]
  /\ UNCHANGED << at, over, groups, unseen, found, mine, others, asked, mishaps >>

ChecksEnd ==
  /\ at = "check" /\ Known \cup Survivors = Jobs
  /\ at' = (IF groups = << >> THEN "done" ELSE "ports") /\ unseen' = Ports
  /\ UNCHANGED << checking, over, groups, found, mine, others, asked, report, mishaps >>

\* Time passes: the deadline of a proxy whose check has begun, tested or not.
DeadlinePasses(j) ==
  /\ j \in checking \cup Grouped
  /\ over' = over \cup {j}
  /\ UNCHANGED << at, checking, groups, unseen, found, mine, others, asked, report, mishaps >>

(***************************************************************************)
(* test_survivor_batch.                                                    *)
(***************************************************************************)
\* A group is done with: its session is stopped, which gives back its ports.
Proceed(rest) ==
  /\ groups' = rest /\ found' = {} /\ mine' = {} /\ unseen' = Ports
  /\ at' = IF rest = << >> THEN "done" ELSE "ports"

Reported(S, result) == [j \in Jobs |-> IF j \in S THEN result ELSE report[j]]

\* allocate_ports looks at the ports in their order, passes over one that is
\* reserved or cannot be bound, and closes what it has bound.
LookAt(port) ==
  /\ at = "ports" /\ found = {} /\ Cardinality(mine) < Cardinality(Group)
  /\ port \in unseen /\ \A other \in unseen : port <= other
  /\ unseen' = unseen \ {port}
  /\ found' = {port} \ others
  /\ UNCHANGED << at, checking, over, groups, mine, others, asked, report, mishaps >>

\* Mutant of Reserve: the port was free, so it is taken.
ReserveBlindly ==
  /\ at = "ports" /\ found # {}
  /\ mine' = mine \cup found /\ found' = {}
  /\ UNCHANGED << at, checking, over, groups, unseen, others, asked, report, mishaps >>

\* Only then is the port reserved, unless another task has been quicker.
Reserve ==
  /\ at = "ports" /\ found # {}
  /\ mine' = mine \cup (found \ others) /\ found' = {}
  /\ UNCHANGED << at, checking, over, groups, unseen, others, asked, report, mishaps >>

PortsTaken ==
  /\ at = "ports" /\ found = {} /\ Cardinality(mine) = Cardinality(Group)
  /\ at' = "start"
  /\ UNCHANGED << checking, over, groups, unseen, found, mine, others, asked, report, mishaps >>

\* The range does not do: nobody of the group is tested.
PortsExhausted ==
  /\ at = "ports" /\ Cardinality(mine) < Cardinality(Group) /\ unseen \cup found = {}
  /\ report' = Reported(Group, "no_port")
  /\ Proceed(Tail(groups))
  /\ UNCHANGED << checking, over, others, asked, mishaps >>

Starts ==
  /\ at = "start"
  /\ Group \cap Refused = {}
  /\ at' = "test"
  /\ UNCHANGED << checking, over, groups, unseen, found, mine, others, asked, report, mishaps >>

\* A start fails for a config that is refused, or for a reason of its own: a
\* port taken at the last moment, no answer in three seconds.
Fault ==
  IF Group \cap Refused # {}
  THEN UNCHANGED mishaps
  ELSE mishaps < Mishaps /\ mishaps' = mishaps + 1

\* Mutant of Half: rounded down once more, which leaves one of two nothing.
HalfOfLess(n) == (n - 1) \div 2

Half(n) == n \div 2

\* Mutant of Splits: as many on the right as on the left.
SplitsEvenly(left, right) ==
  /\ left \cap right = {} /\ left \cup right \subseteq Group
  /\ Cardinality(left) = Half(Cardinality(Group))
  /\ Cardinality(right) = Half(Cardinality(Group))

Splits(left, right) ==
  /\ left \cap right = {} /\ left \cup right = Group
  /\ Cardinality(left) = Half(Cardinality(Group))

Alone == Cardinality(Group) = 1

\* The only one of its group is reported.
StartFails ==
  /\ at = "start" /\ Alone
  /\ Fault
  /\ report' = Reported(Group, "not_started")
  /\ Proceed(Tail(groups))
  /\ UNCHANGED << checking, over, others, asked >>

\* Otherwise the left half is gone through, then the right one.
StartSplits(left) ==
  /\ at = "start" /\ ~Alone
  /\ Fault
  /\ \E right \in SUBSET Group :
        Splits(left, right) /\ Proceed(<< left, right >> \o Tail(groups))
  /\ UNCHANGED << checking, over, others, asked, report >>

\* test_through_xray: nothing is sent once the deadline is over.
SendRequest(j) ==
  /\ at = "test" /\ j \in Group \ (Known \cup over \cup asked)
  /\ Cardinality(asked \ Known) < Parallel
  /\ asked' = asked \cup {j}
  /\ UNCHANGED << at, checking, over, groups, unseen, found, mine, others, report, mishaps >>

\* Answers, or failures, before the deadline.
TestEnds(j, result) ==
  /\ at = "test" /\ j \in (Group \cap asked) \ Known
  /\ report' = [report EXCEPT ![j] = result]
  /\ UNCHANGED << at, checking, over, groups, unseen, found, mine, others, asked, mishaps >>

\* The deadline is over, in the middle of the test or before it.
TestTimesOut(j) ==
  /\ at = "test" /\ j \in (Group \cap over) \ Known
  /\ j \in asked \/ Cardinality(asked \ Known) < Parallel
  /\ report' = [report EXCEPT ![j] = "timeout"]
  /\ UNCHANGED << at, checking, over, groups, unseen, found, mine, others, asked, mishaps >>

TestsEnd ==
  /\ at = "test" /\ Group \subseteq Known
  /\ Proceed(Tail(groups))
  /\ UNCHANGED << checking, over, others, asked, report, mishaps >>

\* The reports are handed to the scheduler, which claims the next batch.
HandOver == at = "done" /\ at' = "idle" /\ Fresh /\ UNCHANGED others

\* The task is aborted at shutdown, at a point where it waits: what it holds is
\* dropped.
Abort ==
  /\ at \notin {"idle", "done"} /\ found = {}
  /\ at' = "idle" /\ Fresh
  /\ UNCHANGED others

\* The VIP tries a candidate on a port of the range, other programs come and go.
\* One that binds a port found or reserved before Xray does is a mishap.
OthersTake(port) ==
  /\ port \notin mine \cup others
  /\ others' = others \cup {port}
  /\ UNCHANGED << at, checking, over, groups, unseen, found, mine, asked, report, mishaps >>

OthersLeave(port) ==
  /\ others' = others \ {port} /\ others' # others
  /\ UNCHANGED << at, checking, over, groups, unseen, found, mine, asked, report, mishaps >>

Check ==
  \E j \in Jobs :
    \/ StartCheck(j) \/ CheckPasses(j)
    \/ \E result \in {"invalid", "unreachable"} : CheckFails(j, result)

Test ==
  \E j \in Jobs :
    \/ SendRequest(j) \/ TestTimesOut(j)
    \/ \E result \in {"failed", "passed"} : TestEnds(j, result)

Run ==
  \/ Begin \/ Check \/ ChecksEnd
  \/ (\E port \in Ports : LookAt(port)) \/ Reserve
  \/ PortsTaken \/ PortsExhausted
  \/ Starts \/ StartFails \/ \E left \in SUBSET Jobs : StartSplits(left)
  \/ Test \/ TestsEnd \/ HandOver

Next ==
  \/ Run \/ Abort
  \/ \E j \in Jobs : DeadlinePasses(j)
  \/ \E port \in Ports : OthersTake(port) \/ OthersLeave(port)

Spec == Init /\ [][Next]_vars

\* Every wait of the probe has a limit of its own: it goes on, whatever the
\* network, Xray and the clock do.
FairSpec == Spec /\ WF_vars(Run)
-----------------------------------------------------------------------------
\* Every claimed job comes back with a report of its own, through any number
\* of splits, and every port is given back: the scheduler writes and releases
\* what is in the reports, and nothing else (app.rs 410).
EveryJobIsReported == at = "done" => Known = Jobs /\ mine = {}

\* "A startup error is split recursively, so a malformed config cannot make
\* the complete cohort look dead" (probe/mod.rs 108): a proxy whose config is
\* accepted is only blamed for a start that failed with it alone.
ColleaguesAreSpared ==
  Cardinality({j \in Jobs \ Refused : report[j] = "not_started"}) <= mishaps

\* Splitting loses nobody and accuses nobody of another's config.
SplitsAreHarmless == EveryJobIsReported /\ ColleaguesAreSpared

\* A batch comes to its end, whatever is refused and whoever takes the ports.
BatchEnds == at = "check" ~> at \in {"done", "idle"}

\* Nobody is blamed for a timeout without having been tried.
TriedBeforeBlamed == \A j \in Jobs : report[j] = "timeout" => j \in asked
=============================================================================
