------------------------------ MODULE Clients -------------------------------
(***************************************************************************)
(* Clients asking for a proxy and reporting on it: selection::best and     *)
(* selection::feedback with the statements of the store they run           *)
(* (candidates_for_client, record_assignment, apply_client_feedback).  A   *)
(* request is two steps: what it reads, and the transaction it commits.    *)
(*                                                                         *)
(* A pair of a client and a node has one row of client_node_state, and its *)
(* reports in usage_events, of which no row is ever deleted or changed.    *)
(* Nothing keeps a client from asking again before it is answered.         *)
(***************************************************************************)
EXTENDS Integers, Sequences, FiniteSets

CONSTANTS
  Callers,         \* the clients, by the name they give
  Nodes,           \* published nodes, none of which is deleted meanwhile
  Pipeline,        \* requests a client may have under way at once
  MaxReports,      \* a bound on the reports of a client
  MaxUnanswered    \* a bound on the assignments of a pair without a report

ASSUME ClientsConstants ==
  /\ Pipeline \in Nat \ {0}
  /\ MaxReports \in Nat /\ MaxUnanswered \in Nat

Statuses == {"used", "broken", "rate_limited"}
Slots == 1..Pipeline

VARIABLES
  state,           \* client_node_state, by client and node
  cooling,         \* whether cooldown_until lies in the future
  events,          \* the reports in usage_events, in the order of their commits
  overtaken,       \* history: reports a later one has been computed without
  unanswered,      \* rows of assignment_events without a feedback_status
  servable,        \* nodes that are ACTIVE, with a runtime port and a lease
  request          \* by client and slot, the request under way

vars == << state, cooling, events, overtaken, unanswered, servable, request >>

\* A pair without a row reads like a row with the defaults of its columns.
Fresh == [circuit |-> "CLOSED", fails |-> 0, limits |-> 0, used |-> 0,
          broken |-> 0, limited |-> 0]

Rows == [circuit : {"CLOSED", "OPEN"}, fails : Nat, limits : Nat, used : Nat,
         broken : Nat, limited : Nat]

\* "seen" is history: the reports about the node at the time of the reading.
Idle == [kind |-> "idle"]
Requests ==
  {Idle} \cup [kind : {"best"}, node : Nodes, seen : Nat]
         \cup [kind : {"feedback"}, node : Nodes, status : Statuses, read : Rows, seen : Nat]

(***************************************************************************)
(* apply_client_feedback: the row it computes from the row it has read.    *)
(***************************************************************************)
\* Mutant of Reported: a rate limit ends a streak of failures.
ReportedApart(r, status) ==
  CASE status = "used" -> [r EXCEPT !.circuit = "CLOSED", !.fails = 0,
                                    !.limits = 0, !.used = @ + 1]
    [] status = "broken" -> [r EXCEPT !.circuit = "OPEN", !.fails = @ + 1,
                                      !.broken = @ + 1]
    [] status = "rate_limited" -> [r EXCEPT !.circuit = "OPEN", !.fails = 0,
                                            !.limits = @ + 1, !.limited = @ + 1]

Reported(r, status) ==
  CASE status = "used" -> [r EXCEPT !.circuit = "CLOSED", !.fails = 0,
                                    !.limits = 0, !.used = @ + 1]
    [] status = "broken" -> [r EXCEPT !.circuit = "OPEN", !.fails = @ + 1,
                                      !.broken = @ + 1]
    [] status = "rate_limited" -> [r EXCEPT !.circuit = "OPEN",
                                            !.limits = @ + 1, !.limited = @ + 1]

\* candidates_for_client and the filter of best.  Any of them may be chosen:
\* best draws a sample and takes its highest score.
Open(c, n) == state[c][n].circuit = "OPEN" /\ cooling[c][n]

\* Mutant of Candidates: the circuits are left to the penalty of the score.
CandidatesWithPenalty(c) == servable

Candidates(c) == {n \in servable : ~Open(c, n)}

(***************************************************************************)
(* Actions.                                                                *)
(***************************************************************************)
Init ==
  /\ state = [c \in Callers |-> [n \in Nodes |-> Fresh]]
  /\ cooling = [c \in Callers |-> [n \in Nodes |-> FALSE]]
  /\ events = [c \in Callers |-> [n \in Nodes |-> << >>]]
  /\ overtaken = [c \in Callers |-> [n \in Nodes |-> 0]]
  /\ unanswered = [c \in Callers |-> [n \in Nodes |-> 0]]
  /\ servable = {}
  /\ request = [c \in Callers |-> [s \in Slots |-> Idle]]

Enter(c, s, r) ==
  /\ request[c][s] = Idle
  /\ request' = [request EXCEPT ![c][s] = r]
  /\ UNCHANGED << state, cooling, events, overtaken, unanswered, servable >>

Leave(c, s) == request' = [request EXCEPT ![c][s] = Idle]

\* POST /api/v1/best: the candidates are read and one is chosen; without any
\* the answer is 503.
Select(c, s, n) ==
  /\ n \in Candidates(c)
  /\ Enter(c, s, [kind |-> "best", node |-> n, seen |-> Len(events[c][n])])

\* record_assignment commits and the client is answered.
RecordAssignment(c, s) ==
  /\ request[c][s].kind = "best"
  /\ LET n == request[c][s].node
     IN  /\ unanswered[c][n] < MaxUnanswered
         /\ unanswered' = [unanswered EXCEPT ![c][n] = @ + 1]
  /\ Leave(c, s)
  /\ UNCHANGED << state, cooling, events, overtaken, servable >>

\* POST /api/v1/feedback: the row is read outside of any transaction.  The
\* node must exist; that the client has ever been given it is not asked.
ReadRow(c, s, n, status) ==
  Enter(c, s, [kind |-> "feedback", node |-> n, status |-> status,
               read |-> state[c][n], seen |-> Len(events[c][n])])

Count(c) == LET Of(n) == Len(events[c][n])
            IN  Cardinality(UNION {{n} \X (1..Of(n)) : n \in Nodes})

\* Mutant of WriteReport: a success closes the circuit and leaves its cooldown.
WriteReportWithCooldown(c, s, cools) ==
  /\ request[c][s].kind = "feedback"
  /\ Count(c) < MaxReports
  /\ LET n == request[c][s].node
         status == request[c][s].status
     IN  /\ state' = [state EXCEPT ![c][n] = Reported(request[c][s].read, status)]
         /\ cooling' = [cooling EXCEPT ![c][n] = IF status = "used" THEN @ ELSE cools]
         /\ events' = [events EXCEPT ![c][n] = Append(@, status)]
         /\ overtaken' = [overtaken EXCEPT ![c][n] = @ + Len(events[c][n]) - request[c][s].seen]
         /\ unanswered' = [unanswered EXCEPT ![c][n] = IF @ > 0 THEN @ - 1 ELSE 0]
  /\ Leave(c, s)
  /\ UNCHANGED servable

\* The transaction of apply_client_feedback: it writes what was computed from
\* the row read, whatever the row is now, and marks the newest assignment that
\* has no report.  A cooldown is drawn from zero up to its ceiling, so it may
\* be over at once.
WriteReport(c, s, cools) ==
  /\ request[c][s].kind = "feedback"
  /\ Count(c) < MaxReports
  /\ LET n == request[c][s].node
         status == request[c][s].status
     IN  /\ cools => status # "used"
         /\ state' = [state EXCEPT ![c][n] = Reported(request[c][s].read, status)]
         /\ cooling' = [cooling EXCEPT ![c][n] = cools]
         /\ events' = [events EXCEPT ![c][n] = Append(@, status)]
         /\ overtaken' = [overtaken EXCEPT ![c][n] = @ + Len(events[c][n]) - request[c][s].seen]
         /\ unanswered' = [unanswered EXCEPT ![c][n] = IF @ > 0 THEN @ - 1 ELSE 0]
  /\ Leave(c, s)
  /\ UNCHANGED servable

\* A statement of either request fails: nothing of it is committed.
RequestFails(c, s) ==
  /\ request[c][s] # Idle
  /\ Leave(c, s)
  /\ UNCHANGED << state, cooling, events, overtaken, unanswered, servable >>

CooldownEnds(c, n) ==
  /\ cooling[c][n]
  /\ cooling' = [cooling EXCEPT ![c][n] = FALSE]
  /\ UNCHANGED << state, events, overtaken, unanswered, servable, request >>

\* The fleet goes on without the clients: nodes are demoted and promoted,
\* leases end, runtimes start and stop.
FleetMoves(S) ==
  /\ servable' = S
  /\ UNCHANGED << state, cooling, events, overtaken, unanswered, request >>

Next ==
  \/ \E c \in Callers, s \in Slots :
       \/ \E n \in Nodes : Select(c, s, n)
       \/ RecordAssignment(c, s)
       \/ \E n \in Nodes, status \in Statuses : ReadRow(c, s, n, status)
       \/ \E cools \in BOOLEAN : WriteReport(c, s, cools)
       \/ RequestFails(c, s)
  \/ \E c \in Callers, n \in Nodes : CooldownEnds(c, n)
  \/ \E S \in SUBSET Nodes : FleetMoves(S)

Spec == Init /\ [][Next]_vars

(***************************************************************************)
(* Properties.                                                             *)
(***************************************************************************)
\* Of every variable; a circuit that is closed has no cooldown to wait for.
TypeOK ==
  /\ state \in [Callers -> [Nodes -> Rows]]
  /\ cooling \in [Callers -> [Nodes -> BOOLEAN]]
  /\ events \in [Callers -> [Nodes -> Seq(Statuses)]]
  /\ overtaken \in [Callers -> [Nodes -> Int]]
  /\ unanswered \in [Callers -> [Nodes -> 0..MaxUnanswered]]
  /\ servable \subseteq Nodes
  /\ request \in [Callers -> [Slots -> Requests]]
  /\ \A c \in Callers, n \in Nodes : cooling[c][n] => state[c][n].circuit = "OPEN"

Times(h, status) == Cardinality({i \in 1..Len(h) : h[i] = status})

\* The last reports of h that came after its last success.
Since(h, status) ==
  Cardinality({i \in 1..Len(h) : h[i] = status /\ \A j \in i..Len(h) : h[j] # "used"})

\* The counters and streaks of a row, from which the next cooldown is computed,
\* are those of the reports in usage_events.
Agrees(r, h) ==
  /\ r.used = Times(h, "used") /\ r.broken = Times(h, "broken")
  /\ r.limited = Times(h, "rate_limited")
  /\ r.fails = Since(h, "broken") /\ r.limits = Since(h, "rate_limited")

Counted(r) == r.used + r.broken + r.limited

\* A report is lost only to another one of the same client on the same node that
\* had read the row before and was committed after it (storage 1401): as long as
\* none was overtaken every report counts, once, and streaks start over with a
\* success; the counters never miss more than the overtaken ones, and a circuit
\* is open exactly when the last report committed was no success.
ReportsAreCounted ==
  \A c \in Callers, n \in Nodes :
    LET h == events[c][n]
        r == state[c][n]
    IN  /\ overtaken[c][n] = 0 => Agrees(r, h)
        /\ Counted(r) \in Len(h) - overtaken[c][n] .. Len(h)
        /\ r.circuit = "OPEN" <=> h # << >> /\ h[Len(h)] # "used"

\* It would be so for every row if the row were read in the transaction that
\* writes it (violated by two requests of one client).
TablesAgree == \A c \in Callers, n \in Nodes : Agrees(state[c][n], events[c][n])

\* A client is given a node whose circuit it has opened only if the report that
\* opened it was committed while the very request was choosing (selection 22).
OpenIsRespected ==
  [][\A c \in Callers, n \in Nodes :
       unanswered'[c][n] > unanswered[c][n] =>
         \/ ~Open(c, n)
         \/ \E s \in Slots : /\ request[c][s].kind = "best" /\ request[c][s].node = n
                             /\ request'[c][s] = Idle
                             /\ request[c][s].seen < Len(events[c][n])]_vars
=============================================================================
