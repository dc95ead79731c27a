-------------------------- MODULE Outlets_proofs ----------------------------
(***************************************************************************)
(* Theorems about the two ways out of the fleet: the assignments handed to *)
(* clients (module Clients, for any clients and nodes and any number of    *)
(* reports), and the commits the publisher pushes (module Publisher, for   *)
(* any node, any number of commits and any interleaving with the others    *)
(* who push to the same branch).                                           *)
(***************************************************************************)
EXTENDS Clients, Publisher, FiniteSetTheorems, SequenceTheorems, TLAPS

(***************************************************************************)
(* apply_client_feedback.                                                  *)
(***************************************************************************)
LEMMA ReportedIs ==
  ASSUME NEW r
  PROVE  /\ Reported(r, "used") = [r EXCEPT !.circuit = "CLOSED", !.fails = 0,
                                            !.limits = 0, !.used = @ + 1]
         /\ Reported(r, "broken") = [r EXCEPT !.circuit = "OPEN", !.fails = @ + 1,
                                              !.broken = @ + 1]
         /\ Reported(r, "rate_limited") = [r EXCEPT !.circuit = "OPEN",
                                                    !.limits = @ + 1, !.limited = @ + 1]
<1>1. "used" # "broken" /\ "used" # "rate_limited" /\ "broken" # "rate_limited"
  OBVIOUS
<1>. QED
  BY <1>1, Zenon DEF Reported

LEMMA ReportedForm ==
  ASSUME NEW r \in Rows
  PROVE  /\ Reported(r, "used") =
              [circuit |-> "CLOSED", fails |-> 0, limits |-> 0,
               used |-> r.used + 1, broken |-> r.broken, limited |-> r.limited]
         /\ Reported(r, "broken") =
              [circuit |-> "OPEN", fails |-> r.fails + 1, limits |-> r.limits,
               used |-> r.used, broken |-> r.broken + 1, limited |-> r.limited]
         /\ Reported(r, "rate_limited") =
              [circuit |-> "OPEN", fails |-> r.fails, limits |-> r.limits + 1,
               used |-> r.used, broken |-> r.broken, limited |-> r.limited + 1]
<1>1. ASSUME NEW R,
             R = [r EXCEPT !.circuit = "CLOSED", !.fails = 0, !.limits = 0, !.used = @ + 1]
      PROVE  R = [circuit |-> "CLOSED", fails |-> 0, limits |-> 0,
                  used |-> r.used + 1, broken |-> r.broken, limited |-> r.limited]
  BY <1>1 DEF Rows
<1>2. ASSUME NEW R, R = [r EXCEPT !.circuit = "OPEN", !.fails = @ + 1, !.broken = @ + 1]
      PROVE  R = [circuit |-> "OPEN", fails |-> r.fails + 1, limits |-> r.limits,
                  used |-> r.used, broken |-> r.broken + 1, limited |-> r.limited]
  BY <1>2 DEF Rows
<1>3. ASSUME NEW R, R = [r EXCEPT !.circuit = "OPEN", !.limits = @ + 1, !.limited = @ + 1]
      PROVE  R = [circuit |-> "OPEN", fails |-> r.fails, limits |-> r.limits + 1,
                  used |-> r.used, broken |-> r.broken, limited |-> r.limited + 1]
  BY <1>3 DEF Rows
<1>. QED
  BY <1>1, <1>2, <1>3, ReportedIs

LEMMA ReportedTypes ==
  ASSUME NEW r \in Rows, NEW status \in Statuses
  PROVE  /\ Reported(r, status) \in Rows
         /\ status = "used" => Reported(r, status).circuit = "CLOSED"
         /\ status # "used" => Reported(r, status).circuit = "OPEN"
<1>1. /\ r.fails \in Nat /\ r.limits \in Nat
      /\ r.used \in Nat /\ r.broken \in Nat /\ r.limited \in Nat
  BY DEF Rows
<1>2. CASE status = "used"
  BY <1>1, <1>2, ReportedForm DEF Rows
<1>3. CASE status = "broken"
  BY <1>1, <1>3, ReportedForm DEF Rows
<1>4. CASE status = "rate_limited"
  BY <1>1, <1>4, ReportedForm DEF Rows
<1>. QED
  BY <1>2, <1>3, <1>4 DEF Statuses

(***************************************************************************)
(* Requests.                                                               *)
(***************************************************************************)
LEMMA RequestKinds ==
  ASSUME NEW r \in Requests
  PROVE  /\ r.kind = "best" => r.node \in Nodes
         /\ r.kind = "feedback" => r.node \in Nodes /\ r.status \in Statuses /\ r.read \in Rows
         /\ r.kind # "idle" => r.seen \in Nat
BY DEF Requests, Idle

LEMMA RequestForms ==
  /\ Idle \in Requests
  /\ \A n \in Nodes, seen \in Nat : [kind |-> "best", node |-> n, seen |-> seen] \in Requests
  /\ \A n \in Nodes, status \in Statuses, row \in Rows, seen \in Nat :
       [kind |-> "feedback", node |-> n, status |-> status, read |-> row, seen |-> seen]
         \in Requests
BY DEF Requests

LEMMA TypeInit == Init => TypeOK
<1>. SUFFICES ASSUME Init PROVE TypeOK
  OBVIOUS
<1>1. Fresh \in Rows
  BY DEF Fresh, Rows
<1>2. state \in [Callers -> [Nodes -> Rows]] /\ events \in [Callers -> [Nodes -> Seq(Statuses)]]
  BY <1>1 DEF Init
<1>3. request \in [Callers -> [Slots -> Requests]]
  BY RequestForms DEF Init
<1>4. unanswered \in [Callers -> [Nodes -> 0..MaxUnanswered]]
  BY ClientsConstants DEF Init
<1>5. overtaken \in [Callers -> [Nodes -> Int]]
  BY DEF Init
<1>. QED
  BY <1>2, <1>3, <1>4, <1>5 DEF Init, TypeOK

LEMMA EnterTypes ==
  ASSUME TypeOK, NEW c \in Callers, NEW s \in Slots, NEW r \in Requests, Enter(c, s, r)
  PROVE  TypeOK'
BY DEF Enter, TypeOK

LEMMA LeaveTypes ==
  ASSUME TypeOK, NEW c \in Callers, NEW s \in Slots, Leave(c, s)
  PROVE  request' \in [Callers -> [Slots -> Requests]]
BY RequestForms DEF Leave, TypeOK

LEMMA TypeStep == TypeOK /\ [Next]_vars => TypeOK'
<1>. SUFFICES ASSUME TypeOK, [Next]_vars PROVE TypeOK'
  OBVIOUS
<1>1. ASSUME NEW c \in Callers, NEW s \in Slots, NEW n \in Nodes, Select(c, s, n) PROVE TypeOK'
  <2>1. Len(events[c][n]) \in Nat
    BY DEF TypeOK
  <2>. QED
    BY <1>1, <2>1, EnterTypes, RequestForms DEF Select
<1>2. ASSUME NEW c \in Callers, NEW s \in Slots, RecordAssignment(c, s) PROVE TypeOK'
  <2>1. request[c][s] \in Requests /\ request[c][s].kind = "best"
    BY <1>2 DEF RecordAssignment, TypeOK
  <2>2. PICK n \in Nodes : /\ unanswered[c][n] < MaxUnanswered
                           /\ unanswered' = [unanswered EXCEPT ![c][n] = @ + 1]
    BY <1>2, <2>1, RequestKinds DEF RecordAssignment
  <2>3. unanswered' \in [Callers -> [Nodes -> 0..MaxUnanswered]]
    <3>1. unanswered[c][n] \in 0..MaxUnanswered
      BY DEF TypeOK
    <3>2. unanswered[c][n] + 1 \in 0..MaxUnanswered
      BY <2>2, <3>1, ClientsConstants
    <3>. QED
      BY <2>2, <3>2 DEF TypeOK
  <2>4. request' \in [Callers -> [Slots -> Requests]]
    BY <1>2, LeaveTypes DEF RecordAssignment
  <2>. QED
    BY <1>2, <2>3, <2>4 DEF RecordAssignment, TypeOK
<1>3. ASSUME NEW c \in Callers, NEW s \in Slots, NEW n \in Nodes, NEW status \in Statuses,
             ReadRow(c, s, n, status)
      PROVE  TypeOK'
  <2>1. state[c][n] \in Rows /\ Len(events[c][n]) \in Nat
    BY DEF TypeOK
  <2>. QED
    BY <1>3, <2>1, EnterTypes, RequestForms DEF ReadRow
<1>4. ASSUME NEW c \in Callers, NEW s \in Slots, NEW cools \in BOOLEAN, WriteReport(c, s, cools)
      PROVE  TypeOK'
  <2>. DEFINE r == request[c][s]
  <2>1. r \in Requests /\ r.kind = "feedback"
    BY <1>4 DEF WriteReport, TypeOK
  <2>2. r.node \in Nodes /\ r.status \in Statuses /\ r.read \in Rows /\ r.seen \in Nat
    BY <2>1, RequestKinds
  <2>3. /\ Reported(r.read, r.status) \in Rows
        /\ cools => Reported(r.read, r.status).circuit = "OPEN"
    BY <1>4, <2>2, ReportedTypes DEF WriteReport
  <2>4. /\ state' = [state EXCEPT ![c][r.node] = Reported(r.read, r.status)]
        /\ cooling' = [cooling EXCEPT ![c][r.node] = cools]
        /\ events' = [events EXCEPT ![c][r.node] = Append(@, r.status)]
        /\ overtaken' = [overtaken EXCEPT ![c][r.node] = @ + Len(events[c][r.node]) - r.seen]
        /\ unanswered' = [unanswered EXCEPT ![c][r.node] = IF @ > 0 THEN @ - 1 ELSE 0]
        /\ servable' = servable
    BY <1>4 DEF WriteReport
  <2>5. /\ state' \in [Callers -> [Nodes -> Rows]]
        /\ cooling' \in [Callers -> [Nodes -> BOOLEAN]]
        /\ \A d \in Callers, n \in Nodes : cooling'[d][n] => state'[d][n].circuit = "OPEN"
    BY <2>2, <2>3, <2>4 DEF TypeOK
  <2>6. events' \in [Callers -> [Nodes -> Seq(Statuses)]]
    <3>1. Append(events[c][r.node], r.status) \in Seq(Statuses)
      BY <2>2 DEF TypeOK
    <3>. QED
      BY <2>2, <2>4, <3>1 DEF TypeOK
  <2>7. unanswered' \in [Callers -> [Nodes -> 0..MaxUnanswered]]
    <3>1. unanswered[c][r.node] \in 0..MaxUnanswered
      BY <2>2 DEF TypeOK
    <3>2. (IF unanswered[c][r.node] > 0 THEN unanswered[c][r.node] - 1 ELSE 0) \in 0..MaxUnanswered
      BY <3>1, ClientsConstants
    <3>. QED
      BY <2>2, <2>4, <3>2 DEF TypeOK
  <2>8. request' \in [Callers -> [Slots -> Requests]]
    BY <1>4, LeaveTypes DEF WriteReport
  <2>9. overtaken' \in [Callers -> [Nodes -> Int]]
    <3>1. overtaken[c][r.node] \in Int /\ Len(events[c][r.node]) \in Nat
      BY <2>2 DEF TypeOK
    <3>2. \A i \in Int, l, m \in Nat : i + l - m \in Int
      OBVIOUS
    <3>3. overtaken[c][r.node] + Len(events[c][r.node]) - r.seen \in Int
      BY <2>2, <3>1, <3>2
    <3>. HIDE DEF r
    <3>. QED
      BY <2>2, <2>4, <3>3 DEF TypeOK
  <2>. QED
    BY <2>4, <2>5, <2>6, <2>7, <2>8, <2>9 DEF TypeOK
<1>5. ASSUME NEW c \in Callers, NEW s \in Slots, RequestFails(c, s) PROVE TypeOK'
  <2>1. request' \in [Callers -> [Slots -> Requests]]
    BY <1>5, LeaveTypes DEF RequestFails
  <2>. QED
    BY <1>5, <2>1 DEF RequestFails, TypeOK
<1>6. ASSUME NEW c \in Callers, NEW n \in Nodes, CooldownEnds(c, n) PROVE TypeOK'
  BY <1>6 DEF CooldownEnds, TypeOK
<1>7. ASSUME NEW S \in SUBSET Nodes, FleetMoves(S) PROVE TypeOK'
  BY <1>7 DEF FleetMoves, TypeOK
<1>8. CASE UNCHANGED vars
  BY <1>8 DEF vars, TypeOK
<1>. QED
  BY <1>1, <1>2, <1>3, <1>4, <1>5, <1>6, <1>7, <1>8 DEF Next

\* The types, and that no closed circuit has a cooldown (apply_client_feedback).
THEOREM TypeCorrect == Spec => []TypeOK
<1>1. Init => TypeOK
  BY TypeInit
<1>2. TypeOK /\ [Next]_vars => TypeOK'
  BY TypeStep
<1>. QED
  BY <1>1, <1>2, PTL DEF Spec

(***************************************************************************)
(* Counting reports: one more at the end.                                  *)
(***************************************************************************)
LEMMA Appending ==
  ASSUME NEW h \in Seq(Statuses), NEW x \in Statuses
  PROVE  /\ Append(h, x) \in Seq(Statuses) /\ Len(h) \in Nat
         /\ Len(Append(h, x)) = Len(h) + 1
         /\ \A i \in 1..Len(h) : Append(h, x)[i] = h[i]
         /\ Append(h, x)[Len(h) + 1] = x
OBVIOUS

\* A set of positions is finite, and the position appended is not in it.
LEMMA OneMore ==
  ASSUME NEW m \in Nat, NEW S \in SUBSET (1..m)
  PROVE  /\ Cardinality(S) \in Nat
         /\ Cardinality(S \cup {m + 1}) = Cardinality(S) + 1
<1>1. IsFiniteSet(S)
  <2>1. IsFiniteSet(1..m)
    BY FS_Interval
  <2>. QED
    BY <2>1, FS_Subset
<1>2. m + 1 \notin S
  OBVIOUS
<1>. QED
  BY <1>1, <1>2, FS_AddElement, FS_CardinalityType

LEMMA TimesAppended ==
  ASSUME NEW h \in Seq(Statuses), NEW x \in Statuses, NEW status \in Statuses
  PROVE  /\ Times(h, status) \in Nat
         /\ x = status => Times(Append(h, x), status) = Times(h, status) + 1
         /\ x # status => Times(Append(h, x), status) = Times(h, status)
<1>. DEFINE k == Append(h, x)
            S == {i \in 1..Len(h) : h[i] = status}
            T == {i \in 1..Len(k) : k[i] = status}
<1>1. /\ Len(h) \in Nat /\ Len(k) = Len(h) + 1 /\ k[Len(h) + 1] = x
      /\ \A i \in 1..Len(h) : k[i] = h[i]
  BY Appending
<1>. HIDE DEF k
<1>2. x = status => T = S \cup {Len(h) + 1}
  BY <1>1
<1>3. x # status => T = S
  BY <1>1
<1>4. S \in SUBSET (1..Len(h))
  OBVIOUS
<1>5. Cardinality(S) \in Nat /\ Cardinality(S \cup {Len(h) + 1}) = Cardinality(S) + 1
  BY <1>1, <1>4, OneMore
<1>. QED
  BY <1>2, <1>3, <1>5 DEF Times, k

LEMMA SinceAppended ==
  ASSUME NEW h \in Seq(Statuses), NEW x \in Statuses, NEW status \in Statuses \ {"used"}
  PROVE  /\ Since(h, status) \in Nat
         /\ x = "used" => Since(Append(h, x), status) = 0
         /\ x # "used" /\ x = status => Since(Append(h, x), status) = Since(h, status) + 1
         /\ x # "used" /\ x # status => Since(Append(h, x), status) = Since(h, status)
<1>. DEFINE k == Append(h, x)
            S == {i \in 1..Len(h) : h[i] = status /\ \A j \in i..Len(h) : h[j] # "used"}
            T == {i \in 1..Len(k) : k[i] = status /\ \A j \in i..Len(k) : k[j] # "used"}
<1>1. /\ Len(h) \in Nat /\ Len(k) = Len(h) + 1 /\ k[Len(h) + 1] = x
      /\ \A i \in 1..Len(h) : k[i] = h[i]
  BY Appending
<1>. HIDE DEF k
<1>2. ASSUME x = "used" PROVE T = {}
  <2>1. \A i \in 1..Len(k) : Len(h) + 1 \in i..Len(k) /\ k[Len(h) + 1] = "used"
    BY <1>1, <1>2
  <2>. QED
    BY <2>1
<1>3. ASSUME x # "used" PROVE \A i \in 1..Len(h) : i \in T <=> i \in S
  <2>. SUFFICES ASSUME NEW i \in 1..Len(h) PROVE i \in T <=> i \in S
    OBVIOUS
  <2>1. (\A j \in i..Len(k) : k[j] # "used") <=> (\A j \in i..Len(h) : h[j] # "used")
    BY <1>1, <1>3
  <2>. QED
    BY <1>1, <2>1
<1>4. ASSUME x # "used" PROVE Len(h) + 1 \in T <=> x = status
  BY <1>1, <1>4
<1>5. S \in SUBSET (1..Len(h)) /\ T \in SUBSET (1..(Len(h) + 1))
  BY <1>1
<1>6. x # "used" /\ x = status => T = S \cup {Len(h) + 1}
  BY <1>1, <1>3, <1>4, <1>5
<1>7. x # "used" /\ x # status => T = S
  BY <1>1, <1>3, <1>4, <1>5
<1>8. Cardinality(S) \in Nat /\ Cardinality(S \cup {Len(h) + 1}) = Cardinality(S) + 1
  BY <1>1, <1>5, OneMore
<1>9. /\ Since(h, status) = Cardinality(S)
      /\ Since(k, status) = Cardinality(T)
  BY DEF Since
<1>. QED
  BY <1>2, <1>6, <1>7, <1>8, <1>9, FS_EmptySet DEF k

(***************************************************************************)
(* One row and its reports.                                                *)
(***************************************************************************)
LEMMA AgreesAtFirst == Agrees(Fresh, << >>)
<1>1. \A status : Times(<< >>, status) = 0 /\ Since(<< >>, status) = 0
  BY FS_EmptySet DEF Times, Since
<1>. QED
  BY <1>1 DEF Agrees, Fresh

LEMMA AgreesStep ==
  ASSUME NEW r \in Rows, NEW h \in Seq(Statuses), NEW x \in Statuses, Agrees(r, h)
  PROVE  Agrees(Reported(r, x), Append(h, x))
<1>. DEFINE R == Reported(r, x)
            k == Append(h, x)
<1>2. /\ r.fails \in Nat /\ r.limits \in Nat /\ r.used \in Nat
      /\ r.broken \in Nat /\ r.limited \in Nat
  BY DEF Rows
<1>3. /\ r.used = Times(h, "used") /\ r.broken = Times(h, "broken")
      /\ r.limited = Times(h, "rate_limited")
      /\ r.fails = Since(h, "broken") /\ r.limits = Since(h, "rate_limited")
  BY DEF Agrees
<1>4. CASE x = "used"
  <2>1. /\ R.used = r.used + 1 /\ R.broken = r.broken /\ R.limited = r.limited
        /\ R.fails = 0 /\ R.limits = 0
    BY <1>4, ReportedForm
  <2>2. /\ Times(k, "used") = Times(h, "used") + 1 /\ Times(k, "broken") = Times(h, "broken")
        /\ Times(k, "rate_limited") = Times(h, "rate_limited")
    BY <1>4, TimesAppended DEF Statuses
  <2>3. Since(k, "broken") = 0 /\ Since(k, "rate_limited") = 0
    BY <1>4, SinceAppended DEF Statuses
  <2>. QED
    BY <1>3, <2>1, <2>2, <2>3 DEF Agrees
<1>5. CASE x = "broken"
  <2>1. /\ R.used = r.used /\ R.broken = r.broken + 1 /\ R.limited = r.limited
        /\ R.fails = r.fails + 1 /\ R.limits = r.limits
    BY <1>5, ReportedForm
  <2>2. /\ Times(k, "used") = Times(h, "used") /\ Times(k, "broken") = Times(h, "broken") + 1
        /\ Times(k, "rate_limited") = Times(h, "rate_limited")
    BY <1>5, TimesAppended DEF Statuses
  <2>3. /\ Since(k, "broken") = Since(h, "broken") + 1
        /\ Since(k, "rate_limited") = Since(h, "rate_limited")
    BY <1>5, SinceAppended DEF Statuses
  <2>. QED
    BY <1>3, <2>1, <2>2, <2>3 DEF Agrees
<1>6. CASE x = "rate_limited"
  <2>1. /\ R.used = r.used /\ R.broken = r.broken /\ R.limited = r.limited + 1
        /\ R.fails = r.fails /\ R.limits = r.limits + 1
    BY <1>6, ReportedForm
  <2>2. /\ Times(k, "used") = Times(h, "used") /\ Times(k, "broken") = Times(h, "broken")
        /\ Times(k, "rate_limited") = Times(h, "rate_limited") + 1
    BY <1>6, TimesAppended DEF Statuses
  <2>3. /\ Since(k, "broken") = Since(h, "broken")
        /\ Since(k, "rate_limited") = Since(h, "rate_limited") + 1
    BY <1>6, SinceAppended DEF Statuses
  <2>. QED
    BY <1>3, <2>1, <2>2, <2>3 DEF Agrees
<1>. QED
  BY <1>4, <1>5, <1>6 DEF Statuses

(***************************************************************************)
(* Requests of one client side by side.  A row may then be written from    *)
(* one that is no longer there: reports are lost, but none is invented, and *)
(* the circuit, which depends on the report alone, is that of the last one. *)
(***************************************************************************)
Within(r, h) ==
  /\ r.used <= Times(h, "used") /\ r.broken <= Times(h, "broken")
  /\ r.limited <= Times(h, "rate_limited")
  /\ r.fails <= Times(h, "broken") /\ r.limits <= Times(h, "rate_limited")

LastCloses(r, h) == r.circuit = "OPEN" <=> h # << >> /\ h[Len(h)] # "used"

AllWithin ==
  /\ \A c \in Callers, n \in Nodes :
       Within(state[c][n], events[c][n]) /\ LastCloses(state[c][n], events[c][n])
  /\ \A c \in Callers, s \in Slots :
       request[c][s].kind = "feedback" =>
         Within(request[c][s].read, events[c][request[c][s].node])

LEMMA WithinStep ==
  ASSUME NEW r \in Rows, NEW h \in Seq(Statuses), NEW x \in Statuses, Within(r, h)
  PROVE  Within(r, Append(h, x)) /\ Within(Reported(r, x), Append(h, x))
<1>. DEFINE R == Reported(r, x)
            k == Append(h, x)
<1>1. /\ r.fails \in Nat /\ r.limits \in Nat /\ r.used \in Nat
      /\ r.broken \in Nat /\ r.limited \in Nat
  BY DEF Rows
<1>2. \A status \in Statuses :
        /\ Times(h, status) \in Nat
        /\ x = status => Times(k, status) = Times(h, status) + 1
        /\ x # status => Times(k, status) = Times(h, status)
  BY TimesAppended
<1>. HIDE DEF R, k
<1>3. /\ Times(h, "used") \in Nat /\ Times(h, "broken") \in Nat
      /\ Times(h, "rate_limited") \in Nat
  BY <1>2 DEF Statuses
<1>4. CASE x = "used"
  <2>1. /\ R.used = r.used + 1 /\ R.broken = r.broken /\ R.limited = r.limited
        /\ R.fails = 0 /\ R.limits = 0
    BY <1>4, ReportedForm DEF R
  <2>2. /\ Times(k, "used") = Times(h, "used") + 1 /\ Times(k, "broken") = Times(h, "broken")
        /\ Times(k, "rate_limited") = Times(h, "rate_limited")
    BY <1>2, <1>4 DEF Statuses
  <2>. QED
    BY <1>1, <1>3, <2>1, <2>2 DEF Within, R, k
<1>5. CASE x = "broken"
  <2>1. /\ R.used = r.used /\ R.broken = r.broken + 1 /\ R.limited = r.limited
        /\ R.fails = r.fails + 1 /\ R.limits = r.limits
    BY <1>5, ReportedForm DEF R
  <2>2. /\ Times(k, "used") = Times(h, "used") /\ Times(k, "broken") = Times(h, "broken") + 1
        /\ Times(k, "rate_limited") = Times(h, "rate_limited")
    BY <1>2, <1>5 DEF Statuses
  <2>. QED
    BY <1>1, <1>3, <2>1, <2>2 DEF Within, R, k
<1>6. CASE x = "rate_limited"
  <2>1. /\ R.used = r.used /\ R.broken = r.broken /\ R.limited = r.limited + 1
        /\ R.fails = r.fails /\ R.limits = r.limits + 1
    BY <1>6, ReportedForm DEF R
  <2>2. /\ Times(k, "used") = Times(h, "used") /\ Times(k, "broken") = Times(h, "broken")
        /\ Times(k, "rate_limited") = Times(h, "rate_limited") + 1
    BY <1>2, <1>6 DEF Statuses
  <2>. QED
    BY <1>1, <1>3, <2>1, <2>2 DEF Within, R, k
<1>. QED
  BY <1>4, <1>5, <1>6 DEF Statuses

LEMMA WithinInit == Init => AllWithin
<1>1. \A status : Times(<< >>, status) = 0
  BY FS_EmptySet DEF Times
<1>. QED
  BY <1>1 DEF Init, AllWithin, Within, LastCloses, Fresh, Idle

\* A row read and a report of it stay within the reports when one is added.
LEMMA WithinLater ==
  ASSUME TypeOK, AllWithin, NEW c \in Callers, NEW s \in Slots, NEW cools \in BOOLEAN,
         WriteReport(c, s, cools)
  PROVE  AllWithin'
<1>. DEFINE q == request[c][s]
<1>1. q \in Requests /\ q.kind = "feedback"
  BY DEF WriteReport, TypeOK
<1>2. /\ q.node \in Nodes /\ q.status \in Statuses /\ q.read \in Rows
      /\ Within(q.read, events[c][q.node])
  BY <1>1, RequestKinds DEF AllWithin
<1>3. /\ state' = [state EXCEPT ![c][q.node] = Reported(q.read, q.status)]
      /\ events' = [events EXCEPT ![c][q.node] = Append(@, q.status)]
      /\ request' = [request EXCEPT ![c][s] = Idle]
  BY DEF WriteReport, Leave
<1>4. events[c][q.node] \in Seq(Statuses)
  BY <1>2 DEF TypeOK
<1>5. /\ state'[c][q.node] = Reported(q.read, q.status)
      /\ events'[c][q.node] = Append(events[c][q.node], q.status)
      /\ \A d \in Callers, n \in Nodes : ~(d = c /\ n = q.node) =>
           state'[d][n] = state[d][n] /\ events'[d][n] = events[d][n]
  BY <1>2, <1>3 DEF TypeOK
<1>. HIDE DEF q
<1>6. ASSUME NEW d \in Callers, NEW n \in Nodes
      PROVE  Within(state'[d][n], events'[d][n]) /\ LastCloses(state'[d][n], events'[d][n])
  <2>1. CASE d = c /\ n = q.node
    <3>1. Within(state'[d][n], events'[d][n])
      BY <1>2, <1>4, <1>5, <2>1, WithinStep
    <3>2. events'[d][n] # << >> /\ events'[d][n][Len(events'[d][n])] = q.status
      BY <1>2, <1>4, <1>5, <2>1, Appending
    <3>3. state'[d][n].circuit = "OPEN" <=> q.status # "used"
      BY <1>2, <1>5, <2>1, ReportedTypes
    <3>. QED
      BY <3>1, <3>2, <3>3 DEF LastCloses
  <2>2. CASE ~(d = c /\ n = q.node)
    BY <1>5, <2>2 DEF AllWithin
  <2>. QED
    BY <2>1, <2>2
<1>7. ASSUME NEW d \in Callers, NEW t \in Slots, request'[d][t].kind = "feedback"
      PROVE  Within(request'[d][t].read, events'[d][request'[d][t].node])
  <2>1. request'[d][t] = request[d][t]
    BY <1>3, <1>7 DEF TypeOK, Idle
  <2>2. request[d][t] \in Requests
    BY DEF TypeOK
  <2>3. request[d][t].node \in Nodes /\ request[d][t].read \in Rows
    BY <1>7, <2>1, <2>2, RequestKinds
  <2>4. Within(request[d][t].read, events[d][request[d][t].node])
    BY <1>7, <2>1 DEF AllWithin
  <2>5. CASE d = c /\ request[d][t].node = q.node
    <3>1. Within(request[d][t].read, Append(events[c][q.node], q.status))
      BY <1>2, <1>4, <2>3, <2>4, <2>5, WithinStep
    <3>2. /\ request'[d][t].read = request[d][t].read
          /\ events'[d][request'[d][t].node] = Append(events[c][q.node], q.status)
      BY <1>5, <2>1, <2>5
    <3>. QED
      BY <3>1, <3>2
  <2>6. CASE ~(d = c /\ request[d][t].node = q.node)
    <3>1. /\ request'[d][t].read = request[d][t].read
          /\ events'[d][request'[d][t].node] = events[d][request[d][t].node]
      BY <1>5, <2>1, <2>3, <2>6
    <3>. QED
      BY <2>4, <3>1
  <2>. QED
    BY <2>5, <2>6
<1>. QED
  BY <1>6, <1>7 DEF AllWithin, Within, LastCloses

LEMMA AllWithinStep == TypeOK /\ AllWithin /\ [Next]_vars => AllWithin'
<1>. SUFFICES ASSUME TypeOK, AllWithin, [Next]_vars PROVE AllWithin'
  OBVIOUS
<1>1. request \in [Callers -> [Slots -> Requests]]
  BY DEF TypeOK
<1>2. ASSUME UNCHANGED << state, events >>,
             \A d \in Callers, t \in Slots :
               request'[d][t].kind = "feedback" => request'[d][t] = request[d][t]
      PROVE  AllWithin'
  BY <1>2 DEF AllWithin, Within, LastCloses
<1>3. ASSUME NEW c \in Callers, NEW s \in Slots, NEW n \in Nodes, Select(c, s, n)
      PROVE  AllWithin'
  <2>1. request' = [request EXCEPT
                      ![c][s] = [kind |-> "best", node |-> n, seen |-> Len(events[c][n])]]
    BY <1>3 DEF Select, Enter
  <2>2. \A d \in Callers, t \in Slots :
          request'[d][t].kind = "feedback" => request'[d][t] = request[d][t]
    BY <1>1, <2>1
  <2>. QED
    BY <1>2, <1>3, <2>2 DEF Select, Enter
<1>4. ASSUME NEW c \in Callers, NEW s \in Slots, NEW n \in Nodes, NEW status \in Statuses,
             ReadRow(c, s, n, status)
      PROVE  AllWithin'
  <2>. DEFINE new == [kind |-> "feedback", node |-> n, status |-> status, read |-> state[c][n],
                      seen |-> Len(events[c][n])]
  <2>1. request' = [request EXCEPT ![c][s] = new] /\ UNCHANGED << state, events >>
    BY <1>4 DEF ReadRow, Enter
  <2>2. Within(new.read, events[c][new.node])
    BY DEF AllWithin
  <2>3. \A d \in Callers, t \in Slots :
          request'[d][t] = request[d][t] \/ (d = c /\ request'[d][t] = new)
    BY <1>1, <2>1
  <2>. HIDE DEF new
  <2>4. \A d \in Callers, t \in Slots :
          request'[d][t].kind = "feedback" =>
            Within(request'[d][t].read, events[d][request'[d][t].node])
    BY <2>2, <2>3 DEF AllWithin
  <2>5. \A d \in Callers, m \in Nodes :
          Within(state[d][m], events[d][m]) /\ LastCloses(state[d][m], events[d][m])
    BY DEF AllWithin
  <2>. QED
    BY <2>1, <2>4, <2>5 DEF AllWithin, Within, LastCloses
<1>5. ASSUME NEW c \in Callers, NEW s \in Slots, RecordAssignment(c, s) \/ RequestFails(c, s)
      PROVE  AllWithin'
  <2>1. request' = [request EXCEPT ![c][s] = Idle] /\ UNCHANGED << state, events >>
    BY <1>5 DEF RecordAssignment, RequestFails, Leave
  <2>2. \A d \in Callers, t \in Slots :
          request'[d][t].kind = "feedback" => request'[d][t] = request[d][t]
    BY <1>1, <2>1 DEF Idle
  <2>. QED
    BY <1>2, <2>1, <2>2
<1>6. CASE \/ \E c \in Callers, n \in Nodes : CooldownEnds(c, n)
           \/ \E S \in SUBSET Nodes : FleetMoves(S)
           \/ UNCHANGED vars
  BY <1>2, <1>6 DEF CooldownEnds, FleetMoves, vars
<1>. QED
  BY <1>3, <1>4, <1>5, <1>6, WithinLater DEF Next

\* Whatever the number of requests a client has under way: no counter and no
\* streak says more than the reports do, and a circuit is open exactly when the
\* last report committed was no success (apply_client_feedback).
THEOREM NothingIsInvented ==
  Spec => [](\A c \in Callers, n \in Nodes :
               Within(state[c][n], events[c][n]) /\ LastCloses(state[c][n], events[c][n]))
<1>1. Init => TypeOK /\ AllWithin
  BY TypeInit, WithinInit
<1>2. TypeOK /\ AllWithin /\ [Next]_vars => (TypeOK /\ AllWithin)'
  BY TypeStep, AllWithinStep
<1>3. TypeOK /\ AllWithin =>
        \A c \in Callers, n \in Nodes :
          Within(state[c][n], events[c][n]) /\ LastCloses(state[c][n], events[c][n])
  BY DEF AllWithin
<1>. QED
  BY <1>1, <1>2, <1>3, PTL DEF Spec

(***************************************************************************)
(* What a request has read.  It still holds as long as no report about the *)
(* node was committed since, and a row computed from it then counts every  *)
(* report but those: this is what "seen" and "overtaken" keep track of.    *)
(***************************************************************************)
LEMMA CountedStep ==
  ASSUME NEW r \in Rows, NEW x \in Statuses
  PROVE  Counted(r) \in Nat /\ Counted(Reported(r, x)) = Counted(r) + 1
<1>1. /\ r.used \in Nat /\ r.broken \in Nat /\ r.limited \in Nat
  BY DEF Rows
<1>2. CASE x = "used"
  BY <1>1, <1>2, ReportedForm DEF Counted
<1>3. CASE x = "broken"
  BY <1>1, <1>3, ReportedForm DEF Counted
<1>4. CASE x = "rate_limited"
  BY <1>1, <1>4, ReportedForm DEF Counted
<1>. QED
  BY <1>1, <1>2, <1>3, <1>4 DEF Statuses, Counted

Holds(q, c) ==
  /\ q.seen <= Len(events[c][q.node])
  /\ q.kind = "best" => (q.seen = Len(events[c][q.node]) => ~Open(c, q.node))
  /\ q.kind = "feedback" =>
       /\ q.seen = Len(events[c][q.node]) => q.read = state[c][q.node]
       /\ Counted(q.read) \in q.seen - overtaken[c][q.node] .. q.seen

Current ==
  \A c \in Callers, s \in Slots : request[c][s].kind # "idle" => Holds(request[c][s], c)

Tallied(c, n) ==
  /\ overtaken[c][n] \in Nat
  /\ overtaken[c][n] = 0 => Agrees(state[c][n], events[c][n])
  /\ Counted(state[c][n]) \in Len(events[c][n]) - overtaken[c][n] .. Len(events[c][n])

AllTallied == \A c \in Callers, n \in Nodes : Tallied(c, n)

IInv == TypeOK /\ Current /\ AllTallied

\* No circuit opens and no row is written.
LEMMA StillHolds ==
  ASSUME TypeOK, Current, NEW d \in Callers, NEW t \in Slots, request[d][t].kind # "idle",
         request'[d][t] = request[d][t],
         LET n == request[d][t].node
         IN  /\ state'[d][n] = state[d][n] /\ events'[d][n] = events[d][n]
             /\ overtaken'[d][n] = overtaken[d][n] /\ (cooling'[d][n] => cooling[d][n])
  PROVE  Holds(request[d][t], d)'
<1>1. Holds(request[d][t], d)
  BY DEF Current
<1>. QED
  BY <1>1 DEF Holds, Open

\* A report is committed that the request has not seen.
LEMMA HoldsLater ==
  ASSUME TypeOK, Current, AllTallied, NEW d \in Callers, NEW t \in Slots,
         request[d][t].kind # "idle", request'[d][t] = request[d][t],
         Len(events'[d][request[d][t].node]) = Len(events[d][request[d][t].node]) + 1,
         overtaken'[d][request[d][t].node] \in Nat,
         overtaken'[d][request[d][t].node] >= overtaken[d][request[d][t].node]
  PROVE  Holds(request[d][t], d)'
<1>. DEFINE q == request[d][t]
            l == Len(events[d][q.node])
            o == overtaken[d][q.node]
<1>1. q \in Requests /\ Holds(q, d)
  BY DEF Current, TypeOK
<1>2. q.kind \in {"best", "feedback"}
  BY <1>1 DEF Requests, Idle
<1>3. q.seen \in Nat /\ q.node \in Nodes
  BY <1>1, <1>2, RequestKinds
<1>4. l \in Nat /\ q.seen <= l /\ o \in Nat
  BY <1>1, <1>3 DEF Holds, TypeOK, AllTallied, Tallied
<1>5. q.seen # l + 1
  BY <1>3, <1>4
<1>6. q.kind = "feedback" => Counted(q.read) \in Nat /\ Counted(q.read) \in q.seen - o .. q.seen
  BY <1>1, RequestKinds, CountedStep DEF Holds, Statuses
<1>7. q.kind = "feedback" => Counted(q.read) \in q.seen - overtaken'[d][q.node] .. q.seen
  BY <1>3, <1>4, <1>6
<1>. QED
  BY <1>3, <1>4, <1>5, <1>7 DEF Holds, Counted

\* The rows, reports and requests after a report.
LEMMA WriteFacts ==
  ASSUME TypeOK, NEW c \in Callers, NEW s \in Slots, NEW cools \in BOOLEAN,
         WriteReport(c, s, cools)
  PROVE  LET q == request[c][s]
             h == events[c][q.node]
         IN  /\ q \in Requests /\ q.kind = "feedback" /\ q.seen \in Nat
             /\ q.node \in Nodes /\ q.status \in Statuses /\ q.read \in Rows
             /\ h \in Seq(Statuses)
             /\ state'[c][q.node] = Reported(q.read, q.status)
             /\ events'[c][q.node] = Append(h, q.status)
             /\ overtaken'[c][q.node] = overtaken[c][q.node] + Len(h) - q.seen
             /\ \A d \in Callers, n \in Nodes : ~(d = c /\ n = q.node) =>
                  /\ state'[d][n] = state[d][n] /\ events'[d][n] = events[d][n]
                  /\ overtaken'[d][n] = overtaken[d][n] /\ cooling'[d][n] = cooling[d][n]
             /\ request'[c][s] = Idle
             /\ \A d \in Callers, t \in Slots : ~(d = c /\ t = s) =>
                  request'[d][t] = request[d][t]
<1>. DEFINE q == request[c][s]
<1>1. q \in Requests /\ q.kind = "feedback"
  BY DEF WriteReport, TypeOK
<1>2. /\ q.node \in Nodes /\ q.status \in Statuses /\ q.read \in Rows /\ q.seen \in Nat
      /\ events[c][q.node] \in Seq(Statuses)
  BY <1>1, RequestKinds DEF TypeOK
<1>3. /\ state' = [state EXCEPT ![c][q.node] = Reported(q.read, q.status)]
      /\ cooling' = [cooling EXCEPT ![c][q.node] = cools]
      /\ events' = [events EXCEPT ![c][q.node] = Append(@, q.status)]
      /\ overtaken' = [overtaken EXCEPT ![c][q.node] = @ + Len(events[c][q.node]) - q.seen]
      /\ request' = [request EXCEPT ![c][s] = Idle]
  BY DEF WriteReport, Leave
<1>. HIDE DEF q
<1>4. /\ state'[c][q.node] = Reported(q.read, q.status)
      /\ \A d \in Callers, n \in Nodes : ~(d = c /\ n = q.node) => state'[d][n] = state[d][n]
  BY <1>2, <1>3 DEF TypeOK
<1>5. /\ events'[c][q.node] = Append(events[c][q.node], q.status)
      /\ \A d \in Callers, n \in Nodes : ~(d = c /\ n = q.node) => events'[d][n] = events[d][n]
  BY <1>2, <1>3 DEF TypeOK
<1>6. /\ overtaken'[c][q.node] = overtaken[c][q.node] + Len(events[c][q.node]) - q.seen
      /\ \A d \in Callers, n \in Nodes :
           ~(d = c /\ n = q.node) => overtaken'[d][n] = overtaken[d][n]
  BY <1>2, <1>3 DEF TypeOK
<1>7. \A d \in Callers, n \in Nodes : ~(d = c /\ n = q.node) => cooling'[d][n] = cooling[d][n]
  BY <1>2, <1>3 DEF TypeOK
<1>8. /\ request'[c][s] = Idle
      /\ \A d \in Callers, t \in Slots : ~(d = c /\ t = s) => request'[d][t] = request[d][t]
  BY <1>3 DEF TypeOK
<1>. QED
  BY <1>1, <1>2, <1>4, <1>5, <1>6, <1>7, <1>8 DEF q

\* What a report overtakes is what the request had not seen of its node.
LEMMA OvertakenGrows ==
  ASSUME TypeOK, Current, AllTallied, NEW c \in Callers, NEW s \in Slots, NEW cools \in BOOLEAN,
         WriteReport(c, s, cools)
  PROVE  LET q == request[c][s]
             h == events[c][q.node]
         IN  /\ q.seen <= Len(h)
             /\ q.seen = Len(h) => q.read = state[c][q.node]
             /\ Counted(q.read) \in q.seen - overtaken[c][q.node] .. q.seen
             /\ Tallied(c, q.node)
             /\ overtaken'[c][q.node] \in Nat
             /\ overtaken'[c][q.node] >= overtaken[c][q.node]
<1>. DEFINE q == request[c][s]
<1>1. /\ q.kind = "feedback" /\ q.seen \in Nat /\ q.node \in Nodes
      /\ events[c][q.node] \in Seq(Statuses)
      /\ overtaken'[c][q.node] = overtaken[c][q.node] + Len(events[c][q.node]) - q.seen
  BY WriteFacts
<1>. HIDE DEF q
<1>2. Holds(q, c)
  BY <1>1 DEF Current, q
<1>3. Tallied(c, q.node)
  BY <1>1 DEF AllTallied
<1>4. Len(events[c][q.node]) \in Nat /\ overtaken[c][q.node] \in Nat
  BY <1>1, <1>3 DEF Tallied
<1>5. q.seen <= Len(events[c][q.node])
  BY <1>2 DEF Holds
<1>6. /\ overtaken'[c][q.node] \in Nat
      /\ overtaken'[c][q.node] >= overtaken[c][q.node]
  BY <1>1, <1>4, <1>5
<1>. QED
  BY <1>1, <1>2, <1>3, <1>5, <1>6 DEF Holds, q

LEMMA CurrentStep ==
  ASSUME TypeOK, Current, AllTallied, [Next]_vars
  PROVE  Current'
<1>. SUFFICES ASSUME NEW d \in Callers, NEW t \in Slots, request'[d][t].kind # "idle"
              PROVE  Holds(request[d][t], d)'
  BY DEF Current
<1>1. request \in [Callers -> [Slots -> Requests]]
  BY DEF TypeOK
<1>2. ASSUME request'[d][t] = request[d][t],
             state' = state, events' = events, overtaken' = overtaken,
             \A n \in Nodes : cooling'[d][n] => cooling[d][n]
      PROVE  Holds(request[d][t], d)'
  <2>1. request[d][t].kind # "idle" /\ request[d][t] \in Requests
    BY <1>1, <1>2
  <2>2. request[d][t].node \in Nodes
    BY <2>1, RequestKinds DEF Requests, Idle
  <2>. QED
    BY <1>2, <2>1, <2>2, StillHolds
<1>3. ASSUME NEW c \in Callers, NEW s \in Slots, NEW r,
             r = request'[c][s], Enter(c, s, r), Holds(r, c)
      PROVE  Holds(request[d][t], d)'
  <2>1. request' = [request EXCEPT ![c][s] = r]
    BY <1>3 DEF Enter
  <2>2. UNCHANGED << state, events, overtaken, cooling >>
    BY <1>3 DEF Enter
  <2>3. CASE d = c /\ t = s
    BY <1>3, <2>2, <2>3 DEF Holds, Open
  <2>4. CASE ~(d = c /\ t = s)
    <3>1. request'[d][t] = request[d][t]
      BY <1>1, <2>1, <2>4
    <3>. QED
      BY <1>2, <2>2, <3>1
  <2>. QED
    BY <2>3, <2>4
<1>4. ASSUME NEW c \in Callers, NEW s \in Slots, NEW n \in Nodes, Select(c, s, n)
      PROVE  Holds(request[d][t], d)'
  <2>. DEFINE r == [kind |-> "best", node |-> n, seen |-> Len(events[c][n])]
  <2>1. Enter(c, s, r) /\ ~Open(c, n)
    BY <1>4 DEF Select, Candidates
  <2>2. r = request'[c][s]
    BY <1>1, <2>1 DEF Enter
  <2>3. Len(events[c][n]) \in Nat
    BY DEF TypeOK
  <2>4. Holds(r, c)
    BY <2>1, <2>3 DEF Holds
  <2>. HIDE DEF r
  <2>. QED
    BY <1>3, <2>1, <2>2, <2>4
<1>5. ASSUME NEW c \in Callers, NEW s \in Slots, NEW n \in Nodes, NEW status \in Statuses,
             ReadRow(c, s, n, status)
      PROVE  Holds(request[d][t], d)'
  <2>. DEFINE r == [kind |-> "feedback", node |-> n, status |-> status, read |-> state[c][n],
                    seen |-> Len(events[c][n])]
  <2>1. Enter(c, s, r)
    BY <1>5 DEF ReadRow
  <2>2. r = request'[c][s]
    BY <1>1, <2>1 DEF Enter
  <2>3. Len(events[c][n]) \in Nat
    BY DEF TypeOK
  <2>4. Counted(state[c][n]) \in Len(events[c][n]) - overtaken[c][n] .. Len(events[c][n])
    BY DEF AllTallied, Tallied
  <2>5. Holds(r, c)
    BY <2>3, <2>4 DEF Holds
  <2>. HIDE DEF r
  <2>. QED
    BY <1>3, <2>1, <2>2, <2>5
<1>6. ASSUME NEW c \in Callers, NEW s \in Slots, RecordAssignment(c, s) \/ RequestFails(c, s)
      PROVE  Holds(request[d][t], d)'
  <2>1. /\ request' = [request EXCEPT ![c][s] = Idle]
        /\ UNCHANGED << state, cooling, events, overtaken >>
    BY <1>6 DEF RecordAssignment, RequestFails, Leave
  <2>2. request'[d][t] = request[d][t]
    BY <1>1, <2>1 DEF Idle
  <2>. QED
    BY <1>2, <2>1, <2>2
<1>7. ASSUME NEW c \in Callers, NEW s \in Slots, NEW cools \in BOOLEAN, WriteReport(c, s, cools)
      PROVE  Holds(request[d][t], d)'
  <2>. DEFINE q == request[c][s]
  <2>1. ~(d = c /\ t = s)
    BY <1>7, WriteFacts DEF Idle
  <2>2. request'[d][t] = request[d][t]
    BY <1>7, <2>1, WriteFacts
  <2>3. request[d][t].kind # "idle" /\ request[d][t] \in Requests
    BY <1>1, <2>2
  <2>4. request[d][t].node \in Nodes
    BY <2>3, RequestKinds DEF Requests, Idle
  <2>5. CASE d = c /\ request[d][t].node = q.node
    <3>1. /\ events[c][q.node] \in Seq(Statuses) /\ q.status \in Statuses
          /\ events'[c][q.node] = Append(events[c][q.node], q.status)
      BY <1>7, WriteFacts
    <3>2. Len(events'[c][q.node]) = Len(events[c][q.node]) + 1
      BY <3>1, Appending
    <3>3. overtaken'[c][q.node] \in Nat /\ overtaken'[c][q.node] >= overtaken[c][q.node]
      BY <1>7, OvertakenGrows
    <3>. QED
      BY <2>2, <2>3, <2>5, <3>2, <3>3, HoldsLater
  <2>6. CASE ~(d = c /\ request[d][t].node = q.node)
    <3>. DEFINE n == request[d][t].node
    <3>1. /\ state'[d][n] = state[d][n] /\ events'[d][n] = events[d][n]
          /\ overtaken'[d][n] = overtaken[d][n] /\ cooling'[d][n] = cooling[d][n]
      BY <1>7, <2>4, <2>6, WriteFacts
    <3>. QED
      BY <2>2, <2>3, <3>1, StillHolds
  <2>. QED
    BY <2>5, <2>6
<1>8. ASSUME NEW c \in Callers, NEW n \in Nodes, CooldownEnds(c, n)
      PROVE  Holds(request[d][t], d)'
  <2>1. UNCHANGED << request, state, events, overtaken >>
    BY <1>8 DEF CooldownEnds
  <2>2. \A m \in Nodes : cooling'[d][m] => cooling[d][m]
    BY <1>8 DEF CooldownEnds, TypeOK
  <2>. QED
    BY <1>2, <2>1, <2>2
<1>9. CASE (\E S \in SUBSET Nodes : FleetMoves(S)) \/ UNCHANGED vars
  BY <1>2, <1>9 DEF FleetMoves, vars
<1>. QED
  BY <1>4, <1>5, <1>6, <1>7, <1>8, <1>9 DEF Next

LEMMA TalliedStep ==
  ASSUME TypeOK, Current, AllTallied, [Next]_vars
  PROVE  AllTallied'
<1>1. ASSUME UNCHANGED << state, events, overtaken >> PROVE AllTallied'
  BY <1>1 DEF AllTallied, Tallied
<1>2. ASSUME NEW c \in Callers, NEW s \in Slots, NEW cools \in BOOLEAN, WriteReport(c, s, cools),
             NEW d \in Callers, NEW n \in Nodes
      PROVE  Tallied(d, n)'
  <2>. DEFINE q == request[c][s]
              h == events[c][q.node]
              o == overtaken[c][q.node]
  <2>1. Tallied(d, n)
    BY DEF AllTallied
  <2>2. CASE ~(d = c /\ n = q.node)
    <3>1. /\ state'[d][n] = state[d][n] /\ events'[d][n] = events[d][n]
          /\ overtaken'[d][n] = overtaken[d][n]
      BY <1>2, <2>2, WriteFacts
    <3>. QED
      BY <2>1, <3>1 DEF Tallied
  <2>3. CASE d = c /\ n = q.node
    <3>1. /\ q.seen \in Nat /\ q.status \in Statuses /\ q.read \in Rows /\ h \in Seq(Statuses)
          /\ state'[c][q.node] = Reported(q.read, q.status)
          /\ events'[c][q.node] = Append(h, q.status)
          /\ overtaken'[c][q.node] = o + Len(h) - q.seen
      BY <1>2, WriteFacts
    <3>2. /\ q.seen <= Len(h) /\ (q.seen = Len(h) => q.read = state[c][q.node])
          /\ Counted(q.read) \in q.seen - o .. q.seen
          /\ overtaken'[c][q.node] \in Nat
      BY <1>2, OvertakenGrows
    <3>3. o \in Nat /\ (o = 0 => Agrees(state[c][q.node], h))
      BY <2>1, <2>3 DEF Tallied
    <3>. HIDE DEF q, h, o
    <3>4. Len(h) \in Nat /\ Len(Append(h, q.status)) = Len(h) + 1
      BY <3>1, Appending
    <3>5. overtaken'[c][q.node] = 0 => Agrees(state'[c][q.node], events'[c][q.node])
      <4>. SUFFICES ASSUME overtaken'[c][q.node] = 0
                    PROVE  Agrees(Reported(q.read, q.status), Append(h, q.status))
        BY <3>1
      <4>1. o = 0 /\ q.seen = Len(h)
        BY <3>1, <3>2, <3>3, <3>4
      <4>2. Agrees(q.read, h)
        BY <3>2, <3>3, <4>1
      <4>. QED
        BY <3>1, <4>2, AgreesStep
    <3>6. Counted(q.read) \in Nat /\ Counted(state'[c][q.node]) = Counted(q.read) + 1
      BY <3>1, CountedStep
    <3>7. Counted(state'[c][q.node]) \in
            Len(events'[c][q.node]) - overtaken'[c][q.node] .. Len(events'[c][q.node])
      BY <3>1, <3>2, <3>3, <3>4, <3>6
    <3>. QED
      BY <2>3, <3>2, <3>5, <3>7 DEF Tallied
  <2>. QED
    BY <2>2, <2>3
<1>3. ASSUME NEW c \in Callers, NEW s \in Slots,
             \/ RecordAssignment(c, s) \/ RequestFails(c, s)
             \/ \E n \in Nodes : Select(c, s, n)
             \/ \E n \in Nodes, status \in Statuses : ReadRow(c, s, n, status)
      PROVE  AllTallied'
  BY <1>1, <1>3 DEF RecordAssignment, RequestFails, Select, ReadRow, Enter
<1>4. CASE \/ \E c \in Callers, n \in Nodes : CooldownEnds(c, n)
           \/ \E S \in SUBSET Nodes : FleetMoves(S)
           \/ UNCHANGED vars
  BY <1>1, <1>4 DEF CooldownEnds, FleetMoves, vars
<1>. QED
  BY <1>2, <1>3, <1>4 DEF Next, AllTallied

LEMMA InvInit == Init => IInv
<1>. SUFFICES ASSUME Init PROVE IInv
  OBVIOUS
<1>1. Current
  BY DEF Init, Current, Idle
<1>2. Len(<< >>) = 0 /\ Counted(Fresh) = 0
  BY DEF Counted, Fresh
<1>3. AllTallied
  BY <1>2, AgreesAtFirst DEF Init, AllTallied, Tallied
<1>. QED
  BY <1>1, <1>3, TypeInit DEF IInv

LEMMA InvStep == IInv /\ [Next]_vars => IInv'
BY TypeStep, CurrentStep, TalliedStep DEF IInv

\* However many clients, requests side by side and reports there are: a report is
\* lost only to one of the same client and node that had read the row before and
\* was committed after it, as many counts are missing at most, and the circuit is
\* that of the last report (apply_client_feedback).
THEOREM ReportsCount == Spec => []ReportsAreCounted
<1>1. Init => IInv /\ AllWithin
  BY InvInit, WithinInit
<1>2. IInv /\ AllWithin /\ [Next]_vars => (IInv /\ AllWithin)'
  BY InvStep, AllWithinStep DEF IInv
<1>3. IInv /\ AllWithin => ReportsAreCounted
  BY DEF IInv, AllTallied, Tallied, AllWithin, LastCloses, ReportsAreCounted
<1>. QED
  BY <1>1, <1>2, <1>3, PTL DEF Spec

\* And a client is given a node whose circuit it has opened only by a request that
\* was choosing when the report that opened it was committed (best).
THEOREM CircuitsHold == Spec => OpenIsRespected
<1>. DEFINE A == \A c \in Callers, n \in Nodes :
                   unanswered'[c][n] > unanswered[c][n] =>
                     \/ ~Open(c, n)
                     \/ \E s \in Slots : /\ request[c][s].kind = "best" /\ request[c][s].node = n
                                         /\ request'[c][s] = Idle
                                         /\ request[c][s].seen < Len(events[c][n])
<1>1. Init => IInv
  BY InvInit
<1>2. IInv /\ [Next]_vars => IInv'
  BY InvStep
<1>3. IInv /\ [Next]_vars => [A]_vars
  <2>. DEFINE Late(d, n) == \E s \in Slots :
                /\ request[d][s].kind = "best" /\ request[d][s].node = n
                /\ request'[d][s] = Idle
                /\ request[d][s].seen < Len(events[d][n])
  <2>. SUFFICES ASSUME IInv, Next, NEW d \in Callers, NEW n \in Nodes,
                       unanswered'[d][n] > unanswered[d][n]
                PROVE  ~Open(d, n) \/ Late(d, n)
    BY DEF vars
  <2>1. unanswered \in [Callers -> [Nodes -> 0..MaxUnanswered]]
    BY DEF IInv, TypeOK
  <2>2. ~(unanswered' = unanswered)
    BY <2>1, ClientsConstants
  <2>3. ASSUME NEW c \in Callers, NEW s \in Slots, RecordAssignment(c, s)
        PROVE  ~Open(d, n) \/ Late(d, n)
    <3>. DEFINE q == request[c][s]
    <3>1. q \in Requests /\ q.kind = "best" /\ Holds(q, c)
      BY <2>3 DEF IInv, TypeOK, Current, RecordAssignment
    <3>2. unanswered' = [unanswered EXCEPT ![c][q.node] = @ + 1]
      BY <2>3 DEF RecordAssignment
    <3>3. d = c /\ n = q.node
      <4>1. unanswered[d][n] \in Nat
        BY <2>1, ClientsConstants
      <4>. QED
        BY <2>1, <3>2, <4>1
    <3>4. q.seen \in Nat /\ Len(events[c][n]) \in Nat
      BY <3>1, RequestKinds DEF IInv, TypeOK
    <3>5. request'[c][s] = Idle
      BY <2>3 DEF RecordAssignment, Leave, IInv, TypeOK
    <3>. HIDE DEF q
    <3>6. CASE q.seen = Len(events[c][n])
      BY <3>1, <3>3, <3>6 DEF Holds
    <3>7. CASE q.seen # Len(events[c][n])
      <4>1. q.seen < Len(events[c][n])
        BY <3>1, <3>3, <3>4, <3>7 DEF Holds
      <4>. QED
        BY <3>1, <3>3, <3>5, <4>1 DEF q
    <3>. QED
      BY <3>6, <3>7
  <2>4. ASSUME NEW c \in Callers, NEW s \in Slots, NEW cools \in BOOLEAN, WriteReport(c, s, cools)
        PROVE  ~Open(d, n)
    <3>. DEFINE q == request[c][s]
    <3>1. unanswered' = [unanswered EXCEPT ![c][q.node] = IF @ > 0 THEN @ - 1 ELSE 0]
      BY <2>4 DEF WriteReport
    <3>2. unanswered[d][n] \in Nat
      BY <2>1, ClientsConstants
    <3>. QED
      BY <2>1, <3>1, <3>2
  <2>5. CASE \/ \E c \in Callers, s \in Slots :
                  \/ \E m \in Nodes : Select(c, s, m)
                  \/ \E m \in Nodes, status \in Statuses : ReadRow(c, s, m, status)
                  \/ RequestFails(c, s)
             \/ \E c \in Callers, m \in Nodes : CooldownEnds(c, m)
             \/ \E S \in SUBSET Nodes : FleetMoves(S)
    BY <2>2, <2>5 DEF Select, ReadRow, Enter, RequestFails, CooldownEnds, FleetMoves
  <2>. QED
    BY <2>3, <2>4, <2>5 DEF Next
<1>4. Spec => [][A]_vars
  BY <1>1, <1>2, <1>3, PTL DEF Spec
<1>. QED
  BY <1>4 DEF OpenIsRespected

(***************************************************************************)
(* Induction over the natural numbers, for sets of them: a number that is  *)
(* missing would let the numbers below it be mapped into fewer, one to one. *)
(***************************************************************************)
LEMMA Counting ==
  ASSUME NEW S \in SUBSET Nat, 0 \in S, \A n \in S : n + 1 \in S
  PROVE  S = Nat
<1>. SUFFICES ASSUME NEW x \in Nat, x \notin S PROVE FALSE
  OBVIOUS
<1>. DEFINE A == {n \in S : n <= x}
            f == [n \in A |-> n + 1]
<1>1. IsFiniteSet(A)
  BY FS_BoundedSetOfNaturals
<1>2. /\ IsFiniteSet(A \ {0})
      /\ Cardinality(A) \in Nat
      /\ Cardinality(A \ {0}) = Cardinality(A) - 1
  <2>1. 0 \in A
    OBVIOUS
  <2>. HIDE DEF A
  <2>. QED
    BY <1>1, <2>1, FS_RemoveElement, FS_CardinalityType
<1>3. f \in [A -> A \ {0}]
  <2>1. \A n \in S : n <= x => n + 1 \in S /\ n + 1 <= x /\ n + 1 # 0
    <3>. TAKE n \in S
    <3>1. n # x /\ n \in Nat
      OBVIOUS
    <3>. QED
      BY <3>1
  <2>. QED
    BY <2>1
<1>4. \E m, n \in A : m # n /\ f[m] = f[n]
  <2>. HIDE DEF A, f
  <2>1. Cardinality(A \ {0}) < Cardinality(A)
    BY <1>2
  <2>. QED
    BY <1>1, <1>2, <1>3, <2>1, FS_PigeonHole
<1>. QED
  BY <1>4

LEMMA CountingUpTo ==
  ASSUME NEW S, NEW m \in Nat, 0 \in S, \A n \in 0..m - 1 : n \in S => n + 1 \in S
  PROVE  \A n \in 0..m : n \in S
<1>. DEFINE T == {n \in Nat : n <= m => n \in S}
<1>1. 0 \in T
  OBVIOUS
<1>2. \A n \in T : n + 1 \in T
  <2>. TAKE n \in T
  <2>1. CASE n + 1 <= m
    BY <2>1
  <2>2. CASE ~(n + 1 <= m)
    BY <2>2
  <2>. QED
    BY <2>1, <2>2
<1>3. T = Nat
  <2>. HIDE DEF T
  <2>1. T \in SUBSET Nat
    BY DEF T
  <2>. QED
    BY <1>1, <1>2, <2>1, Counting
<1>. QED
  BY <1>3

(***************************************************************************)
(* The publisher: Ours, the commits of a branch that are ours.             *)
(***************************************************************************)
Picked(branch, n, before) ==
  IF branch[n].by = "publisher" THEN Append(before, branch[n]) ELSE before

\* f is the recursion of Ours on branch, as far as its first m commits.
Unfolds(f, branch, m) ==
  f = [n \in 0..m |-> IF n = 0 THEN <<>> ELSE Picked(branch, n, f[n - 1])]

LEMMA OneMoreUnfolds ==
  ASSUME NEW branch, NEW m \in Nat, NEW f, Unfolds(f, branch, m)
  PROVE  \E g : Unfolds(g, branch, m + 1)
<1>. DEFINE g == [n \in 0..m + 1 |-> IF n <= m THEN f[n] ELSE Picked(branch, m + 1, f[m])]
<1>1. /\ DOMAIN f = 0..m
      /\ \A n \in 0..m : f[n] = IF n = 0 THEN <<>> ELSE Picked(branch, n, f[n - 1])
  BY DEF Unfolds
<1>2. ASSUME NEW n \in 0..m + 1
      PROVE  g[n] = IF n = 0 THEN <<>> ELSE Picked(branch, n, g[n - 1])
  <2>1. CASE n = 0
    BY <1>1, <2>1
  <2>2. CASE n \in 1..m
    <3>1. n - 1 \in 0..m /\ g[n] = f[n] /\ g[n - 1] = f[n - 1] /\ n # 0 /\ n \in 0..m
      BY <2>2
    <3>. HIDE DEF g
    <3>. QED
      BY <1>1, <3>1
  <2>3. CASE n = m + 1
    <3>1. g[n] = Picked(branch, m + 1, f[m]) /\ g[n - 1] = f[m] /\ n # 0
      BY <2>3
    <3>. HIDE DEF g
    <3>. QED
      BY <2>3, <3>1
  <2>. QED
    BY <2>1, <2>2, <2>3
<1>3. g = [n \in 0..m + 1 |-> IF n = 0 THEN <<>> ELSE Picked(branch, n, g[n - 1])]
  BY <1>2
<1>. HIDE DEF g
<1>. QED
  BY <1>3 DEF Unfolds

LEMMA OursUnfolds ==
  ASSUME NEW branch \in Seq(Commits)
  PROVE  \E f : Unfolds(f, branch, Len(branch)) /\ Ours(branch) = f[Len(branch)]
<1>. DEFINE S == {m \in Nat : \E f : Unfolds(f, branch, m)}
<1>1. 0 \in S
  <2>. DEFINE f == [n \in 0..0 |-> <<>>]
  <2>1. f = [n \in 0..0 |-> IF n = 0 THEN <<>> ELSE Picked(branch, n, f[n - 1])]
    OBVIOUS
  <2>. HIDE DEF f
  <2>. QED
    BY <2>1 DEF Unfolds
<1>2. \A m \in S : m + 1 \in S
  BY OneMoreUnfolds
<1>3. S = Nat
  <2>. HIDE DEF S
  <2>1. S \in SUBSET Nat
    BY DEF S
  <2>. QED
    BY <1>1, <1>2, <2>1, Counting
<1>4. Len(branch) \in Nat
  OBVIOUS
<1>5. \E f : Unfolds(f, branch, Len(branch))
  BY <1>3, <1>4
<1>. DEFINE ours == CHOOSE f : Unfolds(f, branch, Len(branch))
<1>6. Unfolds(ours, branch, Len(branch))
  BY <1>5
<1>7. Ours(branch) = ours[Len(branch)]
  BY DEF Ours, Unfolds, Picked
<1>. HIDE DEF ours
<1>. QED
  BY <1>6, <1>7

LEMMA PickedIsOurs ==
  ASSUME NEW branch \in Seq(Commits), NEW n \in 1..Len(branch), NEW before \in Seq(Commits)
  PROVE  Picked(branch, n, before) \in Seq(Commits)
<1>1. branch[n] \in Commits
  OBVIOUS
<1>2. Append(before, branch[n]) \in Seq(Commits)
  BY <1>1
<1>. QED
  BY <1>2 DEF Picked

LEMMA OursAreCommits ==
  ASSUME NEW branch \in Seq(Commits)
  PROVE  Ours(branch) \in Seq(Commits)
<1>1. PICK f : Unfolds(f, branch, Len(branch)) /\ Ours(branch) = f[Len(branch)]
  BY OursUnfolds
<1>2. Len(branch) \in Nat
  OBVIOUS
<1>3. \A n \in 0..Len(branch) :
        f[n] = IF n = 0 THEN <<>> ELSE Picked(branch, n, f[n - 1])
  BY <1>1 DEF Unfolds
<1>. DEFINE S == {n \in Nat : n <= Len(branch) => f[n] \in Seq(Commits)}
<1>4. 0 \in S
  <2>1. f[0] = <<>> /\ <<>> \in Seq(Commits)
    BY <1>2, <1>3
  <2>. QED
    BY <2>1
<1>5. \A n \in 0..Len(branch) - 1 : n \in S => n + 1 \in S
  <2>. TAKE n \in 0..Len(branch) - 1
  <2>. HAVE n \in S
  <2>1. f[n] \in Seq(Commits) /\ n + 1 \in 1..Len(branch)
    BY <1>2
  <2>2. n + 1 \in 0..Len(branch) /\ n + 1 # 0 /\ n + 1 - 1 = n
    BY <1>2
  <2>3. f[n + 1] = Picked(branch, n + 1, f[n])
    BY <1>3, <2>2
  <2>4. f[n + 1] \in Seq(Commits)
    BY <2>1, <2>3, PickedIsOurs
  <2>. QED
    BY <2>4
<1>6. \A n \in 0..Len(branch) : n \in S
  <2>. HIDE DEF S
  <2>. QED
    BY <1>2, <1>4, <1>5, CountingUpTo
<1>7. Len(branch) \in 0..Len(branch)
  BY <1>2
<1>. QED
  BY <1>1, <1>2, <1>6, <1>7

LEMMA OursOfNothing == Ours(<<>>) = <<>>
<1>1. <<>> \in Seq(Commits) /\ Len(<<>>) = 0
  OBVIOUS
<1>2. PICK f : Unfolds(f, <<>>, 0) /\ Ours(<<>>) = f[0]
  BY <1>1, OursUnfolds
<1>. QED
  BY <1>2 DEF Unfolds

\* a and b are the same as far as their first n commits.
Agree(a, b, n) == n <= Len(a) /\ n <= Len(b) /\ \A i \in 1..n : a[i] = b[i]

LEMMA UnfoldAlike ==
  ASSUME NEW a, NEW b, NEW n \in Nat, NEW k \in Nat, n <= k,
         \A i \in 1..n : a[i] = b[i],
         NEW f, NEW g, Unfolds(f, a, n), Unfolds(g, b, k)
  PROVE  f[n] = g[n]
<1>. DEFINE S == {i \in Nat : f[i] = g[i]}
<1>1. /\ \A i \in 0..n : f[i] = IF i = 0 THEN <<>> ELSE Picked(a, i, f[i - 1])
      /\ \A i \in 0..k : g[i] = IF i = 0 THEN <<>> ELSE Picked(b, i, g[i - 1])
  BY DEF Unfolds
<1>2. 0 \in S
  BY <1>1
<1>3. \A i \in 0..n - 1 : i \in S => i + 1 \in S
  <2>. TAKE i \in 0..n - 1
  <2>. HAVE i \in S
  <2>1. /\ i + 1 \in 0..n /\ i + 1 \in 0..k /\ i + 1 \in 1..n
        /\ i + 1 # 0 /\ i + 1 - 1 = i /\ i + 1 \in Nat
    OBVIOUS
  <2>2. f[i + 1] = Picked(a, i + 1, f[i]) /\ g[i + 1] = Picked(b, i + 1, g[i])
    BY <1>1, <2>1
  <2>3. f[i + 1] = g[i + 1]
    BY <2>1, <2>2 DEF Picked
  <2>. QED
    BY <2>1, <2>3
<1>4. \A i \in 0..n : i \in S
  <2>. HIDE DEF S
  <2>1. n \in Nat
    OBVIOUS
  <2>. QED
    BY <1>2, <1>3, <2>1, CountingUpTo
<1>5. n \in 0..n
  OBVIOUS
<1>. QED
  BY <1>4, <1>5

LEMMA Appended ==
  ASSUME NEW T, NEW s \in Seq(T), NEW c \in T
  PROVE  /\ Append(s, c) \in Seq(T)
         /\ Len(s) \in Nat /\ Len(Append(s, c)) = Len(s) + 1
         /\ \A i \in 1..Len(s) : Append(s, c)[i] = s[i]
         /\ Append(s, c)[Len(s) + 1] = c
<1>1. Append(s, c) \in Seq(T)
  OBVIOUS
<1>2. Len(s) \in Nat
  OBVIOUS
<1>3. Len(Append(s, c)) = Len(s) + 1
  OBVIOUS
<1>4. \A i \in 1..Len(s) : Append(s, c)[i] = s[i]
  OBVIOUS
<1>5. Append(s, c)[Len(s) + 1] = c
  OBVIOUS
<1>. QED
  BY <1>1, <1>2, <1>3, <1>4, <1>5

LEMMA OursOfAppend ==
  ASSUME NEW branch \in Seq(Commits), NEW commit \in Commits
  PROVE  Ours(Append(branch, commit)) = IF commit.by = "publisher"
                                        THEN Append(Ours(branch), commit)
                                        ELSE Ours(branch)
<1>1. ASSUME NEW longer \in Seq(Commits), Len(longer) = Len(branch) + 1,
             \A i \in 1..Len(branch) : longer[i] = branch[i],
             longer[Len(branch) + 1] = commit
      PROVE  Ours(longer) = IF commit.by = "publisher"
                            THEN Append(Ours(branch), commit) ELSE Ours(branch)
  <2>1. PICK f : Unfolds(f, branch, Len(branch)) /\ Ours(branch) = f[Len(branch)]
    BY OursUnfolds
  <2>2. PICK g : Unfolds(g, longer, Len(longer)) /\ Ours(longer) = g[Len(longer)]
    BY OursUnfolds
  <2>3. Len(branch) \in Nat /\ Len(longer) \in Nat /\ Len(branch) <= Len(longer)
        /\ Len(branch) \in 0..Len(branch)
        /\ \A i \in 1..Len(branch) : branch[i] = longer[i]
    BY <1>1
  <2>4. f[Len(branch)] = g[Len(branch)]
    BY <2>1, <2>2, <2>3, UnfoldAlike
  <2>5. g[Len(longer)] = Picked(longer, Len(longer), g[Len(branch)])
    BY <1>1, <2>2, <2>3 DEF Unfolds
  <2>. QED
    BY <1>1, <2>1, <2>2, <2>4, <2>5 DEF Picked
<1>2. /\ Append(branch, commit) \in Seq(Commits)
      /\ Len(Append(branch, commit)) = Len(branch) + 1
      /\ \A i \in 1..Len(branch) : Append(branch, commit)[i] = branch[i]
      /\ Append(branch, commit)[Len(branch) + 1] = commit
  <2>. DEFINE C == Commits
  <2>1. branch \in Seq(C) /\ commit \in C
    OBVIOUS
  <2>. HIDE DEF C
  <2>2. /\ Append(branch, commit) \in Seq(C)
        /\ Len(Append(branch, commit)) = Len(branch) + 1
        /\ \A i \in 1..Len(branch) : Append(branch, commit)[i] = branch[i]
        /\ Append(branch, commit)[Len(branch) + 1] = commit
    BY <2>1, Appended
  <2>. QED
    BY <2>2 DEF C
<1>. QED
  BY <1>1, <1>2, Zenon

LEMMA OursOfOneMore ==
  ASSUME NEW branch \in Seq(Commits), NEW commit \in Commits
  PROVE  Ours(branch \o <<commit>>) = IF commit.by = "publisher"
                                      THEN Ours(branch) \o <<commit>>
                                      ELSE Ours(branch)
<1>1. Append(branch, commit) = branch \o <<commit>>
  BY AppendIsConcat
<1>2. Append(Ours(branch), commit) = Ours(branch) \o <<commit>>
  BY OursAreCommits, AppendIsConcat
<1>3. Ours(Append(branch, commit)) = IF commit.by = "publisher"
                                     THEN Append(Ours(branch), commit)
                                     ELSE Ours(branch)
  BY OursOfAppend
<1>. QED
  BY <1>1, <1>2, <1>3

LEMMA OursOfConcat ==
  ASSUME NEW a \in Seq(Commits), NEW b \in Seq(Commits)
  PROVE  Ours(a \o b) = Ours(a) \o Ours(b)
<1>. DEFINE S == {n \in Nat : \A c \in Seq(Commits) :
                               Len(c) = n => Ours(a \o c) = Ours(a) \o Ours(c)}
<1>1. 0 \in S
  <2>1. ASSUME NEW c \in Seq(Commits), Len(c) = 0
        PROVE  Ours(a \o c) = Ours(a) \o Ours(c)
    <3>1. c = <<>>
      BY <2>1
    <3>2. a \o <<>> = a /\ Ours(a) \o <<>> = Ours(a)
      BY OursAreCommits, ConcatEmptySeq
    <3>. QED
      BY <3>1, <3>2, OursOfNothing
  <2>. QED
    BY <2>1
<1>2. ASSUME NEW n \in S PROVE n + 1 \in S
  <2>1. ASSUME NEW c \in Seq(Commits), Len(c) = n + 1
        PROVE  Ours(a \o c) = Ours(a) \o Ours(c)
    <3>1. c # <<>>
      BY <2>1
    <3>2. PICK d \in Seq(Commits), e \in Commits : c = Append(d, e)
      BY <3>1, SequenceEmptyOrAppend
    <3>3. Len(d) = n
      BY <2>1, <3>2, Appended
    <3>4. Ours(a \o d) = Ours(a) \o Ours(d)
      BY <3>3
    <3>5. c = d \o <<e>>
      BY <3>2, AppendIsConcat
    <3>6. <<e>> \in Seq(Commits) /\ a \o d \in Seq(Commits)
      OBVIOUS
    <3>7. a \o c = (a \o d) \o <<e>>
      BY <3>5, <3>6, ConcatAssociative
    <3>8. (Ours(a) \o Ours(d)) \o <<e>> = Ours(a) \o (Ours(d) \o <<e>>)
      <4>. DEFINE C == Commits
                  x == Ours(a)
                  y == Ours(d)
                  z == <<e>>
      <4>1. x \in Seq(C) /\ y \in Seq(C) /\ z \in Seq(C)
        BY <3>6, OursAreCommits
      <4>. HIDE DEF C, x, y, z
      <4>2. (x \o y) \o z = x \o (y \o z)
        BY <4>1, ConcatAssociative
      <4>. QED
        BY <4>2 DEF x, y, z
    <3>9. CASE e.by # "publisher"
      BY <3>4, <3>5, <3>6, <3>7, <3>9, OursOfOneMore
    <3>10. CASE e.by = "publisher"
      BY <3>4, <3>5, <3>6, <3>7, <3>8, <3>10, OursOfOneMore
    <3>. QED
      BY <3>9, <3>10
  <2>. QED
    BY <2>1
<1>3. S = Nat
  <2>. HIDE DEF S
  <2>1. S \in SUBSET Nat
    BY DEF S
  <2>. QED
    BY <1>1, <1>2, <2>1, Counting
<1>4. Len(b) \in Nat
  OBVIOUS
<1>. QED
  BY <1>3, <1>4

LEMMA OursOfOthers ==
  ASSUME NEW branch \in Seq(Commits), \A i \in 1..Len(branch) : branch[i].by # "publisher"
  PROVE  Ours(branch) = <<>>
<1>1. PICK f : Unfolds(f, branch, Len(branch)) /\ Ours(branch) = f[Len(branch)]
  BY OursUnfolds
<1>2. Len(branch) \in Nat
  OBVIOUS
<1>3. \A n \in 0..Len(branch) :
        f[n] = IF n = 0 THEN <<>> ELSE Picked(branch, n, f[n - 1])
  BY <1>1 DEF Unfolds
<1>. DEFINE S == {n \in Nat : f[n] = <<>>}
<1>4. 0 \in S
  BY <1>2, <1>3
<1>5. \A n \in 0..Len(branch) - 1 : n \in S => n + 1 \in S
  <2>. TAKE n \in 0..Len(branch) - 1
  <2>. HAVE n \in S
  <2>1. /\ n + 1 \in 0..Len(branch) /\ n + 1 # 0 /\ n + 1 - 1 = n
        /\ n + 1 \in 1..Len(branch) /\ n + 1 \in Nat
    BY <1>2
  <2>2. f[n + 1] = Picked(branch, n + 1, f[n])
    BY <1>3, <2>1
  <2>. QED
    BY <2>1, <2>2 DEF Picked
<1>6. \A n \in 0..Len(branch) : n \in S
  <2>. HIDE DEF S
  <2>. QED
    BY <1>2, <1>4, <1>5, CountingUpTo
<1>7. Len(branch) \in 0..Len(branch)
  BY <1>2
<1>. QED
  BY <1>1, <1>6, <1>7

(***************************************************************************)
(* How far two branches agree, and what a rebase makes of that.            *)
(***************************************************************************)
LEMMA PrefixIsAgreement ==
  ASSUME NEW a \in Seq(Commits), NEW b \in Seq(Commits)
  PROVE  IsPrefix(a, b) <=> Agree(a, b, Len(a))
<1>1. Len(a) \in Nat /\ Len(b) \in Nat
  OBVIOUS
<1>2. ASSUME Len(a) <= Len(b)
      PROVE  /\ SubSeq(a, 1, Len(a)) = a
             /\ SubSeq(b, 1, Len(a)) \in Seq(Commits)
             /\ Len(SubSeq(b, 1, Len(a))) = Len(a)
             /\ \A i \in 1..Len(a) : SubSeq(b, 1, Len(a))[i] = b[i]
  BY <1>1, <1>2, SubSeqFull, SubSeqProperties
<1>3. ASSUME Len(a) <= Len(b), \A i \in 1..Len(a) : a[i] = b[i]
      PROVE  a = SubSeq(b, 1, Len(a))
  BY <1>2, <1>3, SeqEqual
<1>. QED
  BY <1>1, <1>2, <1>3 DEF IsPrefix, Agree

LEMMA LongestAgreement ==
  ASSUME NEW a \in Seq(Commits), NEW b \in Seq(Commits)
  PROVE  \E k \in Nat : Agree(a, b, k) /\ \A n \in Nat : Agree(a, b, n) => n <= k
<1>. SUFFICES ASSUME \A k \in Nat : Agree(a, b, k) =>
                       \E n \in Nat : Agree(a, b, n) /\ ~(n <= k)
              PROVE  FALSE
  OBVIOUS
<1>1. Len(a) \in Nat /\ Len(b) \in Nat
  OBVIOUS
<1>. DEFINE S == {n \in Nat : Agree(a, b, n)}
<1>2. 0 \in S
  BY <1>1 DEF Agree
<1>3. \A k \in S : k + 1 \in S
  <2>. TAKE k \in S
  <2>1. PICK n \in Nat : Agree(a, b, n) /\ ~(n <= k)
    OBVIOUS
  <2>2. k + 1 \in Nat /\ k + 1 <= n
    BY <2>1
  <2>. QED
    BY <1>1, <2>1, <2>2 DEF Agree
<1>4. S = Nat
  <2>. HIDE DEF S
  <2>1. S \in SUBSET Nat
    BY DEF S
  <2>. QED
    BY <1>2, <1>3, <2>1, Counting
<1>5. Len(a) + 1 \in S
  BY <1>1, <1>4
<1>. QED
  BY <1>1, <1>5 DEF Agree

LEMMA SharedIsLongest ==
  ASSUME NEW a \in Seq(Commits), NEW b \in Seq(Commits)
  PROVE  /\ Shared(a, b) \in Nat
         /\ Agree(a, b, Shared(a, b))
         /\ \A n \in Nat : Agree(a, b, n) => n <= Shared(a, b)
<1>1. PICK k \in Nat : Agree(a, b, k) /\ \A n \in Nat : Agree(a, b, n) => n <= k
  BY LongestAgreement
<1>2. Len(a) \in Nat /\ Len(b) \in Nat /\ k <= Len(a) /\ k <= Len(b)
  BY <1>1 DEF Agree
<1>. DEFINE common == CommonPrefixes({a, b})
            p == SubSeq(a, 1, k)
            Longest(l) == l \in common /\ \A q \in common : Len(q) <= Len(l)
<1>3. \A q \in common : q \in Seq(Commits) /\ IsPrefix(q, a) /\ IsPrefix(q, b)
  <2>. TAKE q \in common
  <2>1. /\ IsPrefix(q, a) /\ IsPrefix(q, b)
        /\ q \in Prefixes(a) \cup Prefixes(b)
    BY DEF CommonPrefixes
  <2>2. ASSUME NEW c \in Seq(Commits), q \in Prefixes(c) PROVE q \in Seq(Commits)
    <3>1. PICK n \in 0..Len(c) : q = SubSeq(c, 1, n)
      BY <2>2 DEF Prefixes
    <3>2. \A i \in 1..n : c[i] \in Commits
      OBVIOUS
    <3>. QED
      BY <3>1, <3>2, SubSeqProperties
  <2>. QED
    BY <2>1, <2>2
<1>4. \A q \in common : Len(q) \in Nat /\ Len(q) <= k
  <2>. TAKE q \in common
  <2>1. q \in Seq(Commits) /\ Agree(q, a, Len(q)) /\ Agree(q, b, Len(q))
    BY <1>3, PrefixIsAgreement
  <2>2. Len(q) \in Nat /\ Agree(a, b, Len(q))
    BY <2>1 DEF Agree
  <2>. QED
    BY <1>1, <2>2
<1>5. p \in common /\ Len(p) = k
  <2>1. \A i \in 1..k : a[i] \in Commits
    BY <1>2
  <2>2. p \in Seq(Commits) /\ Len(p) = k /\ \A i \in 1..k : p[i] = a[i]
    BY <1>2, <2>1, SubSeqProperties
  <2>. HIDE DEF p
  <2>3. Agree(p, a, Len(p)) /\ Agree(p, b, Len(p))
    BY <1>1, <1>2, <2>2 DEF Agree
  <2>4. IsPrefix(p, a) /\ IsPrefix(p, b)
    BY <2>2, <2>3, PrefixIsAgreement
  <2>5. p \in Prefixes(a)
    BY <1>2 DEF Prefixes, p
  <2>. QED
    BY <2>2, <2>4, <2>5 DEF CommonPrefixes
<1>6. Longest(p)
  BY <1>4, <1>5
<1>7. PICK l : l = LongestCommonPrefix({a, b})
  OBVIOUS
<1>8. Longest(l)
  <2>. HIDE DEF common, p
  <2>. QED
    BY <1>6, <1>7 DEF LongestCommonPrefix, common
<1>9. Len(l) = k
  <2>. HIDE DEF common, p
  <2>. QED
    BY <1>4, <1>5, <1>8
<1>. QED
  BY <1>1, <1>7, <1>9 DEF Shared

LEMMA BeyondTheShared ==
  ASSUME NEW a \in Seq(Commits), NEW b \in Seq(Commits)
  PROVE  /\ Beyond(a, b) \in Seq(Commits)
         /\ Len(Beyond(a, b)) = Len(a) - Shared(a, b)
         /\ \A i \in 1..Len(a) - Shared(a, b) : Beyond(a, b)[i] = a[Shared(a, b) + i]
         /\ Beyond(a, b) = <<>> <=> IsPrefix(a, b)
<1>. DEFINE k == Shared(a, b)
            rest == Beyond(a, b)
<1>1. /\ k \in Nat /\ Agree(a, b, k)
      /\ \A n \in Nat : Agree(a, b, n) => n <= k
  BY SharedIsLongest
<1>2. Len(a) \in Nat /\ Len(b) \in Nat /\ k <= Len(a) /\ k <= Len(b)
  BY <1>1 DEF Agree
<1>. HIDE DEF k
<1>3. rest = SubSeq(a, k + 1, Len(a))
  BY DEF Beyond, k
<1>4. \A i \in k + 1..Len(a) : a[i] \in Commits
  BY <1>1
<1>5. /\ rest \in Seq(Commits) /\ Len(rest) = Len(a) - k
      /\ \A i \in 1..Len(a) - k : rest[i] = a[k + i]
  BY <1>1, <1>2, <1>3, <1>4, SubSeqProperties
<1>6. rest = <<>> <=> Len(a) = k
  <2>. HIDE DEF rest
  <2>. QED
    BY <1>1, <1>2, <1>5
<1>7. Agree(a, b, Len(a)) <=> Len(a) = k
  BY <1>1, <1>2
<1>. QED
  BY <1>5, <1>6, <1>7, PrefixIsAgreement DEF k

LEMMA SplitAtShared ==
  ASSUME NEW a \in Seq(Commits), NEW b \in Seq(Commits)
  PROVE  \E common \in Seq(Commits) :
            a = common \o Beyond(a, b) /\ b = common \o Beyond(b, a)
<1>. DEFINE k == Shared(a, b)
            common == SubSeq(a, 1, k)
<1>1. /\ k \in Nat /\ Agree(a, b, k)
      /\ \A n \in Nat : Agree(a, b, n) => n <= k
      /\ Shared(b, a) \in Nat /\ Agree(b, a, Shared(b, a))
      /\ \A n \in Nat : Agree(b, a, n) => n <= Shared(b, a)
  BY SharedIsLongest
<1>2. Shared(b, a) = k
  <2>1. \A n \in Nat : Agree(a, b, n) <=> Agree(b, a, n)
    BY DEF Agree
  <2>. HIDE DEF k
  <2>. QED
    BY <1>1, <2>1
<1>. HIDE DEF k
<1>3. Len(a) \in Nat /\ Len(b) \in Nat /\ k <= Len(a) /\ k <= Len(b)
  BY <1>1 DEF Agree
<1>4. /\ common \in Seq(Commits) /\ Len(common) = k
      /\ \A i \in 1..k : common[i] = a[i] /\ common[i] = b[i]
  <2>1. \A i \in 1..k : a[i] \in Commits
    BY <1>1, <1>3
  <2>. QED
    BY <1>1, <1>3, <2>1, SubSeqProperties DEF Agree
<1>. HIDE DEF common
<1>5. ASSUME NEW c \in Seq(Commits), NEW rest \in Seq(Commits), k <= Len(c),
             Len(rest) = Len(c) - k, \A i \in 1..Len(c) - k : rest[i] = c[k + i],
             \A i \in 1..k : common[i] = c[i]
      PROVE  c = common \o rest
  <2>1. /\ common \o rest \in Seq(Commits) /\ Len(common \o rest) = Len(c)
    BY <1>1, <1>4, <1>5, ConcatProperties
  <2>2. \A i \in 1..Len(c) : (common \o rest)[i] = c[i]
    <3>. TAKE i \in 1..Len(c)
    <3>1. (common \o rest)[i] = IF i <= k THEN common[i] ELSE rest[i - k]
      BY <1>1, <1>4, <1>5, ConcatProperties
    <3>2. CASE i <= k
      BY <1>5, <3>1, <3>2
    <3>3. CASE ~(i <= k)
      <4>1. i - k \in 1..Len(c) - k /\ k + (i - k) = i
        BY <1>1, <3>3
      <4>. QED
        BY <1>5, <3>1, <3>3, <4>1
    <3>. QED
      BY <3>2, <3>3
  <2>. QED
    BY <2>1, <2>2, SeqEqual
<1>6. a = common \o Beyond(a, b)
  BY <1>3, <1>4, <1>5, BeyondTheShared DEF k
<1>7. b = common \o Beyond(b, a)
  <2>1. /\ Beyond(b, a) \in Seq(Commits) /\ Len(Beyond(b, a)) = Len(b) - k
        /\ \A i \in 1..Len(b) - k : Beyond(b, a)[i] = b[k + i]
    BY <1>2, BeyondTheShared
  <2>. QED
    BY <1>3, <1>4, <1>5, <2>1
<1>. QED
  BY <1>4, <1>6, <1>7

\* Everything of ours on a is where a and b agree.
Kept(a, b) ==
  \A i \in 1..Len(a) : a[i].by = "publisher" => Agree(a, b, i)

LEMMA NoneBeyond ==
  ASSUME NEW a \in Seq(Commits), NEW b \in Seq(Commits), Kept(a, b)
  PROVE  Ours(Beyond(a, b)) = <<>>
<1>. DEFINE k == Shared(a, b)
<1>1. /\ k \in Nat /\ k <= Len(a) /\ Len(a) \in Nat
      /\ \A n \in Nat : Agree(a, b, n) => n <= k
  BY SharedIsLongest DEF Agree
<1>2. /\ Beyond(a, b) \in Seq(Commits) /\ Len(Beyond(a, b)) = Len(a) - k
      /\ \A i \in 1..Len(a) - k : Beyond(a, b)[i] = a[k + i]
  BY BeyondTheShared
<1>3. \A i \in 1..Len(Beyond(a, b)) : Beyond(a, b)[i].by # "publisher"
  <2>. HIDE DEF k
  <2>. TAKE i \in 1..Len(Beyond(a, b))
  <2>1. /\ k + i \in 1..Len(a) /\ k + i \in Nat /\ ~(k + i <= k)
        /\ Beyond(a, b)[i] = a[k + i]
    BY <1>1, <1>2
  <2>. QED
    BY <1>1, <2>1 DEF Kept
<1>. QED
  BY <1>2, <1>3, OursOfOthers

LEMMA PrefixOfConcat ==
  ASSUME NEW a \in Seq(Commits), NEW b \in Seq(Commits)
  PROVE  a \o b \in Seq(Commits) /\ IsPrefix(a, a \o b)
<1>1. /\ a \o b \in Seq(Commits) /\ Len(a) \in Nat /\ Len(b) \in Nat
      /\ Len(a \o b) = Len(a) + Len(b)
      /\ \A i \in 1..Len(a) + Len(b) :
           (a \o b)[i] = IF i <= Len(a) THEN a[i] ELSE b[i - Len(a)]
  BY ConcatProperties
<1>2. Agree(a, a \o b, Len(a))
  BY <1>1 DEF Agree
<1>. QED
  BY <1>1, <1>2, PrefixIsAgreement

LEMMA KeptIsPrefix ==
  ASSUME NEW a \in Seq(Commits), NEW b \in Seq(Commits), Kept(a, b)
  PROVE  IsPrefix(Ours(a), Ours(b))
<1>1. PICK common \in Seq(Commits) :
        a = common \o Beyond(a, b) /\ b = common \o Beyond(b, a)
  BY SplitAtShared
<1>2. /\ Beyond(a, b) \in Seq(Commits) /\ Beyond(b, a) \in Seq(Commits)
      /\ Ours(Beyond(a, b)) = <<>>
  BY BeyondTheShared, NoneBeyond
<1>3. /\ Ours(common) \in Seq(Commits)
      /\ Ours(Beyond(b, a)) \in Seq(Commits)
  BY <1>2, OursAreCommits
<1>4. Ours(a) = Ours(common)
  <2>1. Ours(a) = Ours(common) \o Ours(Beyond(a, b))
    BY <1>1, <1>2, OursOfConcat, Zenon
  <2>2. Ours(common) \o <<>> = Ours(common)
    BY <1>3, ConcatEmptySeq, Zenon
  <2>. QED
    BY <1>2, <2>1, <2>2, Zenon
<1>5. Ours(b) = Ours(common) \o Ours(Beyond(b, a))
  BY <1>1, <1>2, OursOfConcat
<1>. QED
  BY <1>3, <1>4, <1>5, PrefixOfConcat

\* A rebase replays what upstream does not have and loses nothing of ours, when
\* upstream has nothing of ours that we do not have.
LEMMA RebaseKeepsOurs ==
  ASSUME NEW ours \in Seq(Commits), NEW upstream \in Seq(Commits), Kept(upstream, ours)
  PROVE  Ours(Rebased(ours, upstream)) = Ours(ours)
<1>1. PICK common \in Seq(Commits) :
        /\ upstream = common \o Beyond(upstream, ours)
        /\ ours = common \o Beyond(ours, upstream)
  BY SplitAtShared
<1>2. /\ Beyond(upstream, ours) \in Seq(Commits) /\ Beyond(ours, upstream) \in Seq(Commits)
      /\ Ours(Beyond(upstream, ours)) = <<>>
  BY BeyondTheShared, NoneBeyond
<1>3. Ours(common) \in Seq(Commits)
  BY OursAreCommits
<1>4. Ours(upstream) = Ours(common)
  <2>1. Ours(upstream) = Ours(common) \o Ours(Beyond(upstream, ours))
    BY <1>1, <1>2, OursOfConcat, Zenon
  <2>2. Ours(common) \o <<>> = Ours(common)
    BY <1>3, ConcatEmptySeq, Zenon
  <2>. QED
    BY <1>2, <2>1, <2>2, Zenon
<1>5. Ours(ours) = Ours(common) \o Ours(Beyond(ours, upstream))
  BY <1>1, <1>2, OursOfConcat
<1>6. Ours(Rebased(ours, upstream)) = Ours(upstream) \o Ours(Beyond(ours, upstream))
  BY <1>2, OursOfConcat DEF Rebased
<1>. QED
  BY <1>4, <1>5, <1>6

\* Commit by commit, what a rebase makes.
LEMMA RebasedCommits ==
  ASSUME NEW ours \in Seq(Commits), NEW upstream \in Seq(Commits)
  PROVE  LET branch == Rebased(ours, upstream)
             k == Shared(ours, upstream)
             n == Len(upstream) IN
         /\ branch \in Seq(Commits)
         /\ Len(branch) = n + (Len(ours) - k)
         /\ \A i \in 1..n : branch[i] = upstream[i]
         /\ \A i \in n + 1..Len(branch) : branch[i] = ours[k + (i - n)]
<1>. DEFINE k == Shared(ours, upstream)
            n == Len(upstream)
            rest == Beyond(ours, upstream)
<1>1. k \in Nat /\ k <= Len(ours) /\ Len(ours) \in Nat /\ n \in Nat
  BY SharedIsLongest DEF Agree
<1>2. /\ rest \in Seq(Commits) /\ Len(rest) = Len(ours) - k
      /\ \A i \in 1..Len(ours) - k : rest[i] = ours[k + i]
  BY BeyondTheShared
<1>. HIDE DEF rest, k
<1>3. /\ upstream \o rest \in Seq(Commits) /\ Len(upstream \o rest) = n + Len(rest)
      /\ \A i \in 1..n + Len(rest) : (upstream \o rest)[i] =
            IF i <= n THEN upstream[i] ELSE rest[i - n]
  BY <1>2, ConcatProperties
<1>4. \A i \in n + 1..n + Len(rest) : i - n \in 1..Len(ours) - k
  BY <1>1, <1>2
<1>5. \A i \in n + 1..n + Len(rest) : (upstream \o rest)[i] = ours[k + (i - n)]
  BY <1>1, <1>2, <1>3, <1>4
<1>6. \A i \in 1..n : (upstream \o rest)[i] = upstream[i]
  BY <1>1, <1>2, <1>3
<1>. QED
  BY <1>2, <1>3, <1>5, <1>6 DEF Rebased, rest, k

LEMMA PrefixesCompose ==
  ASSUME NEW a \in Seq(Commits), NEW b \in Seq(Commits)
  PROVE  /\ IsPrefix(a, a)
         /\ \A c \in Seq(Commits) : IsPrefix(a, b) /\ IsPrefix(b, c) => IsPrefix(a, c)
         /\ \A c \in Commits : IsPrefix(a, b) => IsPrefix(a, Append(b, c))
<1>1. Len(a) \in Nat /\ Len(b) \in Nat
  OBVIOUS
<1>2. IsPrefix(a, a)
  BY <1>1, PrefixIsAgreement DEF Agree
<1>3. \A c \in Seq(Commits) : IsPrefix(a, b) /\ IsPrefix(b, c) => IsPrefix(a, c)
  <2>. TAKE c \in Seq(Commits)
  <2>. HAVE IsPrefix(a, b) /\ IsPrefix(b, c)
  <2>1. Agree(a, b, Len(a)) /\ Agree(b, c, Len(b)) /\ Len(c) \in Nat
    BY PrefixIsAgreement
  <2>2. Agree(a, c, Len(a))
    BY <1>1, <2>1 DEF Agree
  <2>. QED
    BY <2>2, PrefixIsAgreement
<1>4. \A c \in Commits : IsPrefix(a, b) => IsPrefix(a, Append(b, c))
  <2>. TAKE c \in Commits
  <2>. HAVE IsPrefix(a, b)
  <2>1. Agree(a, b, Len(a))
    BY PrefixIsAgreement
  <2>2. ASSUME NEW d \in Seq(Commits), Len(d) = Len(b) + 1,
               \A i \in 1..Len(b) : d[i] = b[i]
        PROVE  IsPrefix(a, d)
    <3>1. Agree(a, d, Len(a))
      BY <1>1, <2>1, <2>2 DEF Agree
    <3>. QED
      BY <3>1, PrefixIsAgreement
  <2>. QED
    BY <2>2, Appended
<1>. QED
  BY <1>2, <1>3, <1>4

\* A longer or an equal branch agrees no less.
LEMMA AgreementGrows ==
  ASSUME NEW a \in Seq(Commits), NEW b \in Seq(Commits), NEW c \in Seq(Commits),
         IsPrefix(b, c), NEW n \in Nat
  PROVE  /\ Agree(a, b, n) => Agree(a, c, n)
         /\ Agree(b, a, n) => Agree(c, a, n)
<1>1. Agree(b, c, Len(b)) /\ Len(a) \in Nat /\ Len(b) \in Nat /\ Len(c) \in Nat
  BY PrefixIsAgreement
<1>. QED
  BY <1>1 DEF Agree

\* What is published on top of what was fetched is rebased onto itself.
LEMMA RebaseOntoOwn ==
  ASSUME NEW ours \in Seq(Commits), NEW upstream \in Seq(Commits), IsPrefix(upstream, ours)
  PROVE  Rebased(ours, upstream) = ours
<1>. DEFINE k == Shared(ours, upstream)
            n == Len(upstream)
            branch == Rebased(ours, upstream)
<1>1. /\ n \in Nat /\ Len(ours) \in Nat /\ n <= Len(ours)
      /\ \A i \in 1..n : upstream[i] = ours[i]
  BY PrefixIsAgreement DEF Agree
<1>2. k = n
  <2>1. Agree(ours, upstream, n)
    BY <1>1 DEF Agree
  <2>2. k \in Nat /\ n <= k /\ k <= n
    BY <1>1, <2>1, SharedIsLongest DEF Agree
  <2>. QED
    BY <1>1, <2>2
<1>3. /\ branch \in Seq(Commits) /\ Len(branch) = n + (Len(ours) - k)
      /\ \A i \in 1..n : branch[i] = upstream[i]
      /\ \A i \in n + 1..Len(branch) : branch[i] = ours[k + (i - n)]
  BY RebasedCommits
<1>. HIDE DEF branch, k
<1>4. Len(branch) = Len(ours) /\ \A i \in 1..Len(ours) : branch[i] = ours[i]
  BY <1>1, <1>2, <1>3
<1>5. branch = ours
  BY <1>3, <1>4, SeqEqual
<1>. QED
  BY <1>5 DEF branch

\* Every commit of a that is not ours is where a and b agree.
Added(a, b) ==
  \A i \in 1..Len(a) : a[i].by # "publisher" => Agree(a, b, i)

LEMMA RebaseKeepsRemote ==
  ASSUME NEW r \in Seq(Commits), NEW h \in Seq(Commits), NEW o \in Seq(Commits),
         IsPrefix(o, r), Kept(r, h)
  PROVE  Kept(r, Rebased(h, o))
<1>. DEFINE k == Shared(h, o)
            branch == Rebased(h, o)
<1>1. CASE IsPrefix(o, h)
  BY <1>1, RebaseOntoOwn
<1>2. CASE ~IsPrefix(o, h)
  <2>1. /\ k \in Nat /\ Agree(h, o, k)
        /\ \A n \in Nat : Agree(h, o, n) => n <= k
    BY SharedIsLongest
  <2>2. /\ branch \in Seq(Commits) /\ Len(branch) = Len(o) + (Len(h) - k)
        /\ \A i \in 1..Len(o) : branch[i] = o[i]
    BY RebasedCommits
  <2>3. Agree(o, r, Len(o)) /\ ~Agree(o, h, Len(o))
        /\ Len(o) \in Nat /\ Len(h) \in Nat /\ Len(r) \in Nat
    BY <1>2, PrefixIsAgreement
  <2>. HIDE DEF k, branch
  <2>4. k < Len(o) /\ k <= Len(h)
    BY <2>1, <2>3 DEF Agree
  <2>5. ASSUME NEW i \in 1..Len(r), Agree(r, h, i) PROVE i <= k
    <3>. SUFFICES ASSUME k + 1 <= i PROVE FALSE
      BY <2>1
    <3>1. Agree(h, o, k + 1)
      BY <2>1, <2>3, <2>4, <2>5 DEF Agree
    <3>. QED
      BY <2>1, <3>1
  <2>6. ASSUME NEW i \in 1..Len(r), Agree(r, h, i) PROVE Agree(r, branch, i)
    BY <2>1, <2>2, <2>3, <2>4, <2>5, <2>6 DEF Agree
  <2>. QED
    BY <2>6 DEF Kept, branch
<1>. QED
  BY <1>1, <1>2

LEMMA RebaseAddsOurs ==
  ASSUME NEW h \in Seq(Commits), NEW o \in Seq(Commits), Added(h, o)
  PROVE  Added(Rebased(h, o), o)
<1>. DEFINE k == Shared(h, o)
            n == Len(o)
            branch == Rebased(h, o)
<1>1. /\ k \in Nat /\ k <= Len(h) /\ n \in Nat /\ Len(h) \in Nat
      /\ \A i \in Nat : Agree(h, o, i) => i <= k
  BY SharedIsLongest DEF Agree
<1>2. /\ branch \in Seq(Commits) /\ Len(branch) = n + (Len(h) - k)
      /\ \A i \in 1..n : branch[i] = o[i]
      /\ \A i \in n + 1..Len(branch) : branch[i] = h[k + (i - n)]
  BY RebasedCommits
<1>. HIDE DEF k, branch
<1>3. ASSUME NEW i \in 1..Len(branch), branch[i].by # "publisher"
      PROVE  Agree(branch, o, i)
  <2>1. CASE i <= n
    BY <1>1, <1>2, <2>1 DEF Agree
  <2>2. CASE ~(i <= n)
    <3>1. /\ k + (i - n) \in 1..Len(h) /\ k + (i - n) \in Nat /\ ~(k + (i - n) <= k)
          /\ branch[i] = h[k + (i - n)]
      BY <1>1, <1>2, <2>2
    <3>2. Agree(h, o, k + (i - n))
      BY <1>3, <3>1 DEF Added
    <3>. QED
      BY <1>1, <3>1, <3>2
  <2>. QED
    BY <2>1, <2>2
<1>. QED
  BY <1>3 DEF Added, branch

\* What the files say is what our last commit made them, unless another service
\* has replaced the feed since.
Coherent(branch) ==
  branch # <<>> /\ FeedOf(branch) # Foreign
    => Ours(branch) # <<>> /\ FeedOf(Ours(branch)) = FeedOf(branch)

LEMMA TipOfAppend ==
  ASSUME NEW branch \in Seq(Commits), NEW commit \in Commits
  PROVE  /\ Append(branch, commit) # <<>>
         /\ FeedOf(Append(branch, commit)) = commit.feed
<1>1. ASSUME NEW longer \in Seq(Commits), Len(longer) = Len(branch) + 1,
             longer[Len(branch) + 1] = commit
      PROVE  longer # <<>> /\ FeedOf(longer) = commit.feed
  <2>1. Len(branch) \in Nat
    OBVIOUS
  <2>. QED
    BY <1>1, <2>1 DEF FeedOf
<1>. QED
  BY <1>1, Appended

LEMMA OursAtTheTip ==
  ASSUME NEW branch \in Seq(Commits), branch # <<>>,
         branch[Len(branch)].by = "publisher"
  PROVE  Ours(branch) # <<>> /\ FeedOf(Ours(branch)) = FeedOf(branch)
<1>1. PICK front \in Seq(Commits), tip \in Commits : branch = Append(front, tip)
  BY SequenceEmptyOrAppend
<1>2. branch[Len(branch)] = tip
  <2>1. ASSUME NEW longer \in Seq(Commits), Len(longer) = Len(front) + 1,
               longer[Len(front) + 1] = tip
        PROVE  longer[Len(longer)] = tip
    BY <2>1
  <2>. QED
    BY <1>1, <2>1, Appended
<1>3. Ours(branch) = Append(Ours(front), tip)
  BY <1>1, <1>2, OursOfAppend
<1>. QED
  BY <1>1, <1>3, OursAreCommits, TipOfAppend

LEMMA RebaseIsCoherent ==
  ASSUME NEW h \in Seq(Commits), NEW o \in Seq(Commits), Added(h, o), Coherent(o)
  PROVE  Coherent(Rebased(h, o))
<1>. DEFINE k == Shared(h, o)
            n == Len(o)
            branch == Rebased(h, o)
<1>1. /\ k \in Nat /\ k <= Len(h) /\ n \in Nat /\ Len(h) \in Nat
      /\ \A i \in Nat : Agree(h, o, i) => i <= k
  BY SharedIsLongest DEF Agree
<1>2. /\ branch \in Seq(Commits) /\ Len(branch) = n + (Len(h) - k)
      /\ \A i \in 1..n : branch[i] = o[i]
      /\ \A i \in n + 1..Len(branch) : branch[i] = h[k + (i - n)]
  BY RebasedCommits
<1>. HIDE DEF k, branch
<1>3. CASE Len(h) = k
  <2>1. branch = o
    BY <1>1, <1>2, <1>3, SeqEqual
  <2>. QED
    BY <2>1 DEF branch
<1>4. CASE Len(h) # k
  <2>1. /\ Len(branch) \in n + 1..Len(branch) /\ k + (Len(branch) - n) = Len(h)
        /\ Len(h) \in 1..Len(h) /\ ~(Len(h) <= k) /\ branch # <<>>
    BY <1>1, <1>2, <1>4
  <2>2. h[Len(h)].by = "publisher"
    BY <1>1, <2>1 DEF Added
  <2>3. branch[Len(branch)] = h[Len(h)]
    BY <1>2, <2>1
  <2>. QED
    BY <1>2, <2>1, <2>2, <2>3, OursAtTheTip DEF Coherent, branch
<1>. QED
  BY <1>3, <1>4

(***************************************************************************)
(* The invariant.                                                          *)
(***************************************************************************)
\* Where publish() is agrees with what the directory is.
Placement ==
  /\ repo # "ready" => head = <<>> /\ origin = <<>> /\ late = {}
  /\ pc \in {"rebase", "write", "commit", "count", "push"} => repo = "ready"
  /\ pc = "clone" => repo = "none"
  /\ pc # "idle" => job \in Feeds
  /\ pc = "idle" => ~retrying

OriginIsBehind == IsPrefix(origin, remote)

\* The remote has nothing of ours that is not on our HEAD, at the same place.
RemoteIsShared == Kept(remote, head)

\* What HEAD has and the fetched branch does not, we have rendered.
HeadIsOurs == Added(head, origin)

\* A push that is late is of what HEAD still begins with, or the remote has
\* moved and will never take it.
LateIsHarmless ==
  \A branch \in late : IsPrefix(remote, branch) => IsPrefix(branch, head)

Coherence ==
  /\ Coherent(remote) /\ Coherent(origin) /\ Coherent(head)
  /\ \A branch \in late : Coherent(branch)

\* The work tree between the steps of publish(), and HEAD from the commit on.
Rendered ==
  /\ pc = "write" => tree = FeedOf(head)
  /\ pc = "commit" => tree = job
  /\ pc \in {"count", "push"} \/ retrying
       => Ours(head) # <<>> /\ FeedOf(Ours(head)) = job

Branching == OriginIsBehind /\ RemoteIsShared /\ HeadIsOurs /\ LateIsHarmless /\ Coherence

PInv == PTypeOK /\ Placement /\ Branching /\ Rendered

(***************************************************************************)
(* Types, and the invariant at first.                                      *)
(***************************************************************************)
LEMMA FeedsAreRenderings ==
  /\ Feeds \subseteq Renderings /\ Blank \in Renderings /\ Foreign \notin Renderings
  /\ Blank \notin Feeds /\ Foreign \notin Feeds
  /\ \A feed \in Renderings : feed # Blank => feed \in Feeds
BY PublisherConstants DEF Renderings

LEMMA TipsAreFeeds ==
  ASSUME NEW branch \in Seq(Commits), branch # <<>>
  PROVE  FeedOf(branch) \in Renderings \cup {Foreign}
<1>1. branch[Len(branch)] \in Commits
  OBVIOUS
<1>. QED
  BY <1>1 DEF FeedOf, Commits

LEMMA PTypeInit == PInit => PTypeOK
<1>1. [by |-> "subscription", feed |-> Foreign] \in Commits
  BY DEF Commits, Authors
<1>2. <<[by |-> "subscription", feed |-> Foreign]>> \in Seq(Commits)
  BY <1>1
<1>3. <<>> \in Seq(Commits) /\ {} \in SUBSET Seq(Commits) /\ Budget \in 0 .. Budget
  BY PublisherConstants
<1>4. <<[by |-> "subscription", feed |-> Foreign]>> # <<>>
  OBVIOUS
<1>. QED
  BY <1>2, <1>3, <1>4, FeedsAreRenderings DEF PInit, PTypeOK, Steps

LEMMA SpendType ==
  ASSUME PTypeOK, Spend
  PROVE  budget' \in 0 .. Budget
BY PublisherConstants DEF PTypeOK, Spend

LEMMA AppendType ==
  ASSUME NEW branch \in Seq(Commits)
  PROVE  \A commit \in Commits : /\ Append(branch, commit) \in Seq(Commits)
                                 /\ Append(branch, commit) # <<>>
BY Appended, TipOfAppend

LEMMA RebasedType ==
  ASSUME NEW h \in Seq(Commits), NEW o \in Seq(Commits), o # <<>>
  PROVE  Rebased(h, o) \in Seq(Commits) /\ Rebased(h, o) # <<>>
<1>1. /\ Rebased(h, o) \in Seq(Commits)
      /\ Len(Rebased(h, o)) = Len(o) + (Len(h) - Shared(h, o))
  BY RebasedCommits
<1>2. Shared(h, o) \in Nat /\ Shared(h, o) <= Len(h) /\ Len(o) \in Nat /\ Len(h) \in Nat
  BY SharedIsLongest DEF Agree
<1>3. Len(o) # 0
  OBVIOUS
<1>4. Len(Rebased(h, o)) # 0
  BY <1>1, <1>2, <1>3
<1>. QED
  BY <1>1, <1>4

LEMMA PTypeStep == PTypeOK /\ Placement /\ [PNext]_pvars => PTypeOK'
<1>. SUFFICES ASSUME PTypeOK, Placement, [PNext]_pvars PROVE PTypeOK'
  OBVIOUS
<1>. USE FeedsAreRenderings
<1>1. CASE Tick
  BY <1>1 DEF Tick, End, PTypeOK, Steps, local
<1>2. CASE TickFails
  BY <1>2 DEF TickFails, End, PTypeOK, Steps, local
<1>3. CASE Clone
  BY <1>3, TipsAreFeeds DEF Clone, Cloned, Goto, PTypeOK, Steps
<1>4. CASE CloneTimesOut
  BY <1>4 DEF CloneTimesOut, End, PTypeOK, Steps
<1>5. CASE Fetch
  BY <1>5 DEF Fetch, Goto, PTypeOK, Steps
<1>6. CASE Rebase
  <2>1. Rebased(head, origin) \in Seq(Commits) /\ Rebased(head, origin) # <<>>
    BY <1>6, RebasedType DEF Rebase, PTypeOK, Placement
  <2>2. FeedOf(Rebased(head, origin)) \in Renderings \cup {Foreign}
    BY <2>1, TipsAreFeeds
  <2>. QED
    BY <1>6, <2>1, <2>2 DEF Rebase, Goto, PTypeOK, Steps
<1>7. CASE RebaseFails
  BY <1>7 DEF RebaseFails, End, PTypeOK, Steps
<1>8. CASE Write
  BY <1>8 DEF Write, Goto, PTypeOK, Steps
<1>9. CASE Commit
  <2>1. [by |-> "publisher", feed |-> tree] \in Commits
    BY DEF PTypeOK, Commits, Authors
  <2>2. head' \in Seq(Commits) /\ head' # <<>>
    BY <1>9, <2>1, AppendType DEF Commit, PTypeOK
  <2>. QED
    BY <1>9, <2>2 DEF Commit, Goto, PTypeOK, Steps
<1>10. CASE CountAhead
  BY <1>10 DEF CountAhead, End, Goto, PTypeOK, Steps, local
<1>11. CASE Push
  BY <1>11 DEF Push, End, PTypeOK, Steps, Placement
<1>12. CASE PushFails
  <2>1. late' \in SUBSET Seq(Commits)
    BY <1>12 DEF PushFails, PTypeOK
  <2>. QED
    BY <1>12, <2>1 DEF PushFails, End, PTypeOK, Steps, local
<1>13. ASSUME NEW step \in {"clone", "fetch", "commit", "count"}, Fail(step)
       PROVE  PTypeOK'
  BY <1>13 DEF Fail, End, PTypeOK, Steps, local
<1>14. CASE LateClone
  BY <1>14, TipsAreFeeds DEF LateClone, Cloned, PTypeOK, run
<1>15. ASSUME NEW branch \in late, LatePush(branch)
       PROVE  PTypeOK'
  <2>1. branch \in Seq(Commits)
    BY DEF PTypeOK
  <2>2. IsPrefix(remote, branch) => branch # <<>>
    BY <2>1, PrefixIsAgreement DEF PTypeOK, Agree
  <2>. QED
    BY <1>15, <2>1, <2>2 DEF LatePush, PTypeOK, run
<1>16. CASE LeasesChange
  BY <1>16, SpendType DEF LeasesChange, PTypeOK, local, run
<1>17. CASE OthersCommit
  <2>1. /\ [by |-> "code", feed |-> FeedOf(remote)] \in Commits
        /\ [by |-> "subscription", feed |-> Foreign] \in Commits
    BY TipsAreFeeds DEF PTypeOK, Commits, Authors
  <2>2. remote' \in Seq(Commits) /\ remote' # <<>>
    BY <1>17, <2>1, AppendType DEF OthersCommit, PTypeOK
  <2>. QED
    BY <1>17, <2>2, SpendType DEF OthersCommit, PTypeOK, local, run
<1>18. CASE Crash
  <2>1. /\ repo' \in {"none", "cloning", "broken", "ready"}
        /\ repo' = "ready" => repo = "ready"
    BY <1>18 DEF Crash, PTypeOK, Placement
  <2>2. rebasing' \in BOOLEAN
    BY <1>18 DEF Crash, PTypeOK, Dirty
  <2>. QED
    BY <1>18, <2>1, <2>2, SpendType DEF Crash, End, PTypeOK, Steps
<1>19. CASE UNCHANGED pvars
  BY <1>19 DEF pvars, PTypeOK, local, run
<1>. QED
  BY <1>1, <1>2, <1>3, <1>4, <1>5, <1>6, <1>7, <1>8, <1>9, <1>10, <1>11, <1>12,
     <1>13, <1>14, <1>15, <1>16, <1>17, <1>18, <1>19
     DEF PNext, Publish, Background, Outside

LEMMA PInvInit == PInit => PInv
<1>. SUFFICES ASSUME PInit PROVE PInv
  OBVIOUS
<1>. DEFINE first == [by |-> "subscription", feed |-> Foreign]
<1>1. PTypeOK
  BY PTypeInit
<1>2. Placement
  BY DEF PInit, Placement
<1>3. /\ remote = <<first>> /\ origin = <<>> /\ head = <<>> /\ late = {}
      /\ origin \in Seq(Commits) /\ remote \in Seq(Commits)
      /\ Len(remote) = 1 /\ remote[1] = first /\ Len(origin) = 0
  BY <1>1 DEF PInit, PTypeOK
<1>4. OriginIsBehind
  <2>1. Agree(origin, remote, Len(origin))
    BY <1>3 DEF Agree
  <2>. QED
    BY <1>3, <2>1, PrefixIsAgreement DEF OriginIsBehind
<1>5. RemoteIsShared /\ HeadIsOurs /\ LateIsHarmless
  BY <1>3 DEF RemoteIsShared, Kept, HeadIsOurs, Added, LateIsHarmless
<1>6. Coherence
  BY <1>3 DEF Coherence, Coherent, FeedOf
<1>7. Rendered
  BY DEF PInit, Rendered
<1>. QED
  BY <1>1, <1>2, <1>4, <1>5, <1>6, <1>7 DEF PInv, Branching

LEMMA PlacementStep == PTypeOK /\ Placement /\ [PNext]_pvars => Placement'
<1>. SUFFICES ASSUME PTypeOK, Placement, [PNext]_pvars PROVE Placement'
  OBVIOUS
<1>1. CASE Tick
  BY <1>1, FeedsAreRenderings DEF Tick, End, PTypeOK, Placement, local
<1>2. CASE TickFails
  BY <1>2 DEF TickFails, End, Placement, local
<1>3. CASE Clone
  BY <1>3 DEF Clone, Cloned, Goto, Placement
<1>4. CASE CloneTimesOut
  BY <1>4 DEF CloneTimesOut, End, Placement
<1>5. CASE Fetch
  BY <1>5 DEF Fetch, Goto, Placement
<1>6. CASE Rebase
  BY <1>6 DEF Rebase, Goto, Placement
<1>7. CASE RebaseFails
  BY <1>7 DEF RebaseFails, End, Placement
<1>8. CASE Write
  BY <1>8 DEF Write, Goto, Placement
<1>9. CASE Commit
  BY <1>9 DEF Commit, Goto, Placement
<1>10. CASE CountAhead
  BY <1>10 DEF CountAhead, End, Goto, Placement, local
<1>11. CASE Push
  BY <1>11 DEF Push, End, Placement
<1>12. CASE PushFails
  BY <1>12 DEF PushFails, End, Placement, local
<1>13. ASSUME NEW step \in {"clone", "fetch", "commit", "count"}, Fail(step)
       PROVE  Placement'
  BY <1>13 DEF Fail, End, Placement, local
<1>14. CASE LateClone
  BY <1>14 DEF LateClone, Cloned, Placement, run
<1>15. ASSUME NEW branch \in late, LatePush(branch)
       PROVE  Placement'
  <2>1. repo = "ready"
    BY DEF Placement
  <2>. QED
    BY <1>15, <2>1 DEF LatePush, Placement, run
<1>16. CASE LeasesChange
  BY <1>16 DEF LeasesChange, Placement, local, run
<1>17. CASE OthersCommit
  BY <1>17 DEF OthersCommit, Placement, local, run
<1>18. CASE Crash
  <2>1. repo # "ready" => repo' # "ready"
    BY <1>18 DEF Crash, Placement, PTypeOK
  <2>2. repo' # "ready" => repo # "ready"
    BY <1>18 DEF Crash, Placement, PTypeOK
  <2>. QED
    BY <1>18, <2>1, <2>2 DEF Crash, End, Placement
<1>19. CASE UNCHANGED pvars
  BY <1>19 DEF pvars, Placement, local, run
<1>. QED
  BY <1>1, <1>2, <1>3, <1>4, <1>5, <1>6, <1>7, <1>8, <1>9, <1>10, <1>11, <1>12,
     <1>13, <1>14, <1>15, <1>16, <1>17, <1>18, <1>19
     DEF PNext, Publish, Background, Outside

(***************************************************************************)
(* The steps that touch a branch, each with what it does to all of them.   *)
(***************************************************************************)
LEMMA BranchTypes ==
  ASSUME PInv
  PROVE  /\ remote \in Seq(Commits) /\ origin \in Seq(Commits) /\ head \in Seq(Commits)
         /\ \A branch \in late : branch \in Seq(Commits)
         /\ remote # <<>>
BY DEF PInv, PTypeOK

LEMMA KeptOfItself ==
  ASSUME NEW a \in Seq(Commits)
  PROVE  Kept(a, a) /\ Added(a, a)
BY DEF Kept, Added, Agree

LEMMA ClonedBranches ==
  ASSUME PInv, repo # "ready", Cloned, UNCHANGED <<remote, late>>
  PROVE  Branching'
<1>1. origin' = remote /\ head' = remote /\ remote' = remote /\ late' = {}
  BY DEF Cloned, PInv, Placement
<1>2. remote \in Seq(Commits)
  BY BranchTypes
<1>3. OriginIsBehind'
  BY <1>1, <1>2, PrefixesCompose DEF OriginIsBehind
<1>4. RemoteIsShared' /\ HeadIsOurs'
  BY <1>1, <1>2, KeptOfItself DEF RemoteIsShared, HeadIsOurs
<1>5. LateIsHarmless'
  BY <1>1 DEF LateIsHarmless
<1>6. Coherence'
  BY <1>1 DEF Coherence, PInv, Branching
<1>. QED
  BY <1>3, <1>4, <1>5, <1>6 DEF Branching

LEMMA FetchedBranches ==
  ASSUME PInv, origin' = remote, UNCHANGED <<remote, head, late>>
  PROVE  Branching'
<1>1. remote \in Seq(Commits) /\ origin \in Seq(Commits) /\ head \in Seq(Commits)
  BY BranchTypes
<1>2. OriginIsBehind'
  BY <1>1, PrefixesCompose DEF OriginIsBehind
<1>3. IsPrefix(origin, remote) /\ Added(head, origin)
  BY DEF PInv, Branching, OriginIsBehind, HeadIsOurs
<1>4. Added(head, remote)
  <2>1. \A i \in 1..Len(head) : Agree(head, origin, i) => Agree(head, remote, i)
    BY <1>1, <1>3, AgreementGrows
  <2>. QED
    BY <1>3, <2>1 DEF Added
<1>5. RemoteIsShared' /\ HeadIsOurs' /\ LateIsHarmless' /\ Coherence'
  BY <1>4 DEF PInv, Branching, RemoteIsShared, HeadIsOurs, LateIsHarmless, Coherence
<1>. QED
  BY <1>2, <1>5 DEF Branching

LEMMA RebasedBranches ==
  ASSUME PInv, Rebase
  PROVE  Branching'
<1>1. /\ remote \in Seq(Commits) /\ origin \in Seq(Commits) /\ head \in Seq(Commits)
      /\ \A branch \in late : branch \in Seq(Commits)
  BY BranchTypes
<1>2. head' = Rebased(head, origin) /\ UNCHANGED <<remote, origin, late>>
  BY DEF Rebase
<1>3. /\ IsPrefix(origin, remote) /\ Kept(remote, head) /\ Added(head, origin)
      /\ Coherent(remote) /\ Coherent(origin)
      /\ \A branch \in late : Coherent(branch)
      /\ \A branch \in late : IsPrefix(remote, branch) => IsPrefix(branch, head)
  BY DEF PInv, Branching, OriginIsBehind, RemoteIsShared, HeadIsOurs, LateIsHarmless,
         Coherence
<1>4. Kept(remote, head')
  BY <1>1, <1>2, <1>3, RebaseKeepsRemote
<1>5. Added(head', origin)
  BY <1>1, <1>2, <1>3, RebaseAddsOurs
<1>6. Coherent(head')
  BY <1>1, <1>2, <1>3, RebaseIsCoherent
<1>7. ASSUME NEW branch \in late, IsPrefix(remote, branch) PROVE IsPrefix(branch, head')
  <2>1. IsPrefix(branch, head) /\ branch \in Seq(Commits)
    BY <1>1, <1>3, <1>7
  <2>2. IsPrefix(origin, branch)
    BY <1>1, <1>3, <1>7, <2>1, PrefixesCompose
  <2>3. IsPrefix(origin, head)
    BY <1>1, <2>1, <2>2, PrefixesCompose
  <2>4. head' = head
    BY <1>1, <1>2, <2>3, RebaseOntoOwn
  <2>. QED
    BY <2>1, <2>4
<1>8. OriginIsBehind' /\ RemoteIsShared' /\ HeadIsOurs'
  BY <1>2, <1>3, <1>4, <1>5 DEF OriginIsBehind, RemoteIsShared, HeadIsOurs
<1>9. LateIsHarmless'
  BY <1>2, <1>7 DEF LateIsHarmless
<1>10. Coherence'
  BY <1>2, <1>3, <1>6 DEF Coherence
<1>. QED
  BY <1>8, <1>9, <1>10 DEF Branching

LEMMA CommittedBranches ==
  ASSUME PInv, Commit
  PROVE  Branching'
<1>. DEFINE commit == [by |-> "publisher", feed |-> tree]
<1>1. /\ remote \in Seq(Commits) /\ origin \in Seq(Commits) /\ head \in Seq(Commits)
      /\ \A branch \in late : branch \in Seq(Commits)
  BY BranchTypes
<1>2. /\ commit \in Commits /\ commit.by = "publisher"
      /\ head' = Append(head, commit) /\ UNCHANGED <<remote, origin, late>>
  BY DEF Commit, PInv, PTypeOK, Commits, Authors
<1>. HIDE DEF commit
<1>3. /\ head' \in Seq(Commits) /\ Len(head') = Len(head) + 1 /\ Len(head) \in Nat
      /\ \A i \in 1..Len(head) : head'[i] = head[i]
      /\ head'[Len(head) + 1] = commit
  BY <1>1, <1>2, Appended
<1>4. IsPrefix(head, head')
  BY <1>1, <1>2, PrefixesCompose
<1>5. /\ IsPrefix(origin, remote) /\ Kept(remote, head) /\ Added(head, origin)
      /\ Coherent(remote) /\ Coherent(origin)
      /\ \A branch \in late : Coherent(branch)
      /\ \A branch \in late : IsPrefix(remote, branch) => IsPrefix(branch, head)
  BY DEF PInv, Branching, OriginIsBehind, RemoteIsShared, HeadIsOurs, LateIsHarmless,
         Coherence
<1>6. Kept(remote, head')
  <2>1. \A i \in 1..Len(remote) : Agree(remote, head, i) => Agree(remote, head', i)
    BY <1>1, <1>3, <1>4, AgreementGrows
  <2>. QED
    BY <1>5, <2>1 DEF Kept
<1>7. Added(head', origin)
  <2>1. ASSUME NEW i \in 1..Len(head'), head'[i].by # "publisher"
        PROVE  Agree(head', origin, i)
    <3>1. i \in 1..Len(head) /\ head[i].by # "publisher" /\ i \in Nat
      BY <1>2, <1>3, <2>1
    <3>2. Agree(head, origin, i)
      BY <1>5, <3>1 DEF Added
    <3>. QED
      BY <1>1, <1>3, <1>4, <3>1, <3>2, AgreementGrows
  <2>. QED
    BY <2>1 DEF Added
<1>8. Coherent(head')
  <2>1. head' # <<>> /\ Len(head') = Len(head) + 1
    BY <1>1, <1>2, <1>3, AppendType
  <2>. QED
    BY <1>2, <1>3, <2>1, OursAtTheTip DEF Coherent
<1>9. LateIsHarmless'
  <2>1. \A branch \in late : IsPrefix(branch, head) => IsPrefix(branch, head')
    BY <1>1, <1>3, <1>4, PrefixesCompose
  <2>. QED
    BY <1>2, <1>5, <2>1 DEF LateIsHarmless
<1>10. OriginIsBehind' /\ RemoteIsShared' /\ HeadIsOurs' /\ Coherence'
  BY <1>2, <1>5, <1>6, <1>7, <1>8
     DEF OriginIsBehind, RemoteIsShared, HeadIsOurs, Coherence
<1>. QED
  BY <1>9, <1>10 DEF Branching

LEMMA PushedBranches ==
  ASSUME PInv, Push
  PROVE  Branching'
<1>1. /\ remote \in Seq(Commits) /\ head \in Seq(Commits)
      /\ \A branch \in late : branch \in Seq(Commits)
  BY BranchTypes
<1>2. /\ IsPrefix(remote, head) /\ remote' = head /\ origin' = head
      /\ UNCHANGED <<head, late>>
  BY DEF Push
<1>3. OriginIsBehind' /\ RemoteIsShared' /\ HeadIsOurs'
  BY <1>1, <1>2, PrefixesCompose, KeptOfItself
     DEF OriginIsBehind, RemoteIsShared, HeadIsOurs
<1>4. LateIsHarmless'
  <2>1. ASSUME NEW branch \in late, IsPrefix(head, branch) PROVE IsPrefix(branch, head)
    <3>1. IsPrefix(remote, branch)
      BY <1>1, <1>2, <2>1, PrefixesCompose
    <3>. QED
      BY <3>1 DEF PInv, Branching, LateIsHarmless
  <2>. QED
    BY <1>2, <2>1 DEF LateIsHarmless
<1>5. Coherence'
  BY <1>2 DEF PInv, Branching, Coherence
<1>. QED
  BY <1>3, <1>4, <1>5 DEF Branching

LEMMA UnpushedBranches ==
  ASSUME PInv, PushFails
  PROVE  Branching'
<1>1. /\ late' \subseteq late \cup {head} /\ UNCHANGED <<remote, origin, head>>
      /\ head \in Seq(Commits)
  BY BranchTypes DEF PushFails, local
<1>2. IsPrefix(head, head)
  BY <1>1, PrefixesCompose
<1>3. OriginIsBehind' /\ RemoteIsShared' /\ HeadIsOurs'
  BY <1>1 DEF PInv, Branching, OriginIsBehind, RemoteIsShared, HeadIsOurs
<1>4. LateIsHarmless' /\ Coherence'
  BY <1>1, <1>2 DEF PInv, Branching, LateIsHarmless, Coherence
<1>. QED
  BY <1>3, <1>4 DEF Branching

LEMMA LatePushedBranches ==
  ASSUME PInv, NEW branch \in late, LatePush(branch)
  PROVE  Branching'
<1>1. /\ remote \in Seq(Commits) /\ origin \in Seq(Commits) /\ head \in Seq(Commits)
      /\ branch \in Seq(Commits) /\ \A other \in late : other \in Seq(Commits)
  BY BranchTypes
<1>2. /\ IsPrefix(origin, remote) /\ Kept(remote, head) /\ Added(head, origin)
      /\ Coherent(remote) /\ Coherent(origin) /\ Coherent(head)
      /\ \A other \in late : Coherent(other)
      /\ \A other \in late : IsPrefix(remote, other) => IsPrefix(other, head)
  BY DEF PInv, Branching, OriginIsBehind, RemoteIsShared, HeadIsOurs, LateIsHarmless,
         Coherence
<1>3. head' = head /\ late' \subseteq late
  BY DEF LatePush
<1>4. CASE ~IsPrefix(remote, branch)
  <2>1. UNCHANGED <<remote, origin, head>> /\ late' \subseteq late
    BY <1>4 DEF LatePush
  <2>. QED
    BY <2>1 DEF PInv, Branching, OriginIsBehind, RemoteIsShared, HeadIsOurs,
                LateIsHarmless, Coherence
<1>5. CASE IsPrefix(remote, branch)
  <2>1. remote' = branch /\ origin' \in {origin, branch}
    BY <1>5 DEF LatePush
  <2>2. IsPrefix(branch, head) /\ IsPrefix(origin, branch) /\ IsPrefix(branch, branch)
    BY <1>1, <1>2, <1>5, PrefixesCompose
  <2>3. Kept(branch, head)
    <3>1. Agree(branch, head, Len(branch))
      BY <1>1, <2>2, PrefixIsAgreement
    <3>. QED
      BY <1>1, <3>1 DEF Kept, Agree
  <2>4. Added(head, branch)
    <3>1. \A i \in 1..Len(head) : Agree(head, origin, i) => Agree(head, branch, i)
      BY <1>1, <2>2, AgreementGrows
    <3>. QED
      BY <1>2, <3>1 DEF Added
  <2>5. OriginIsBehind'
    BY <2>1, <2>2 DEF OriginIsBehind
  <2>6. RemoteIsShared' /\ HeadIsOurs'
    BY <1>2, <1>3, <2>1, <2>3, <2>4 DEF RemoteIsShared, HeadIsOurs
  <2>7. LateIsHarmless'
    <3>1. ASSUME NEW other \in late, IsPrefix(branch, other) PROVE IsPrefix(other, head)
      <4>1. IsPrefix(remote, other)
        BY <1>1, <1>5, <3>1, PrefixesCompose
      <4>. QED
        BY <1>2, <4>1
    <3>. QED
      BY <1>3, <2>1, <3>1 DEF LateIsHarmless
  <2>8. Coherence'
    BY <1>2, <1>3, <2>1 DEF Coherence
  <2>. QED
    BY <2>5, <2>6, <2>7, <2>8 DEF Branching
<1>. QED
  BY <1>4, <1>5

LEMMA OthersBranches ==
  ASSUME PInv, OthersCommit
  PROVE  Branching'
<1>1. /\ remote \in Seq(Commits) /\ origin \in Seq(Commits) /\ head \in Seq(Commits)
      /\ \A branch \in late : branch \in Seq(Commits)
      /\ remote # <<>>
  BY BranchTypes
<1>2. UNCHANGED <<origin, head, late>>
  BY DEF OthersCommit, local
<1>3. PICK commit \in Commits :
        /\ remote' = Append(remote, commit) /\ commit.by # "publisher"
        /\ commit.feed \in {FeedOf(remote), Foreign}
  <2>1. /\ [by |-> "code", feed |-> FeedOf(remote)] \in Commits
        /\ [by |-> "subscription", feed |-> Foreign] \in Commits
    BY <1>1, TipsAreFeeds DEF Commits, Authors
  <2>. QED
    BY <2>1 DEF OthersCommit
<1>4. /\ IsPrefix(origin, remote) /\ Kept(remote, head) /\ Added(head, origin)
      /\ Coherent(remote) /\ Coherent(origin) /\ Coherent(head)
      /\ \A branch \in late : Coherent(branch)
      /\ \A branch \in late : IsPrefix(remote, branch) => IsPrefix(branch, head)
  BY DEF PInv, Branching, OriginIsBehind, RemoteIsShared, HeadIsOurs, LateIsHarmless,
         Coherence
<1>5. /\ remote' \in Seq(Commits) /\ Len(remote') = Len(remote) + 1 /\ Len(remote) \in Nat
      /\ \A i \in 1..Len(remote) : remote'[i] = remote[i]
      /\ remote'[Len(remote) + 1] = commit
  BY <1>1, <1>3, Appended
<1>6. IsPrefix(remote, remote') /\ IsPrefix(origin, remote')
  BY <1>1, <1>3, <1>4, <1>5, PrefixesCompose
<1>7. Kept(remote', head)
  <2>1. ASSUME NEW i \in 1..Len(remote'), remote'[i].by = "publisher"
        PROVE  Agree(remote', head, i)
    <3>1. i \in 1..Len(remote) /\ remote[i].by = "publisher" /\ i \in Nat
      BY <1>3, <1>5, <2>1
    <3>2. Agree(remote, head, i)
      BY <1>4, <3>1 DEF Kept
    <3>. QED
      BY <1>1, <1>5, <1>6, <3>1, <3>2, AgreementGrows
  <2>. QED
    BY <2>1 DEF Kept
<1>8. Coherent(remote')
  <2>1. Ours(remote') = Ours(remote)
    BY <1>1, <1>3, OursOfAppend
  <2>2. FeedOf(remote') \in {FeedOf(remote), Foreign}
    BY <1>1, <1>3, TipOfAppend
  <2>. QED
    BY <1>1, <1>4, <2>1, <2>2 DEF Coherent
<1>9. LateIsHarmless'
  <2>1. ASSUME NEW branch \in late, IsPrefix(remote', branch) PROVE IsPrefix(branch, head)
    <3>1. IsPrefix(remote, branch)
      BY <1>1, <1>5, <1>6, <2>1, PrefixesCompose
    <3>. QED
      BY <1>4, <3>1
  <2>. QED
    BY <1>2, <2>1 DEF LateIsHarmless
<1>10. OriginIsBehind' /\ RemoteIsShared' /\ HeadIsOurs' /\ Coherence'
  BY <1>2, <1>4, <1>6, <1>7, <1>8
     DEF OriginIsBehind, RemoteIsShared, HeadIsOurs, Coherence
<1>. QED
  BY <1>9, <1>10 DEF Branching

\* What a step does to the branches: one of the lemmas above covers it, or it
\* leaves them alone.
LEMMA StepsByBranch ==
  ASSUME PInv, [PNext]_pvars
  PROVE  \/ UNCHANGED <<remote, origin, head, late>>
         \/ repo # "ready" /\ Cloned /\ UNCHANGED <<remote, late>>
         \/ origin' = remote /\ UNCHANGED <<remote, head, late>>
         \/ Rebase \/ Commit \/ Push \/ PushFails
         \/ \E branch \in late : LatePush(branch)
         \/ OthersCommit
<1>1. CASE Tick \/ TickFails \/ CloneTimesOut \/ RebaseFails \/ Write \/ CountAhead
  BY <1>1 DEF Tick, TickFails, CloneTimesOut, RebaseFails, Write, CountAhead, local
<1>2. CASE Clone \/ LateClone
  BY <1>2 DEF Clone, LateClone, PInv, Placement
<1>3. CASE Fetch
  BY <1>3 DEF Fetch
<1>4. ASSUME NEW step \in {"clone", "fetch", "commit", "count"}, Fail(step)
      PROVE  UNCHANGED <<remote, origin, head, late>>
  BY <1>4 DEF Fail, local
<1>5. CASE LeasesChange \/ Crash
  BY <1>5 DEF LeasesChange, Crash, local
<1>6. CASE UNCHANGED pvars
  BY <1>6 DEF pvars, local
<1>. QED
  BY <1>1, <1>2, <1>3, <1>4, <1>5, <1>6 DEF PNext, Publish, Background, Outside

LEMMA BranchingStep == PInv /\ [PNext]_pvars => Branching'
<1>. SUFFICES ASSUME PInv, [PNext]_pvars PROVE Branching'
  OBVIOUS
<1>1. CASE UNCHANGED <<remote, origin, head, late>>
  BY <1>1 DEF PInv, Branching, OriginIsBehind, RemoteIsShared, HeadIsOurs,
              LateIsHarmless, Coherence
<1>2. CASE repo # "ready" /\ Cloned /\ UNCHANGED <<remote, late>>
  BY <1>2, ClonedBranches
<1>3. CASE origin' = remote /\ UNCHANGED <<remote, head, late>>
  BY <1>3, FetchedBranches
<1>4. CASE Rebase
  BY <1>4, RebasedBranches
<1>5. CASE Commit
  BY <1>5, CommittedBranches
<1>6. CASE Push
  BY <1>6, PushedBranches
<1>7. CASE PushFails
  BY <1>7, UnpushedBranches
<1>8. ASSUME NEW branch \in late, LatePush(branch) PROVE Branching'
  BY <1>8, LatePushedBranches
<1>9. CASE OthersCommit
  BY <1>9, OthersBranches
<1>. QED
  BY <1>1, <1>2, <1>3, <1>4, <1>5, <1>6, <1>7, <1>8, <1>9, StepsByBranch

\* Whatever is fetched, a rebase neither drops nor repeats a commit of ours.
LEMMA RebaseIsFaithful ==
  ASSUME PInv, Rebase
  PROVE  Ours(head') = Ours(head)
<1>1. /\ remote \in Seq(Commits) /\ origin \in Seq(Commits) /\ head \in Seq(Commits)
      /\ IsPrefix(origin, remote) /\ Kept(remote, head)
  BY BranchTypes DEF PInv, Branching, OriginIsBehind, RemoteIsShared
<1>2. Kept(origin, head)
  <2>1. Agree(origin, remote, Len(origin)) /\ Len(origin) \in Nat /\ Len(remote) \in Nat
    BY <1>1, PrefixIsAgreement
  <2>2. ASSUME NEW i \in 1..Len(origin), origin[i].by = "publisher"
        PROVE  Agree(origin, head, i)
    <3>1. i \in 1..Len(remote) /\ remote[i].by = "publisher" /\ i <= Len(origin)
      BY <2>1, <2>2 DEF Agree
    <3>2. Agree(remote, head, i)
      BY <1>1, <3>1 DEF Kept
    <3>. QED
      BY <2>1, <3>1, <3>2 DEF Agree
  <2>. QED
    BY <2>2 DEF Kept
<1>3. head' = Rebased(head, origin)
  BY DEF Rebase
<1>. QED
  BY <1>1, <1>2, <1>3, RebaseKeepsOurs

LEMMA CommitAddsTheJob ==
  ASSUME PInv, Commit
  PROVE  /\ IsPrefix(Ours(head), Ours(head'))
         /\ Ours(head') # <<>> /\ FeedOf(Ours(head')) = job
<1>. DEFINE commit == [by |-> "publisher", feed |-> tree]
<1>1. /\ head \in Seq(Commits) /\ commit \in Commits
      /\ commit.by = "publisher" /\ commit.feed = tree /\ head' = Append(head, commit)
  BY BranchTypes DEF Commit, PInv, PTypeOK, Commits, Authors
<1>2. tree = job
  BY DEF PInv, Rendered, Commit
<1>. HIDE DEF commit
<1>3. Ours(head') = Append(Ours(head), commit) /\ Ours(head) \in Seq(Commits)
  BY <1>1, OursOfAppend, OursAreCommits
<1>. QED
  BY <1>1, <1>2, <1>3, TipOfAppend, PrefixesCompose

LEMMA OursOnHead ==
  ASSUME PInv, [PNext]_pvars
  PROVE  /\ IsPrefix(Ours(head), Ours(head'))
         /\ Ours(head') = Ours(head) \/ Commit \/ repo # "ready"
<1>1. head \in Seq(Commits) /\ remote \in Seq(Commits)
  BY BranchTypes
<1>2. Ours(head) \in Seq(Commits) /\ IsPrefix(Ours(head), Ours(head))
  BY <1>1, OursAreCommits, PrefixesCompose
<1>3. CASE head' = head
  BY <1>2, <1>3
<1>4. CASE Rebase
  BY <1>2, <1>4, RebaseIsFaithful
<1>5. CASE Commit
  BY <1>5, CommitAddsTheJob
<1>6. CASE repo # "ready" /\ Cloned
  <2>1. head = <<>> /\ head' = remote
    BY <1>6 DEF Cloned, PInv, Placement
  <2>2. Ours(head) = <<>> /\ Ours(remote) \in Seq(Commits) /\ <<>> \in Seq(Commits)
    BY <1>1, <2>1, OursOfNothing, OursAreCommits
  <2>3. Agree(<<>>, Ours(remote), 0) /\ Len(<<>>) = 0
    BY <2>2 DEF Agree
  <2>4. IsPrefix(<<>>, Ours(remote))
    BY <2>2, <2>3, PrefixIsAgreement
  <2>. QED
    BY <1>6, <2>1, <2>2, <2>4
<1>7. head' = head \/ Rebase \/ Commit \/ (repo # "ready" /\ Cloned)
  BY StepsByBranch DEF Push, PushFails, LatePush, OthersCommit, local
<1>. QED
  BY <1>3, <1>4, <1>5, <1>6, <1>7

LEMMA RenderedStep == PInv /\ [PNext]_pvars => Rendered'
<1>. SUFFICES ASSUME PInv, [PNext]_pvars PROVE Rendered'
  OBVIOUS
<1>0. /\ Rendered /\ Placement /\ PTypeOK
  BY DEF PInv
<1>1. CASE Tick
  BY <1>0, <1>1 DEF Tick, End, Rendered, local, PTypeOK, Placement
<1>2. CASE TickFails
  BY <1>2 DEF TickFails, End, Rendered
<1>3. CASE Clone
  <2>1. ~retrying
    BY <1>0, <1>3, OursOfNothing DEF Clone, Rendered, Placement
  <2>. QED
    BY <1>3, <2>1 DEF Clone, Goto, Rendered
<1>4. CASE CloneTimesOut
  BY <1>4 DEF CloneTimesOut, End, Rendered
<1>5. CASE Fetch
  BY <1>0, <1>5 DEF Fetch, Goto, Rendered
<1>6. CASE Rebase
  <2>1. Ours(head') = Ours(head)
    BY <1>6, RebaseIsFaithful
  <2>2. /\ retrying' = retrying /\ job' = job /\ tree' = FeedOf(head')
        /\ pc' = IF retrying THEN "push" ELSE "write"
    BY <1>6 DEF Rebase, Goto
  <2>. QED
    BY <1>0, <2>1, <2>2 DEF Rendered, PTypeOK
<1>7. CASE RebaseFails
  BY <1>7 DEF RebaseFails, End, Rendered
<1>8. CASE Write
  <2>1. /\ tree = FeedOf(head) /\ job \in Feeds /\ repo = "ready" /\ head # <<>>
        /\ head' = head /\ job' = job /\ retrying' = retrying /\ tree' = job
        /\ pc' = IF job = tree THEN "count" ELSE "commit"
    BY <1>0, <1>8 DEF Write, Goto, Rendered, Placement, PTypeOK
  <2>2. job = tree => Ours(head) # <<>> /\ FeedOf(Ours(head)) = job
    BY <2>1, FeedsAreRenderings DEF PInv, Branching, Coherence, Coherent
  <2>. QED
    BY <1>0, <1>8, <2>1, <2>2 DEF Rendered, PTypeOK
<1>9. CASE Commit
  BY <1>9, CommitAddsTheJob DEF Commit, Goto, Rendered
<1>10. CASE CountAhead
  BY <1>0, <1>10 DEF CountAhead, End, Goto, Rendered, local
<1>11. CASE Push
  BY <1>11 DEF Push, End, Rendered
<1>12. CASE PushFails
  BY <1>0, <1>12 DEF PushFails, End, Rendered, local
<1>13. ASSUME NEW step \in {"clone", "fetch", "commit", "count"}, Fail(step)
       PROVE  Rendered'
  BY <1>13 DEF Fail, End, Rendered
<1>14. CASE LateClone
  <2>1. ~retrying /\ pc \notin {"write", "commit", "count", "push"}
    BY <1>0, <1>14, OursOfNothing DEF LateClone, Rendered, Placement
  <2>. QED
    BY <1>14, <2>1 DEF LateClone, Rendered, run
<1>15. ASSUME NEW branch \in late, LatePush(branch)
       PROVE  Rendered'
  BY <1>0, <1>15 DEF LatePush, Rendered, run
<1>16. CASE LeasesChange
  BY <1>0, <1>16 DEF LeasesChange, Rendered, local, run
<1>17. CASE OthersCommit
  BY <1>0, <1>17 DEF OthersCommit, Rendered, local, run
<1>18. CASE Crash
  BY <1>18 DEF Crash, End, Rendered
<1>19. CASE UNCHANGED pvars
  BY <1>0, <1>19 DEF pvars, Rendered, local, run
<1>. QED
  BY <1>1, <1>2, <1>3, <1>4, <1>5, <1>6, <1>7, <1>8, <1>9, <1>10, <1>11, <1>12,
     <1>13, <1>14, <1>15, <1>16, <1>17, <1>18, <1>19
     DEF PNext, Publish, Background, Outside

LEMMA PInvStep == PInv /\ [PNext]_pvars => PInv'
BY PTypeStep, PlacementStep, BranchingStep, RenderedStep DEF PInv

LEMMA PInvHolds == PSpec => []PInv
BY PInvInit, PInvStep, PTL DEF PSpec

(***************************************************************************)
(* The theorems.                                                           *)
(***************************************************************************)
\* The work tree, HEAD, the fetched branch and the shared one stay well-formed
\* wherever publish() fails, is cut off or races a push of its own: a repository
\* that is ready has a HEAD and an upstream (publisher/mod.rs).
THEOREM PublisherTypeCorrect == PSpec => []PTypeOK
<1>1. PInv => PTypeOK
  BY DEF PInv
<1>. QED
  BY <1>1, PInvHolds, PTL

\* Rebased, retried, late or cut short, a rendered commit is on the remote at
\* most once, in its order, and never one that HEAD does not have.
THEOREM OrderSound == PSpec => []PublishedInOrder
<1>1. PInv => PublishedInOrder
  BY BranchTypes, KeptIsPrefix DEF PInv, Branching, RemoteIsShared, PublishedInOrder
<1>. QED
  BY <1>1, PInvHolds, PTL

LEMMA TicksThatEndWell ==
  ASSUME PInv, [PNext]_pvars, pc # "idle", pc' = "idle", last' = "ok", budget' = budget
  PROVE  /\ IsPrefix(head, remote')
         /\ Ours(head) # <<>> /\ FeedOf(Ours(head)) = job
<1>1. /\ remote \in Seq(Commits) /\ origin \in Seq(Commits) /\ head \in Seq(Commits)
  BY BranchTypes
<1>2. CountAhead \/ Push
  <2>1. ~(Spend /\ budget' = budget)
    BY DEF Spend, PInv, PTypeOK
  <2>2. ~LeasesChange /\ ~OthersCommit /\ ~Crash
    BY <2>1 DEF LeasesChange, OthersCommit, Crash
  <2>3. ~Tick /\ ~TickFails /\ ~Clone /\ ~CloneTimesOut /\ ~Fetch /\ ~Rebase
        /\ ~RebaseFails /\ ~Write /\ ~Commit /\ ~PushFails
    BY DEF Tick, TickFails, Clone, CloneTimesOut, Fetch, Rebase, RebaseFails, Write,
           Commit, PushFails, End, Goto
  <2>4. ~\E step \in {"clone", "fetch", "commit", "count"} : Fail(step)
    BY DEF Fail, End
  <2>5. ~LateClone /\ ~(\E branch \in late : LatePush(branch)) /\ ~UNCHANGED pvars
    BY DEF LateClone, LatePush, run, pvars
  <2>. QED
    BY <2>2, <2>3, <2>4, <2>5 DEF PNext, Publish, Background, Outside
<1>3. Ours(head) # <<>> /\ FeedOf(Ours(head)) = job
  BY <1>2 DEF PInv, Rendered, CountAhead, Push
<1>4. CASE Push
  BY <1>1, <1>3, <1>4, PrefixesCompose DEF Push
<1>5. CASE CountAhead
  <2>1. Beyond(head, origin) = <<>> /\ remote' = remote
    BY <1>5 DEF CountAhead, Goto
  <2>2. IsPrefix(head, origin) /\ IsPrefix(origin, remote)
    BY <1>1, <2>1, BeyondTheShared DEF PInv, Branching, OriginIsBehind
  <2>. QED
    BY <1>1, <1>3, <2>1, <2>2, PrefixesCompose
<1>. QED
  BY <1>2, <1>4, <1>5

\* No failure and no race of a tick loses a rendered commit, and a tick that
\* says it went well has brought its rendering, and all that earlier ticks left
\* behind, to the remote.
THEOREM RenderingsSound == PSpec => RenderingsArePublished
<1>1. PInv /\ [PNext]_pvars
        => [/\ IsPrefix(Ours(head), Ours(head'))
            /\ (pc # "idle" /\ pc' = "idle" /\ last' = "ok" /\ budget' = budget)
                => /\ IsPrefix(head, remote')
                   /\ Ours(head) # <<>> /\ FeedOf(Ours(head)) = job]_pvars
  BY OursOnHead, TicksThatEndWell
<1>. QED
  BY <1>1, PInvHolds, PTL DEF PSpec, RenderingsArePublished

(***************************************************************************)
(* What FeedArrives excepts.                                               *)
(***************************************************************************)
\* a and b are the same for k commits, and differ in the next.
Part(a, b, k) == k < Len(a) /\ k < Len(b) /\ Agree(a, b, k) /\ a[k + 1] # b[k + 1]

LEMMA Parting ==
  ASSUME NEW a \in Seq(Commits), NEW b \in Seq(Commits), NEW k \in Nat
  PROVE  /\ Part(a, b, k) => Shared(a, b) = k
         /\ k = Shared(a, b) /\ k < Len(a) /\ k < Len(b) => Part(a, b, k)
<1>. DEFINE s == Shared(a, b)
<1>1. /\ s \in Nat /\ Agree(a, b, s)
      /\ \A n \in Nat : Agree(a, b, n) => n <= s
      /\ Len(a) \in Nat /\ Len(b) \in Nat
  BY SharedIsLongest
<1>. HIDE DEF s
<1>2. ASSUME Part(a, b, k) PROVE s = k
  <2>1. k <= s
    BY <1>1, <1>2 DEF Part
  <2>2. ~(k + 1 <= s)
    BY <1>1, <1>2 DEF Part, Agree
  <2>. QED
    BY <1>1, <2>1, <2>2
<1>3. ASSUME k = s, k < Len(a), k < Len(b) PROVE Part(a, b, k)
  <2>1. ~Agree(a, b, k + 1)
    BY <1>1, <1>3
  <2>2. \A i \in 1..k + 1 : i = k + 1 \/ i \in 1..k
    OBVIOUS
  <2>. QED
    BY <1>1, <1>3, <2>1, <2>2 DEF Part, Agree
<1>. QED
  BY <1>2, <1>3 DEF s

LEMMA ConflictIsParting ==
  ASSUME NEW a \in Seq(Commits), NEW b \in Seq(Commits)
  PROVE  Conflict(a, b) <=> \E k \in Nat : /\ Part(a, b, k)
                                           /\ \E i \in k + 1 .. Len(b) : b[i].by = "subscription"
<1>. DEFINE s == Shared(a, b)
<1>1. s \in Nat /\ s <= Len(a) /\ Len(a) \in Nat /\ Len(b) \in Nat
  BY SharedIsLongest DEF Agree
<1>2. Beyond(a, b) = <<>> <=> s = Len(a)
  <2>1. Len(Beyond(a, b)) = Len(a) - s /\ Beyond(a, b) \in Seq(Commits)
    BY BeyondTheShared
  <2>. HIDE DEF s
  <2>. QED
    BY <1>1, <2>1
<1>3. Conflict(a, b) <=> s < Len(a) /\ \E i \in s + 1 .. Len(b) : b[i].by = "subscription"
  <2>1. s # Len(a) <=> s < Len(a)
    BY <1>1
  <2>. QED
    BY <1>2, <2>1 DEF Conflict
<1>4. ASSUME NEW k \in Nat, Part(a, b, k) PROVE s = k /\ s < Len(a)
  BY <1>4, Parting DEF Part
<1>5. ASSUME s < Len(a), NEW i \in s + 1 .. Len(b) PROVE Part(a, b, s)
  <2>1. s < Len(b)
    BY <1>1
  <2>. QED
    BY <1>1, <1>5, <2>1, Parting
<1>. HIDE DEF s
<1>. QED
  BY <1>1, <1>3, <1>4, <1>5

LEMMA NoConflictAhead ==
  ASSUME NEW a \in Seq(Commits), NEW b \in Seq(Commits), IsPrefix(b, a)
  PROVE  ~Conflict(a, b)
<1>1. Agree(b, a, Len(b)) /\ Len(b) \in Nat
  BY PrefixIsAgreement
<1>2. ASSUME NEW k \in Nat, Part(a, b, k) PROVE FALSE
  <2>1. k + 1 \in 1..Len(b)
    BY <1>1, <1>2 DEF Part
  <2>. QED
    BY <1>1, <1>2, <2>1 DEF Part, Agree
<1>. QED
  BY <1>2, ConflictIsParting

\* What is added on either side settles no conflict.
LEMMA ConflictsLast ==
  ASSUME NEW a \in Seq(Commits), NEW b \in Seq(Commits), Conflict(a, b),
         NEW c \in Seq(Commits), NEW d \in Seq(Commits), IsPrefix(a, c), IsPrefix(b, d)
  PROVE  Conflict(c, d)
<1>0. PICK k \in Nat : /\ Part(a, b, k)
                      /\ \E i \in k + 1 .. Len(b) : b[i].by = "subscription"
  BY ConflictIsParting
<1>1. PICK i \in k + 1 .. Len(b) : Part(a, b, k) /\ b[i].by = "subscription"
  BY <1>0
<1>2. /\ Agree(a, c, Len(a)) /\ Agree(b, d, Len(b))
      /\ Len(a) \in Nat /\ Len(b) \in Nat /\ Len(c) \in Nat /\ Len(d) \in Nat
  BY PrefixIsAgreement
<1>3. Part(c, d, k)
  <2>1. \A j \in 1..k + 1 : j \in 1..Len(a) /\ j \in 1..Len(b)
    BY <1>1, <1>2 DEF Part
  <2>2. k + 1 \in 1..k + 1 /\ \A j \in 1..k : j \in 1..k + 1
    OBVIOUS
  <2>3. \A j \in 1..k + 1 : c[j] = a[j] /\ d[j] = b[j]
    BY <1>2, <2>1 DEF Agree
  <2>4. k < Len(c) /\ k < Len(d) /\ k <= Len(c) /\ k <= Len(d)
    BY <1>1, <1>2 DEF Part, Agree
  <2>. QED
    BY <1>1, <2>2, <2>3, <2>4 DEF Part, Agree
<1>4. i \in k + 1 .. Len(d) /\ d[i].by = "subscription"
  BY <1>1, <1>2 DEF Agree
<1>. QED
  BY <1>3, <1>4, ConflictIsParting

\* A rebase that succeeds, on a branch that others have moved on meanwhile.
LEMMA RebaseSettlesNothing ==
  ASSUME NEW r \in Seq(Commits), NEW h \in Seq(Commits), NEW o \in Seq(Commits),
         IsPrefix(o, r), Kept(r, h), Added(h, o), Conflict(h, r), ~Conflict(h, o)
  PROVE  Conflict(Rebased(h, o), r)
<1>0. PICK k \in Nat : /\ Part(h, r, k)
                      /\ \E i \in k + 1 .. Len(r) : r[i].by = "subscription"
  BY ConflictIsParting
<1>1. PICK i \in k + 1 .. Len(r) : Part(h, r, k) /\ r[i].by = "subscription"
  BY <1>0
<1>2. /\ Agree(o, r, Len(o))
      /\ Len(o) \in Nat /\ Len(r) \in Nat /\ Len(h) \in Nat
  BY PrefixIsAgreement
<1>3. CASE Len(o) <= k
  <2>1. Agree(o, h, Len(o))
    BY <1>1, <1>2, <1>3 DEF Part, Agree
  <2>. QED
    BY <2>1, PrefixIsAgreement, RebaseOntoOwn
<1>4. CASE k < Len(o)
  <2>. DEFINE g == Rebased(h, o)
              n == Len(o)
  <2>1. Part(h, o, k)
    BY <1>1, <1>2, <1>4 DEF Part, Agree
  <2>2. i > n
    <3>1. CASE i <= n
      <4>1. i \in k + 1 .. Len(o) /\ o[i].by = "subscription"
        BY <1>1, <1>2, <3>1 DEF Agree
      <4>. QED
        BY <2>1, <4>1, ConflictIsParting
    <3>. QED
      BY <1>1, <1>2, <3>1
  <2>3. /\ g \in Seq(Commits) /\ Len(g) = n + (Len(h) - k)
        /\ \A j \in 1..n : g[j] = o[j]
        /\ \A j \in n + 1..Len(g) : g[j] = h[k + (j - n)]
    <3>1. Shared(h, o) = k
      BY <2>1, Parting
    <3>2. LET branch == Rebased(h, o)
              s == Shared(h, o)
              m == Len(o) IN
          /\ branch \in Seq(Commits)
          /\ Len(branch) = m + (Len(h) - s)
          /\ \A j \in 1..m : branch[j] = o[j]
          /\ \A j \in m + 1..Len(branch) : branch[j] = h[s + (j - m)]
      BY RebasedCommits, Zenon
    <3>. QED
      BY <3>1, <3>2
  <2>4. h[k + 1].by = "publisher"
    <3>1. k + 1 \in 1..Len(h) /\ k + 1 \in 1..k + 1
      BY <1>1, <1>2 DEF Part
    <3>2. ~Agree(h, o, k + 1)
      BY <2>1, <3>1 DEF Part, Agree
    <3>. QED
      BY <3>1, <3>2 DEF Added
  <2>5. r[n + 1].by # "publisher"
    <3>1. n + 1 \in 1..Len(r) /\ k + 1 \in 1..n + 1
      BY <1>1, <1>2, <1>4, <2>2
    <3>2. ~Agree(r, h, n + 1)
      BY <1>1, <3>1 DEF Part, Agree
    <3>. QED
      BY <3>1, <3>2 DEF Kept
  <2>6. g[n + 1] = h[k + 1] /\ n < Len(g)
    <3>1. n + 1 \in n + 1..Len(g) /\ k + ((n + 1) - n) = k + 1 /\ n < Len(g)
      BY <1>1, <1>2, <2>3 DEF Part
    <3>. QED
      BY <2>3, <3>1
  <2>7. Agree(g, r, n)
    BY <1>2, <2>3, <2>6 DEF Agree
  <2>8. Part(g, r, n) /\ i \in n + 1 .. Len(r)
    <3>. HIDE DEF g
    <3>. QED
      BY <1>1, <1>2, <2>2, <2>4, <2>5, <2>6, <2>7 DEF Part
  <2>. HIDE DEF g
  <2>. QED
    BY <1>1, <1>2, <2>3, <2>8, ConflictIsParting DEF g
<1>. QED
  BY <1>1, <1>2, <1>3, <1>4

LEMMA ReadyStays ==
  ASSUME PInv, [PNext]_pvars, repo = "ready"
  PROVE  repo' = "ready"
<1>1. pc # "clone"
  BY DEF PInv, Placement
<1>2. ~Clone /\ ~CloneTimesOut /\ ~LateClone
  BY <1>1 DEF Clone, CloneTimesOut, LateClone
<1>3. CASE Publish
  BY <1>2, <1>3 DEF Publish, Tick, TickFails, Fetch, Rebase, RebaseFails, Write,
     Commit, CountAhead, Push, PushFails, Fail, local
<1>4. CASE Background \/ LeasesChange \/ OthersCommit \/ UNCHANGED pvars
  BY <1>2, <1>4 DEF Background, LatePush, LeasesChange, OthersCommit, local, pvars
<1>5. CASE Crash
  BY <1>1, <1>5 DEF Crash
<1>. QED
  BY <1>3, <1>4, <1>5 DEF PNext, Outside

LEMMA RemoteGrows ==
  ASSUME PInv, OthersCommit
  PROVE  \E commit \in Commits : commit.by # "publisher" /\ remote' = Append(remote, commit)
<1>1. FeedOf(remote) \in Renderings \cup {Foreign}
  BY BranchTypes, TipsAreFeeds DEF FeedOf
<1>2. /\ [by |-> "code", feed |-> FeedOf(remote)] \in Commits
      /\ [by |-> "subscription", feed |-> Foreign] \in Commits
  BY <1>1 DEF Commits, Authors
<1>. QED
  BY <1>2 DEF OthersCommit

LEMMA ConflictStays ==
  ASSUME PInv, [PNext]_pvars, repo = "ready", Conflict(head, remote)
  PROVE  repo' = "ready" /\ Conflict(head', remote')
<1>1. /\ remote \in Seq(Commits) /\ origin \in Seq(Commits) /\ head \in Seq(Commits)
      /\ \A branch \in late : branch \in Seq(Commits)
      /\ remote' \in Seq(Commits) /\ head' \in Seq(Commits)
  BY BranchTypes, PInvStep DEF PInv, PTypeOK
<1>2. repo' = "ready"
  BY ReadyStays
<1>3. CASE UNCHANGED << head, remote >>
  BY <1>2, <1>3
<1>4. CASE Rebase
  BY <1>1, <1>2, <1>4, RebaseSettlesNothing
     DEF Rebase, PInv, Branching, OriginIsBehind, RemoteIsShared, HeadIsOurs
<1>5. CASE Commit
  <2>1. /\ IsPrefix(head, head') /\ IsPrefix(remote, remote')
    BY <1>1, <1>5, PrefixesCompose DEF Commit, PTypeOK
  <2>. QED
    BY <1>1, <1>2, <2>1, ConflictsLast
<1>6. CASE Push
  BY <1>1, <1>6, NoConflictAhead DEF Push
<1>7. CASE OthersCommit
  <2>1. /\ IsPrefix(head, head') /\ IsPrefix(remote, remote')
    <3>1. PICK commit \in Commits : remote' = Append(remote, commit)
      BY <1>7, RemoteGrows
    <3>2. head' = head
      BY <1>7 DEF OthersCommit, local
    <3>3. /\ IsPrefix(head, head) /\ IsPrefix(remote, remote)
          /\ IsPrefix(remote, remote) => IsPrefix(remote, Append(remote, commit))
      BY <1>1, PrefixesCompose
    <3>. QED
      BY <3>1, <3>2, <3>3
  <2>. QED
    BY <1>1, <1>2, <2>1, ConflictsLast
<1>8. ASSUME NEW branch \in late, LatePush(branch) PROVE UNCHANGED << head, remote >>
  <2>1. ~IsPrefix(remote, branch)
    BY <1>1, NoConflictAhead, PrefixesCompose DEF PInv, Branching, LateIsHarmless
  <2>. QED
    BY <1>8, <2>1 DEF LatePush
<1>9. CASE PushFails
  BY <1>3, <1>9 DEF PushFails, local
<1>. QED
  BY <1>2, <1>3, <1>4, <1>5, <1>6, <1>7, <1>8, <1>9, StepsByBranch

(***************************************************************************)
(* Beyond hope: Stuck, also while a tick finds it out.                     *)
(***************************************************************************)
Littered == repo = "ready" /\ Dirty /\ pc \in {"idle", "fetch", "rebase"}

BeyondHope == repo = "broken" \/ Littered \/ (repo = "ready" /\ Conflict(head, remote))

LEMMA LitterStays ==
  ASSUME PInv, [PNext]_pvars, Littered
  PROVE  Littered'
<1>1. CASE Tick \/ TickFails \/ Fetch \/ RebaseFails \/ Fail("fetch")
  BY <1>1 DEF Littered, Dirty, Tick, TickFails, Fetch, RebaseFails, Fail, End, Goto, local
<1>2. ~Rebase
  BY DEF Littered, Rebase
<1>3. ~Clone /\ ~CloneTimesOut /\ ~Write /\ ~Commit /\ ~CountAhead /\ ~Push /\ ~PushFails
      /\ ~LateClone
  BY DEF Littered, Clone, CloneTimesOut, Write, Commit, CountAhead, Push, PushFails,
         LateClone
<1>4. ASSUME NEW step \in {"clone", "fetch", "commit", "count"}, Fail(step)
      PROVE  step = "fetch"
  BY <1>4 DEF Fail, Littered
<1>5. ASSUME NEW branch \in late, LatePush(branch) PROVE Littered'
  BY <1>5 DEF LatePush, Littered, Dirty, run
<1>6. CASE LeasesChange \/ OthersCommit \/ UNCHANGED pvars
  BY <1>6 DEF LeasesChange, OthersCommit, Littered, Dirty, run, local, pvars
<1>7. CASE Crash
  BY <1>7 DEF Crash, Littered, Dirty, End
<1>. QED
  BY <1>1, <1>2, <1>3, <1>4, <1>5, <1>6, <1>7 DEF PNext, Publish, Background, Outside

LEMMA HalfACloneStays ==
  ASSUME PInv, [PNext]_pvars, repo = "broken"
  PROVE  repo' = "broken"
<1>1. pc # "clone" /\ pc \notin {"rebase", "write", "commit", "count", "push"}
  BY DEF PInv, Placement
<1>2. ~Clone /\ ~CloneTimesOut /\ ~LateClone
  BY <1>1 DEF Clone, CloneTimesOut, LateClone
<1>3. CASE Publish
  BY <1>1, <1>2, <1>3 DEF Publish, Tick, TickFails, Fetch, Rebase, RebaseFails, Write,
     Commit, CountAhead, Push, PushFails, Fail, local
<1>4. CASE Background \/ LeasesChange \/ OthersCommit \/ UNCHANGED pvars
  BY <1>2, <1>4 DEF Background, LatePush, LeasesChange, OthersCommit, local, pvars
<1>5. CASE Crash
  BY <1>1, <1>5 DEF Crash
<1>. QED
  BY <1>3, <1>4, <1>5 DEF PNext, Outside

LEMMA NothingOfOursArrives ==
  ASSUME PInv, [PNext]_pvars, BeyondHope, ~\E branch \in late : LatePush(branch)
  PROVE  Ours(remote') = Ours(remote)
<1>1. /\ remote \in Seq(Commits) /\ head \in Seq(Commits) /\ remote # <<>>
  BY BranchTypes
<1>2. ~Push
  <2>1. ASSUME Push PROVE repo = "ready" /\ pc = "push" /\ IsPrefix(remote, head)
    BY <2>1 DEF Push, PInv, Placement
  <2>. QED
    BY <1>1, <2>1, NoConflictAhead DEF BeyondHope, Littered
<1>3. CASE OthersCommit
  <2>1. PICK commit \in Commits : commit.by # "publisher" /\ remote' = Append(remote, commit)
    BY <1>3, RemoteGrows
  <2>. QED
    BY <1>1, <2>1, OursOfAppend
<1>4. CASE Rebase \/ Commit \/ PushFails
  BY <1>4 DEF Rebase, Commit, PushFails
<1>. QED
  BY <1>2, <1>3, <1>4, StepsByBranch

\* What FeedArrives excepts is final: half a clone, a rendering that was written
\* and not committed, and an unpushed commit that conflicts with the remote stay
\* whatever ticks, restarts and others do, and from then on nothing of ours
\* reaches the remote but a push that was already under way
\* (publisher/mod.rs 58, 118, 147).
THEOREM StuckForGood ==
  PSpec => /\ [](Stuck => BeyondHope)
           /\ [][/\ BeyondHope => BeyondHope'
                 /\ BeyondHope /\ ~(\E branch \in late : LatePush(branch))
                      => Ours(remote') = Ours(remote)]_pvars
<1>1. Stuck => BeyondHope
  BY DEF Stuck, BeyondHope, Littered
<1>2. PInv /\ [PNext]_pvars
        => [/\ BeyondHope => BeyondHope'
            /\ BeyondHope /\ ~(\E branch \in late : LatePush(branch))
                 => Ours(remote') = Ours(remote)]_pvars
  BY ConflictStays, LitterStays, HalfACloneStays, NothingOfOursArrives DEF BeyondHope
<1>. QED
  BY <1>1, <1>2, PInvHolds, PTL DEF PSpec
==============================================================================
