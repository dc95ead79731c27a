----------------------- MODULE UpstreamRefresh_proofs -----------------------
(***************************************************************************)
(* Theorems about UpstreamRefresh, for any sources, bodies and proxies and *)
(* any number of absences before retirement: the types, what a refresh may *)
(* count absent, when validators and memberships part, and that it is the  *)
(* refresh of module Fleet.                                                *)
(***************************************************************************)
EXTENDS UpstreamRefresh, TLAPS

(***************************************************************************)
(* One statement on one row that was never imported by hand.               *)
(***************************************************************************)
LEMMA CopiedRow ==
  ASSUME NEW r \in Rows, ~r.manual
  PROVE  /\ Copied(r) \in Rows /\ ~Copied(r).manual
         /\ Copied(r).state = r.state
         /\ r.state # Absent => Copied(r).seen
         /\ r.seen => Copied(r).seen
         /\ Copied(r).missing \in {0, r.missing}
<1>1. CASE r.state = Absent
  BY <1>1 DEF Copied, Rows
<1>2. CASE r.state # Absent
  <2>1. 0 \in 0..RetireAfter
    BY RetireAfterAssumption
  <2>. QED
    BY <1>2, <2>1 DEF Copied, Rows
<1>. QED
  BY <1>1, <1>2

LEMMA IngestedRow ==
  ASSUME NEW r \in Rows, ~r.manual
  PROVE  /\ Ingested(r, FALSE) \in Rows /\ ~Ingested(r, FALSE).manual
         /\ Ingested(r, FALSE).seen
         /\ Ingested(r, FALSE).missing = 0
<1>0. 0 \in 0..RetireAfter
  BY RetireAfterAssumption
<1>1. CASE r.state = Absent
  BY <1>0, <1>1 DEF Ingested, Rows, States, Lifecycles, Null, Absent, NewRow, NoRow
<1>2. CASE r.state # Absent
  <2>. DEFINE state == IF r.state = "RETIRED" THEN "CANDIDATE" ELSE r.state
  <2>1. Ingested(r, FALSE) =
          [r EXCEPT !.seen = ~FALSE, !.manual = r.manual \/ FALSE, !.missing = 0, !.state = state]
    BY <1>2 DEF Ingested
  <2>2. state \in States
    BY DEF Rows, States, Lifecycles
  <2>. HIDE DEF state
  <2>. QED
    BY <1>0, <2>1, <2>2 DEF Rows
<1>. QED
  BY <1>1, <1>2

LEMMA MissedRow ==
  ASSUME NEW r \in Rows, ~r.manual
  PROVE  /\ Missed(r) \in Rows /\ ~Missed(r).manual
         /\ Missed(r).seen = r.seen /\ Missed(r).state = r.state
         /\ Missed(r).missing > r.missing => r.state # Absent /\ ~r.seen
         /\ r.state # Absent /\ ~r.seen /\ r.missing < RetireAfter
              => Missed(r).missing = r.missing + 1
<1>1. CASE r.state # Absent /\ ~r.seen /\ ~r.manual /\ r.missing < RetireAfter
  <2>1. r.missing + 1 \in 0..RetireAfter
    BY <1>1, RetireAfterAssumption DEF Rows
  <2>. QED
    BY <1>1, <2>1 DEF Missed, Rows
<1>2. CASE ~(r.state # Absent /\ ~r.seen /\ ~r.manual /\ r.missing < RetireAfter)
  BY <1>2 DEF Missed, Rows
<1>. QED
  BY <1>1, <1>2

LEMMA ReconciledRow ==
  ASSUME NEW r \in Rows, ~r.manual, NEW aged \in BOOLEAN
  PROVE  /\ Reconciled(r, aged) \in Rows /\ ~Reconciled(r, aged).manual
         /\ Reconciled(r, aged).missing > r.missing => r.state # Absent /\ ~r.seen
         /\ r.state # Absent /\ ~r.seen /\ r.missing < RetireAfter
              => Reconciled(r, aged).missing = r.missing + 1
<1>. DEFINE m == Missed(r)
<1>1. /\ m \in Rows /\ ~m.manual
      /\ m.missing > r.missing => r.state # Absent /\ ~r.seen
      /\ r.state # Absent /\ ~r.seen /\ r.missing < RetireAfter => m.missing = r.missing + 1
  BY MissedRow
<1>2. Reconciled(r, aged) = [m EXCEPT !.state = "RETIRED"] \/ Reconciled(r, aged) = m
  BY DEF Reconciled
<1>. HIDE DEF m
<1>3. /\ [m EXCEPT !.state = "RETIRED"] \in Rows
      /\ [m EXCEPT !.state = "RETIRED"].manual = m.manual
      /\ [m EXCEPT !.state = "RETIRED"].missing = m.missing
  BY <1>1 DEF Rows, States, Lifecycles
<1>. QED
  BY <1>1, <1>2, <1>3

(***************************************************************************)
(* Types.                                                                  *)
(***************************************************************************)
\* No row is a manual import: those are in module Fleet.
NoneManual == \A p \in Proxies : ~row[p].manual

Typed == TypeOK /\ NoneManual

LEMMA NothingTyped ==
  /\ Nothing \in [Sources -> BodyOrNone]
  /\ Nothing \in Memberships
BY DEF Nothing, BodyOrNone, Memberships

LEMMA InitTyped == Init => Typed
<1>. SUFFICES ASSUME Init PROVE Typed
  OBVIOUS
<1>1. NoRow \in Rows /\ ~NoRow.manual
  BY RetireAfterAssumption DEF NoRow, Rows, States, Lifecycles, Null, Absent
<1>. QED
  BY <1>1, NothingTyped DEF Init, Typed, TypeOK, NoneManual, Phases

\* The rows after a step that rewrites them all.
RowsTyped(rows) == rows \in [Proxies -> Rows] /\ \A p \in Proxies : ~rows[p].manual

LEMMA TypeStep == Typed /\ [Next]_vars => Typed'
<1>. SUFFICES ASSUME Typed, [Next]_vars PROVE Typed'
  OBVIOUS
<1>. USE DEF Phases
<1>1. \A p \in Proxies : row[p] \in Rows /\ ~row[p].manual
  BY DEF Typed, TypeOK, NoneManual
<1>2. ASSUME NEW s \in Sources, NEW body \in Bodies, Edit(s, body) PROVE Typed'
  BY <1>2 DEF Edit, Typed, TypeOK, NoneManual
<1>3. CASE Begin
  <2>1. \A p \in Proxies : [row[p] EXCEPT !.seen = FALSE] \in Rows
                           /\ ~[row[p] EXCEPT !.seen = FALSE].manual
    BY <1>1 DEF Rows
  <2>2. RowsTyped(row')
    BY <1>3, <2>1 DEF Begin, RowsTyped
  <2>3. earlier' \in Memberships
    BY <1>3 DEF Begin, Typed, TypeOK, Memberships
  <2>. QED
    BY <1>3, <2>2, <2>3, NothingTyped DEF Begin, RowsTyped, Typed, TypeOK, NoneManual
<1>4. ASSUME NEW s \in Sources, SourceFails(s) PROVE Typed'
  BY <1>4 DEF SourceFails, Typed, TypeOK, NoneManual
<1>5. ASSUME NEW s \in Sources, NEW tagged \in BOOLEAN, SourceBody(s, tagged) PROVE Typed'
  <2>1. list[s] \in Bodies /\ list[s] \in SUBSET Proxies /\ {list[s]} \in BodyOrNone
    BY UpstreamConstants DEF Typed, TypeOK, BodyOrNone
  <2>2. etag' \in [Sources -> BodyOrNone] /\ answered' \in [Sources -> BodyOrNone]
    BY <1>5, <2>1 DEF SourceBody, Typed, TypeOK
  <2>3. parsed' \in Memberships
    BY <1>5, <2>1 DEF SourceBody, Typed, TypeOK, Memberships
  <2>. QED
    BY <1>5, <2>2, <2>3 DEF SourceBody, Typed, TypeOK, NoneManual
<1>6. ASSUME NEW s \in Sources, SourceNotModified(s) PROVE Typed'
  <2>1. {list[s]} \in BodyOrNone
    BY DEF Typed, TypeOK, BodyOrNone
  <2>2. answered' \in [Sources -> BodyOrNone]
    BY <1>6, <2>1 DEF SourceNotModified, Typed, TypeOK
  <2>3. members' \in Memberships
    BY <1>6 DEF SourceNotModified, Carried, Typed, TypeOK, Memberships
  <2>4. RowsTyped(row')
    BY <1>1, <1>6, CopiedRow DEF SourceNotModified, RowsTyped
  <2>. QED
    BY <1>6, <2>2, <2>3, <2>4 DEF SourceNotModified, RowsTyped, Typed, TypeOK, NoneManual
<1>7. CASE Ingest
  <2>1. members' \in Memberships
    BY <1>7 DEF Ingest, Typed, TypeOK, Memberships
  <2>2. RowsTyped(row')
    BY <1>1, <1>7, IngestedRow DEF Ingest, RowsTyped
  <2>. QED
    BY <1>7, <2>1, <2>2 DEF Ingest, RowsTyped, Typed, TypeOK, NoneManual
<1>8. CASE Record
  BY <1>8 DEF Record, Typed, TypeOK, NoneManual
<1>9. ASSUME NEW aged \in SUBSET Proxies, Reconcile(aged) PROVE Typed'
  <2>1. RowsTyped(row')
    <3>1. ASSUME NEW p \in Proxies
          PROVE  /\ Reconciled(row[p], p \in aged) \in Rows
                 /\ ~Reconciled(row[p], p \in aged).manual
      <4>1. (p \in aged) \in BOOLEAN
        OBVIOUS
      <4>. QED
        BY <1>1, <4>1, ReconciledRow
    <3>2. row' = [p \in Proxies |-> Reconciled(row[p], p \in aged)]
      BY <1>9 DEF Reconcile
    <3>. QED
      BY <3>1, <3>2 DEF RowsTyped
  <2>. QED
    BY <1>9, <2>1 DEF Reconcile, RowsTyped, Typed, TypeOK, NoneManual
<1>10. CASE Abandon
  BY <1>10, NothingTyped DEF Abandon, Typed, TypeOK, NoneManual
<1>11. CASE UNCHANGED vars
  BY <1>11 DEF vars, Typed, TypeOK, NoneManual
<1>. QED
  BY <1>2, <1>3, <1>4, <1>5, <1>6, <1>7, <1>8, <1>9, <1>10, <1>11 DEF Next, SourceAnswers

\* The types of the refresh, of its generations and of the rows it writes.
THEOREM TypeCorrect == Spec => []TypeOK
<1>1. Init => Typed
  BY InitTyped
<1>2. Typed /\ [Next]_vars => Typed'
  BY TypeStep
<1>3. Typed => TypeOK
  BY DEF Typed
<1>. QED
  BY <1>1, <1>2, <1>3, PTL DEF Spec

(***************************************************************************)
(* What has become of every source: it has not answered, it has sent a     *)
(* body (in memory, from Ingest on also a membership), or it has answered  *)
(* 304, and has the membership of its last generation and the body of its  *)
(* validators.                                                             *)
(***************************************************************************)
Silent(s) == answered[s] = {} /\ parsed[s] = {} /\ members[s] = {}

ByBody(s) ==
  /\ answered[s] = {parsed[s]}
  /\ members[s] = IF phase = "fetching" THEN {} ELSE parsed[s]

ByTag(s) ==
  /\ answered[s] # {} /\ answered[s] = etag[s]
  /\ parsed[s] = {} /\ members[s] = earlier[s]

\* A refresh that is over leaves bodies in memory, or the membership they became.
Sorted ==
  /\ phase # "idle" => \A s \in Sources : /\ Silent(s) \/ ByBody(s) \/ ByTag(s)
                                          /\ s \in awaited => Silent(s)
  /\ phase = "idle" => \A s \in Sources : parsed[s] \in {{}, members[s]}
  /\ phase \in {"ingested", "recorded"} => awaited = {}
  /\ phase = "recorded" => failed = {}
  /\ \A s \in Sources \ Tagged : etag[s] = {}

LEMMA SortedStep == Typed /\ Sorted /\ [Next]_vars => Sorted'
<1>. SUFFICES ASSUME Typed, Sorted, [Next]_vars PROVE Sorted'
  OBVIOUS
<1>1. /\ parsed \in [Sources -> SUBSET Proxies] /\ members \in [Sources -> SUBSET Proxies]
      /\ earlier \in [Sources -> SUBSET Proxies]
      /\ answered \in [Sources -> BodyOrNone] /\ etag \in [Sources -> BodyOrNone]
      /\ phase \in Phases
  BY DEF Typed, TypeOK, Memberships
<1>2. ASSUME \/ \E s \in Sources, body \in Bodies : Edit(s, body)
             \/ \E aged \in SUBSET Proxies : Reconcile(aged)
             \/ \E s \in Sources : SourceFails(s)
             \/ Record \/ UNCHANGED vars
      PROVE  Sorted'
  <2>1. CASE (\E s \in Sources, body \in Bodies : Edit(s, body)) \/ UNCHANGED vars
    BY <2>1 DEF Edit, vars, Sorted, Silent, ByBody, ByTag
  <2>2. CASE \E s \in Sources : SourceFails(s)
    BY <2>2 DEF SourceFails, Sorted, Silent, ByBody, ByTag
  <2>3. CASE (\E aged \in SUBSET Proxies : Reconcile(aged)) \/ Record
    <3>1. /\ phase \in {"ingested", "recorded"} /\ phase' \in {"recorded", "idle"}
          /\ phase' = "recorded" => failed' = {}
          /\ UNCHANGED << etag, members, earlier, awaited, parsed, answered >>
      BY <2>3 DEF Reconcile, Record, Complete
    <3>2. \A s \in Sources : parsed[s] \in {{}, members[s]}
      BY <3>1 DEF Sorted, Silent, ByBody, ByTag
    <3>3. \A s \in Sources : (Silent(s) \/ ByBody(s) \/ ByTag(s))'
      BY <3>1 DEF Sorted, Silent, ByBody, ByTag
    <3>. QED
      BY <3>1, <3>2, <3>3 DEF Sorted
  <2>. QED
    BY <1>2, <2>1, <2>2, <2>3
<1>3. CASE Begin
  <2>1. \A s \in Sources : Silent(s)'
    BY <1>3 DEF Begin, Silent, Nothing
  <2>. QED
    BY <1>3, <2>1 DEF Begin, Sorted
<1>4. ASSUME NEW s \in Sources, NEW tagged \in BOOLEAN, SourceBody(s, tagged) PROVE Sorted'
  <2>1. /\ phase = "fetching" /\ Silent(s) /\ s \in awaited
        /\ UNCHANGED << members, earlier, phase, failed >>
        /\ awaited' = awaited \ {s}
    BY <1>4 DEF SourceBody, Sorted
  <2>2. /\ parsed'[s] = list[s] /\ answered'[s] = {list[s]}
        /\ \A z \in Sources \ {s} :
             parsed'[z] = parsed[z] /\ answered'[z] = answered[z] /\ etag'[z] = etag[z]
    BY <1>1, <1>4 DEF SourceBody
  <2>3. ByBody(s)'
    BY <2>1, <2>2 DEF ByBody, Silent
  <2>4. \A z \in Sources \ {s} :
          (Silent(z)' <=> Silent(z)) /\ (ByBody(z)' <=> ByBody(z)) /\ (ByTag(z)' <=> ByTag(z))
    BY <2>1, <2>2 DEF Silent, ByBody, ByTag
  <2>5. \A z \in Sources \ Tagged : etag'[z] = {}
    BY <1>1, <1>4 DEF SourceBody, Sorted
  <2>. QED
    BY <2>1, <2>3, <2>4, <2>5 DEF Sorted
<1>5. ASSUME NEW s \in Sources, SourceNotModified(s) PROVE Sorted'
  <2>1. /\ phase = "fetching" /\ Silent(s) /\ s \in awaited
        /\ UNCHANGED << etag, earlier, phase, failed, parsed >>
        /\ awaited' = awaited \ {s}
    BY <1>5 DEF SourceNotModified, Sorted
  <2>2. /\ members'[s] = earlier[s] /\ answered'[s] = {list[s]}
        /\ \A z \in Sources \ {s} : members'[z] = members[z] /\ answered'[z] = answered[z]
    BY <1>1, <1>5 DEF SourceNotModified, Carried
  <2>3. etag[s] = {list[s]}
    BY <1>1, <1>5 DEF SourceNotModified, Unmodified, BodyOrNone
  <2>4. ByTag(s)'
    BY <2>1, <2>2, <2>3 DEF ByTag, Silent
  <2>5. \A z \in Sources \ {s} :
          (Silent(z)' <=> Silent(z)) /\ (ByBody(z)' <=> ByBody(z)) /\ (ByTag(z)' <=> ByTag(z))
    BY <2>1, <2>2 DEF Silent, ByBody, ByTag
  <2>. QED
    BY <2>1, <2>4, <2>5 DEF Sorted
<1>6. CASE Ingest
  <2>1. /\ phase = "fetching" /\ phase' = "ingested" /\ awaited = {}
        /\ UNCHANGED << etag, earlier, awaited, failed, parsed, answered >>
        /\ \A s \in Sources : members'[s] = members[s] \cup parsed[s]
    BY <1>1, <1>6 DEF Ingest
  <2>2. ASSUME NEW s \in Sources PROVE (Silent(s) \/ ByBody(s) \/ ByTag(s))'
    BY <2>1 DEF Sorted, Silent, ByBody, ByTag
  <2>. QED
    BY <2>1, <2>2 DEF Sorted
<1>7. CASE Abandon
  BY <1>7 DEF Abandon, Sorted, Nothing
<1>. QED
  BY <1>2, <1>3, <1>4, <1>5, <1>6, <1>7 DEF Next, SourceAnswers

LEMMA SortedInit == Init => Sorted
BY DEF Init, Sorted, Nothing
(***************************************************************************)
(* Absences.  In a refresh, the rows that are marked as seen are members   *)
(* of some source's generation, and the members that are known are marked. *)
(***************************************************************************)
Marked ==
  phase # "idle" =>
    /\ \A p \in Proxies : row[p].seen => \E s \in Sources : p \in members[s]
    /\ \A p \in Proxies, s \in Sources :
         p \in members[s] /\ row[p].state # Absent => row[p].seen

LEMMA MarkedStep == Typed /\ Sorted /\ Marked /\ [Next]_vars => Marked'
<1>. SUFFICES ASSUME Typed, Sorted, Marked, [Next]_vars PROVE Marked'
  OBVIOUS
<1>1. /\ parsed \in [Sources -> SUBSET Proxies] /\ members \in [Sources -> SUBSET Proxies]
      /\ row \in [Proxies -> Rows] /\ \A p \in Proxies : row[p] \in Rows /\ ~row[p].manual
  BY DEF Typed, TypeOK, Memberships, NoneManual
<1>2. ASSUME phase # "idle" \/ phase' = "idle", UNCHANGED << row, members >> PROVE Marked'
  BY <1>2 DEF Marked
<1>3. CASE \/ \E s \in Sources, body \in Bodies : Edit(s, body)
           \/ \E aged \in SUBSET Proxies : Reconcile(aged)
           \/ \E s \in Sources : SourceFails(s) \/ (\E tagged \in BOOLEAN : SourceBody(s, tagged))
           \/ Record \/ Abandon \/ UNCHANGED vars
  <2>1. CASE \/ \E s \in Sources : SourceFails(s) \/ (\E tagged \in BOOLEAN : SourceBody(s, tagged))
             \/ Record \/ Abandon
    BY <1>2, <2>1 DEF SourceFails, SourceBody, Record, Abandon
  <2>2. CASE (\E s \in Sources, body \in Bodies : Edit(s, body)) \/ UNCHANGED vars
    BY <2>2 DEF Edit, vars, Marked
  <2>3. CASE \E aged \in SUBSET Proxies : Reconcile(aged)
    BY <2>3 DEF Reconcile, Marked
  <2>. QED
    BY <1>3, <2>1, <2>2, <2>3
<1>4. CASE Begin
  <2>1. \A p \in Proxies : ~row'[p].seen
    BY <1>1, <1>4 DEF Begin, Rows
  <2>2. \A s \in Sources : members'[s] = {}
    BY <1>4 DEF Begin, Nothing
  <2>. QED
    BY <2>1, <2>2 DEF Marked
<1>5. ASSUME NEW s \in Sources, SourceNotModified(s) PROVE Marked'
  <2>1. phase = "fetching" /\ members[s] = {}
    BY <1>5 DEF SourceNotModified, Sorted, Silent
  <2>2. /\ members'[s] = earlier[s] /\ \A z \in Sources \ {s} : members'[z] = members[z]
        /\ \A p \in Proxies : row'[p] = IF p \in earlier[s] THEN Copied(row[p]) ELSE row[p]
    BY <1>1, <1>5 DEF SourceNotModified, Carried
  <2>3. ASSUME NEW p \in Proxies, row'[p].seen PROVE \E z \in Sources : p \in members'[z]
    <3>1. CASE p \in earlier[s]
      BY <2>2, <3>1
    <3>2. CASE p \notin earlier[s]
      <4>1. PICK z \in Sources : p \in members[z]
        BY <2>1, <2>2, <2>3, <3>2 DEF Marked
      <4>. QED
        BY <2>1, <2>2, <4>1
    <3>. QED
      BY <3>1, <3>2
  <2>4. ASSUME NEW p \in Proxies, NEW z \in Sources, p \in members'[z], row'[p].state # Absent
        PROVE  row'[p].seen
    <3>1. CASE p \in earlier[s]
      BY <1>1, <2>2, <2>4, <3>1, CopiedRow
    <3>2. CASE p \notin earlier[s]
      BY <2>1, <2>2, <2>4, <3>2 DEF Marked
    <3>. QED
      BY <3>1, <3>2
  <2>. QED
    BY <2>3, <2>4 DEF Marked
<1>6. CASE Ingest
  <2>1. /\ phase = "fetching"
        /\ \A s \in Sources : members'[s] = members[s] \cup parsed[s]
        /\ \A p \in Proxies :
             row'[p] = IF p \in Fetched THEN Ingested(row[p], FALSE) ELSE row[p]
    BY <1>1, <1>6 DEF Ingest
  <2>2. ASSUME NEW p \in Proxies, row'[p].seen PROVE \E z \in Sources : p \in members'[z]
    <3>1. CASE p \in Fetched
      BY <2>1, <3>1 DEF Fetched
    <3>2. CASE p \notin Fetched
      <4>1. PICK z \in Sources : p \in members[z]
        BY <2>1, <2>2, <3>2 DEF Marked
      <4>. QED
        BY <2>1, <4>1
    <3>. QED
      BY <3>1, <3>2
  <2>3. ASSUME NEW p \in Proxies, NEW z \in Sources, p \in members'[z], row'[p].state # Absent
        PROVE  row'[p].seen
    <3>1. CASE p \in Fetched
      BY <1>1, <2>1, <3>1, IngestedRow
    <3>2. CASE p \notin Fetched
      <4>1. p \in members[z]
        BY <2>1, <2>3, <3>2 DEF Fetched
      <4>. QED
        BY <2>1, <2>3, <3>2, <4>1 DEF Marked
    <3>. QED
      BY <3>1, <3>2
  <2>. QED
    BY <2>2, <2>3 DEF Marked
<1>. QED
  BY <1>3, <1>4, <1>5, <1>6 DEF Next, SourceAnswers

IInv == Typed /\ Sorted /\ Marked

LEMMA Inductive == (Init => IInv) /\ (IInv /\ [Next]_vars => IInv')
<1>1. Init => Marked
  BY DEF Init, Marked
<1>. QED
  BY <1>1, InitTyped, SortedInit, TypeStep, SortedStep, MarkedStep DEF IInv

\* As long as no validators have parted from their membership, what the sources
\* answered is what they are members of, once everything is ingested.
LEMMA AnsweredAreMembers ==
  ASSUME IInv, InStep, phase = "recorded", NEW p \in Proxies
  PROVE  p \in Answered <=> \E s \in Sources : p \in members[s]
<1>1. ASSUME NEW s \in Sources PROVE \A body \in answered[s] : body = members[s]
  <2>1. CASE Silent(s) \/ ByBody(s)
    BY <2>1 DEF Silent, ByBody
  <2>2. CASE ByTag(s)
    BY <2>2 DEF ByTag, InStep, Newest
  <2>. QED
    BY <2>1, <2>2 DEF IInv, Sorted
<1>2. ASSUME NEW s \in Sources PROVE members[s] # {} => answered[s] # {}
  BY DEF IInv, Sorted, Silent, ByBody, ByTag
<1>3. p \in Answered <=> \E s \in Sources : \E body \in answered[s] : p \in body
  BY DEF Answered
<1>. QED
  BY <1>1, <1>2, <1>3

LEMMA AbsencesStep ==
  ASSUME IInv, [Next]_vars, InStep, NEW p \in Proxies
  PROVE  /\ row'[p].missing > row[p].missing => p \notin Answered
         /\ (\E aged \in SUBSET Proxies : Reconcile(aged))
              /\ row[p].state # Absent /\ row[p].missing < RetireAfter /\ p \notin Answered
              => row'[p].missing = row[p].missing + 1
<1>1. row \in [Proxies -> Rows] /\ row[p] \in Rows /\ ~row[p].manual
  BY DEF IInv, Typed, TypeOK, NoneManual
<1>2. ASSUME NEW aged \in SUBSET Proxies, Reconcile(aged)
      PROVE  /\ row'[p].missing > row[p].missing => p \notin Answered
             /\ row[p].state # Absent /\ row[p].missing < RetireAfter /\ p \notin Answered
                  => row'[p].missing = row[p].missing + 1
  <2>1. phase = "recorded" /\ row'[p] = Reconciled(row[p], p \in aged) /\ (p \in aged) \in BOOLEAN
    BY <1>2 DEF Reconcile
  <2>2. /\ row'[p].missing > row[p].missing => row[p].state # Absent /\ ~row[p].seen
        /\ row[p].state # Absent /\ ~row[p].seen /\ row[p].missing < RetireAfter
             => row'[p].missing = row[p].missing + 1
    BY <1>1, <2>1, ReconciledRow
  <2>3. /\ row[p].state # Absent => (p \in Answered <=> row[p].seen)
    BY <2>1, AnsweredAreMembers DEF IInv, Marked
  <2>. QED
    BY <2>2, <2>3
<1>3. ASSUME ~\E aged \in SUBSET Proxies : Reconcile(aged)
      PROVE  ~(row'[p].missing > row[p].missing)
  <2>1. row[p].missing \in Nat /\ RetireAfter \in Nat
    BY <1>1, RetireAfterAssumption DEF Rows
  <2>2. CASE row'[p] = row[p]
    BY <2>1, <2>2
  <2>3. CASE row'[p] = [row[p] EXCEPT !.seen = FALSE]
    BY <1>1, <2>1, <2>3 DEF Rows
  <2>4. CASE row'[p] = Copied(row[p]) \/ row'[p] = Ingested(row[p], FALSE)
    <3>1. Copied(row[p]).missing \in {0, row[p].missing} /\ Ingested(row[p], FALSE).missing = 0
      BY <1>1, CopiedRow, IngestedRow
    <3>2. row'[p].missing \in {0, row[p].missing}
      BY <2>4, <3>1
    <3>. QED
      BY <2>1, <3>2
  <2>5. \/ row'[p] = row[p] \/ row'[p] = [row[p] EXCEPT !.seen = FALSE]
        \/ row'[p] = Copied(row[p]) \/ row'[p] = Ingested(row[p], FALSE)
    <3>1. CASE Begin
      BY <3>1 DEF Begin
    <3>2. CASE Ingest
      BY <3>2 DEF Ingest
    <3>3. CASE \E s \in Sources : SourceNotModified(s)
      BY <3>3 DEF SourceNotModified
    <3>4. CASE \/ \E s \in Sources, body \in Bodies : Edit(s, body)
               \/ \E s \in Sources : SourceFails(s) \/ (\E tagged \in BOOLEAN : SourceBody(s, tagged))
               \/ Record \/ Abandon \/ UNCHANGED vars
      BY <3>4 DEF Edit, SourceBody, SourceFails, Record, Abandon, vars
    <3>. QED
      BY <1>3, <3>1, <3>2, <3>3, <3>4 DEF Next, SourceAnswers
  <2>. QED
    BY <2>2, <2>3, <2>4, <2>5
<1>. QED
  BY <1>2, <1>3

\* While validators and memberships have not parted: no refresh counts a proxy
\* absent that a source listed, by a body or by a 304, and a complete one counts
\* every other (copy_cached_source_generation, ingest_many, finish_refresh).
THEOREM AbsencesSound == Spec => AbsencesAreExact
<1>1. IInv /\ [Next]_vars => [InStep =>
       \A p \in Proxies :
         /\ row'[p].missing > row[p].missing => p \notin Answered
         /\ (\E aged \in SUBSET Proxies : Reconcile(aged))
              /\ row[p].state # Absent /\ row[p].missing < RetireAfter /\ p \notin Answered
              => row'[p].missing = row[p].missing + 1]_vars
  BY AbsencesStep
<1>. QED
  BY <1>1, Inductive, PTL DEF Spec, AbsencesAreExact
(***************************************************************************)
(* Validators.                                                             *)
(***************************************************************************)
\* The newest membership of a source survives every step but three.
LEMMA InStepKept ==
  ASSUME IInv, [Next]_vars, InStep, ~Abandon,
         ~\E s \in Sources : answered'[s] = {{}} /\ answered[s] # {{}},
         ~\E s \in Sources : SourceBody(s, FALSE) /\ etag[s] \notin {{}, {list[s]}}
  PROVE  InStep'
<1>1. /\ parsed \in [Sources -> SUBSET Proxies] /\ members \in [Sources -> SUBSET Proxies]
      /\ answered \in [Sources -> BodyOrNone] /\ etag \in [Sources -> BodyOrNone]
  BY DEF IInv, Typed, TypeOK, Memberships
<1>2. ASSUME etag' = etag, \A s \in Sources : Newest(s)' = Newest(s) PROVE InStep'
  BY <1>2 DEF InStep
<1>3. CASE \/ \E s \in Sources, body \in Bodies : Edit(s, body)
           \/ \E aged \in SUBSET Proxies : Reconcile(aged)
           \/ \E s \in Sources : SourceFails(s)
           \/ Record \/ UNCHANGED vars
  <2>1. UNCHANGED << etag, parsed, members, earlier >>
    BY <1>3 DEF Edit, Reconcile, SourceFails, Record, vars
  <2>. QED
    BY <1>2, <2>1 DEF Newest
<1>4. CASE Begin
  <2>1. /\ etag' = etag /\ \A s \in Sources : parsed[s] \in {{}, members[s]}
    BY <1>4 DEF Begin, IInv, Sorted
  <2>2. \A s \in Sources :
          /\ parsed'[s] = {} /\ members'[s] = {}
          /\ earlier'[s] = IF members[s] = {} THEN earlier[s] ELSE members[s]
    BY <1>4 DEF Begin, Nothing
  <2>3. \A s \in Sources : Newest(s)' = Newest(s)
    BY <2>1, <2>2 DEF Newest
  <2>. QED
    BY <1>2, <2>1, <2>3
<1>5. ASSUME NEW s \in Sources, NEW tagged \in BOOLEAN, SourceBody(s, tagged) PROVE InStep'
  <2>1. /\ Silent(s) /\ UNCHANGED << members, earlier >>
        /\ parsed'[s] = list[s] /\ answered'[s] = {list[s]}
        /\ etag'[s] = IF tagged THEN {list[s]} ELSE etag[s]
    BY <1>1, <1>5 DEF SourceBody, IInv, Sorted
  <2>2. \A z \in Sources \ {s} : parsed'[z] = parsed[z] /\ etag'[z] = etag[z]
    BY <1>1, <1>5 DEF SourceBody
  <2>3. list[s] # {}
    BY <2>1 DEF Silent
  <2>4. \A body \in etag'[s] : body = Newest(s)'
    <3>1. etag'[s] \in {{}, {list[s]}}
      BY <1>5, <2>1
    <3>. QED
      BY <2>1, <2>3, <3>1 DEF Newest
  <2>5. \A z \in Sources \ {s} : Newest(z)' = Newest(z)
    BY <2>1, <2>2 DEF Newest
  <2>. QED
    BY <2>2, <2>4, <2>5 DEF InStep
<1>6. ASSUME NEW s \in Sources, SourceNotModified(s) PROVE InStep'
  <2>1. Silent(s) /\ UNCHANGED << etag, earlier, parsed >> /\ members'[s] = earlier[s]
    BY <1>1, <1>6 DEF SourceNotModified, Carried, IInv, Sorted
  <2>2. \A z \in Sources \ {s} : members'[z] = members[z]
    BY <1>1, <1>6 DEF SourceNotModified
  <2>3. \A z \in Sources : Newest(z)' = Newest(z)
    BY <2>1, <2>2 DEF Newest, Silent
  <2>. QED
    BY <1>2, <2>1, <2>3
<1>7. CASE Ingest
  <2>1. /\ UNCHANGED << etag, earlier, parsed >>
        /\ \A s \in Sources : members'[s] = members[s] \cup parsed[s]
    BY <1>7 DEF Ingest
  <2>2. \A s \in Sources : Newest(s)' = Newest(s)
    BY <2>1 DEF Newest
  <2>. QED
    BY <1>2, <2>1, <2>2
<1>. QED
  BY <1>3, <1>4, <1>5, <1>6, <1>7 DEF Next, SourceAnswers

\* What the code relies on for a 304 is lost in three ways only: a refresh is
\* given up after a body was received, a source lists nothing, or a body comes
\* without validators while those of another are kept (refresh,
\* record_source_success).
THEOREM ValidatorsSound == Spec => ValidatorsKeepStep
<1>1. IInv /\ [Next]_vars =>
        [InStep /\ ~InStep' =>
           \/ Abandon
           \/ \E s \in Sources : answered'[s] = {{}} /\ answered[s] # {{}}
           \/ \E s \in Sources :
                SourceBody(s, FALSE) /\ etag[s] \notin {{}, {list[s]}}]_vars
  BY InStepKept
<1>. QED
  BY <1>1, Inductive, PTL DEF Spec, ValidatorsKeepStep

(***************************************************************************)
(* The refresh of module Fleet.                                            *)
(***************************************************************************)
\* The two modules share the statements of NodeStore.
LEMMA SameStatements ==
  /\ FleetView!NoRow = NoRow
  /\ \A r : FleetView!Copied(r) = Copied(r)
  /\ \A r : FleetView!Ingested(r, FALSE) = Ingested(r, FALSE)
  /\ \A r, aged : FleetView!Reconciled(r, aged) = Reconciled(r, aged)
<1>1. FleetView!NoRow = NoRow
  BY DEF FleetView!NoRow, NoRow, FleetView!Absent, Absent, FleetView!Null, Null
<1>2. FleetView!NewRow = NewRow
  BY <1>1 DEF FleetView!NewRow, NewRow
<1>3. \A r : FleetView!Copied(r) = Copied(r)
  BY DEF FleetView!Copied, Copied, FleetView!Absent, Absent
<1>4. \A r : FleetView!Ingested(r, FALSE) = Ingested(r, FALSE)
  BY <1>2 DEF FleetView!Ingested, Ingested, FleetView!Absent, Absent
<1>5. \A r : FleetView!Missed(r) = Missed(r)
  BY DEF FleetView!Missed, Missed, FleetView!Absent, Absent
<1>6. \A r : FleetView!Retirable(r) <=> Retirable(r)
  BY DEF FleetView!Retirable, Retirable, FleetView!Absent, Absent
<1>7. \A r, aged : FleetView!Reconciled(r, aged) = Reconciled(r, aged)
  BY <1>5, <1>6 DEF FleetView!Reconciled, Reconciled
<1>. QED
  BY <1>1, <1>3, <1>4, <1>7

LEMMA ViewInit == Init => FleetView!Init
<1>. SUFFICES ASSUME Init PROVE FleetView!Init
  OBVIOUS
<1>1. row = [n \in Proxies |-> FleetView!NoRow]
  BY SameStatements DEF Init
<1>2. FleetRefresh = FleetView!Resting
  BY DEF Init, FleetRefresh, FleetView!Resting
<1>. QED
  BY <1>1, <1>2 DEF FleetView!Init, FleetView!NoJobs, FleetView!NoWork

LEMMA PhaseChanges ==
  ASSUME NEW a, NEW b, NEW r, r = [phase |-> a, failed |-> b]
  PROVE  /\ r.phase = a
         /\ \A f : [r EXCEPT !.phase = f] = [phase |-> f, failed |-> b]
OBVIOUS

LEMMA FailureShows ==
  ASSUME NEW r, r = [phase |-> "fetching", failed |-> FALSE]
  PROVE  [r EXCEPT !.failed = TRUE] = [phase |-> "fetching", failed |-> TRUE]
<1>. DEFINE x == [r EXCEPT !.failed = TRUE]
<1>1. x \in [phase : {"fetching"}, failed : BOOLEAN]
  OBVIOUS
<1>2. x.phase = "fetching" /\ x.failed
  OBVIOUS
<1>. HIDE DEF x
<1>3. x = [phase |-> "fetching", failed |-> TRUE]
  BY <1>1, <1>2
<1>. QED
  BY <1>3 DEF x

\* Steps of other variables, or of what module Fleet does not tell apart.
LEMMA ViewStutters ==
  ASSUME UNCHANGED << row, FleetRefresh >>
  PROVE  UNCHANGED FleetView!vars
BY DEF FleetView!vars

LEMMA ViewStep == IInv /\ [Next]_vars => [FleetView!Next]_FleetView!vars
<1>. SUFFICES ASSUME IInv, [Next]_vars PROVE FleetView!Next \/ UNCHANGED FleetView!vars
  OBVIOUS
<1>1. FleetView!RefreshStep => FleetView!Next
  BY DEF FleetView!Next
<1>2. CASE \/ \E s \in Sources, body \in Bodies : Edit(s, body)
           \/ \E s \in Sources, tagged \in BOOLEAN : SourceBody(s, tagged)
           \/ UNCHANGED vars
  <2>1. UNCHANGED << row, phase, failed >>
    BY <1>2 DEF Edit, SourceBody, vars
  <2>. QED
    BY <2>1, ViewStutters DEF FleetRefresh
<1>3. CASE Begin
  <2>1. FleetView!StartRefresh
    BY <1>3 DEF Begin, FleetView!StartRefresh, FleetRefresh
  <2>. QED
    BY <1>1, <2>1 DEF FleetView!RefreshStep
<1>4. ASSUME NEW s \in Sources, SourceFails(s) PROVE FleetView!Next \/ UNCHANGED FleetView!vars
  <2>1. phase = "fetching" /\ failed' # {} /\ UNCHANGED << row, phase >>
    BY <1>4 DEF SourceFails
  <2>2. CASE failed = {}
    <3>1. FleetRefresh = [phase |-> "fetching", failed |-> FALSE]
      BY <2>1, <2>2 DEF FleetRefresh
    <3>2. FleetRefresh' = [phase |-> "fetching", failed |-> TRUE]
      BY <2>1 DEF FleetRefresh
    <3>3. FleetRefresh' = [FleetRefresh EXCEPT !.failed = TRUE]
      <4>1. [FleetRefresh EXCEPT !.failed = TRUE] = [phase |-> "fetching", failed |-> TRUE]
        BY <3>1, FailureShows
      <4>. QED
        BY <3>2, <4>1
    <3>4. FleetView!SourceFails
      BY <2>1, <3>1, <3>3 DEF FleetView!SourceFails
    <3>. QED
      BY <1>1, <3>4 DEF FleetView!RefreshStep
  <2>3. CASE failed # {}
    <3>1. FleetRefresh' = FleetRefresh
      BY <2>1, <2>3 DEF FleetRefresh
    <3>. QED
      BY <2>1, <3>1, ViewStutters
  <2>. QED
    BY <2>2, <2>3
<1>5. ASSUME NEW s \in Sources, SourceNotModified(s)
      PROVE  FleetView!Next \/ UNCHANGED FleetView!vars
  <2>1. Carried(s) \in SUBSET Proxies
    BY DEF Carried, IInv, Typed, TypeOK, Memberships
  <2>2. FleetView!CopyCached(Carried(s))
    BY <1>5, SameStatements DEF SourceNotModified, FleetView!CopyCached, FleetRefresh
  <2>. QED
    BY <1>1, <2>1, <2>2 DEF FleetView!RefreshStep
<1>6. CASE Ingest
  <2>1. Fetched \in SUBSET Proxies
    BY DEF Fetched, IInv, Typed, TypeOK, Memberships
  <2>2. /\ FleetRefresh.phase = "fetching"
        /\ FleetRefresh' = [FleetRefresh EXCEPT !.phase = "ingested"]
    <3>1. /\ FleetRefresh = [phase |-> "fetching", failed |-> failed # {}]
          /\ FleetRefresh' = [phase |-> "ingested", failed |-> failed # {}]
      BY <1>6 DEF Ingest, FleetRefresh
    <3>. QED
      BY <3>1, PhaseChanges
  <2>3. row' = [p \in Proxies |-> IF p \in Fetched THEN FleetView!Ingested(row[p], FALSE)
                                  ELSE row[p]]
    BY <1>6, SameStatements DEF Ingest
  <2>4. FleetView!Ingest(Fetched)
    BY <2>2, <2>3 DEF FleetView!Ingest
  <2>. QED
    BY <1>1, <2>1, <2>4 DEF FleetView!RefreshStep
<1>7. CASE Record
  <2>1. phase = "ingested" /\ UNCHANGED << row, failed >>
    BY <1>7 DEF Record
  <2>2. CASE failed = {}
    BY <1>7, <2>1, <2>2, ViewStutters DEF Record, Complete, FleetRefresh
  <2>3. CASE failed # {}
    <3>1. /\ FleetRefresh = [phase |-> "ingested", failed |-> TRUE]
          /\ FleetRefresh' = [phase |-> "idle", failed |-> FALSE]
      BY <1>7, <2>1, <2>3 DEF Record, Complete, FleetRefresh
    <3>2. FleetView!FinishRefresh({})
      BY <2>1, <3>1 DEF FleetView!FinishRefresh, FleetView!Resting
    <3>. QED
      BY <1>1, <3>2 DEF FleetView!RefreshStep
  <2>. QED
    BY <2>2, <2>3
<1>8. ASSUME NEW aged \in SUBSET Proxies, Reconcile(aged)
      PROVE  FleetView!Next \/ UNCHANGED FleetView!vars
  <2>1. phase = "recorded" /\ phase' = "idle" /\ failed = {}
    BY <1>8 DEF Reconcile, IInv, Sorted
  <2>2. /\ FleetRefresh = [phase |-> "ingested", failed |-> FALSE]
        /\ FleetRefresh' = [phase |-> "idle", failed |-> FALSE]
    BY <2>1 DEF FleetRefresh
  <2>3. row' = [p \in Proxies |-> FleetView!Reconciled(row[p], p \in aged)]
    BY <1>8, SameStatements DEF Reconcile
  <2>4. FleetView!FinishRefresh(aged)
    BY <2>2, <2>3 DEF FleetView!FinishRefresh, FleetView!Resting
  <2>. QED
    BY <1>1, <2>4 DEF FleetView!RefreshStep
<1>9. CASE Abandon
  <2>1. /\ phase # "idle" /\ phase' = "idle" /\ UNCHANGED row
    BY <1>9 DEF Abandon
  <2>2. FleetView!RefreshFails
    BY <2>1 DEF FleetView!RefreshFails, FleetView!Resting, FleetRefresh, IInv, Typed, TypeOK, Phases
  <2>. QED
    BY <1>1, <2>2 DEF FleetView!RefreshStep
<1>. QED
  BY <1>2, <1>3, <1>4, <1>5, <1>6, <1>7, <1>8, <1>9 DEF Next, SourceAnswers

\* Whatever the sources, bodies, failures and validators: every run is one that
\* module Fleet allows beside its scheduler and operator (refresh,
\* finish_refresh).
THEOREM RefreshImplementsFleet == Spec => RefreshOfTheFleet
<1>1. Init => FleetView!Init
  BY ViewInit
<1>2. IInv /\ [Next]_vars => [FleetView!Next]_FleetView!vars
  BY ViewStep
<1>. QED
  BY <1>1, <1>2, Inductive, PTL DEF Spec, RefreshOfTheFleet, FleetView!Spec
=============================================================================
