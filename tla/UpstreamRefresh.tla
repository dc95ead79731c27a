-------------------------- MODULE UpstreamRefresh ---------------------------
(***************************************************************************)
(* The upstream refresh in full (upstream::refresh with begin_refresh,     *)
(* record_source_success, copy_cached_source_generation, ingest_many and   *)
(* finish_refresh of the store): what every source listed, the validators  *)
(* kept of its last body, and its membership by generation.  It refines    *)
(* the refresh of module Fleet, which only knows that some proxies were    *)
(* copied and some ingested.                                               *)
(*                                                                         *)
(* One refresh runs at a time: the timer and the reload request share a    *)
(* flag (app.rs, api/mod.rs).  Tests, leases and the operator write other  *)
(* columns of a row; they are in module Fleet.                             *)
(***************************************************************************)
EXTENDS NodeStore

CONSTANTS
  Sources,      \* the configured subscriptions
  Tagged,       \* those some of whose bodies carry an ETag or a Last-Modified
  Proxies,      \* config hashes
  Bodies,       \* what a subscription may list
  Failing       \* a statement of the refresh may fail, or the process be killed

ASSUME UpstreamConstants ==
  /\ Sources # {} /\ Tagged \subseteq Sources
  /\ Bodies \subseteq SUBSET Proxies /\ Bodies # {}
  /\ Failing \in BOOLEAN

VARIABLES
  list,         \* what each source lists now
  etag,         \* upstream_sources: {the body the stored validators stand for},
                \*   or {} when there are none
  members,      \* upstream_generation_members of the generation in progress
  earlier,      \*   and of the newest older generation that has any, by source
  row,          \* the nodes table
  phase,        \* where the refresh is
  awaited,      \* sources that have not answered yet
  failed,       \* sources whose request has failed
  parsed,       \* the proxies of the bodies received, still in memory
  answered      \* history: {the body the source answered with}, or {}

vars == << list, etag, members, earlier, row, phase, awaited, failed, parsed,
           answered >>

Phases == {"idle", "fetching", "ingested", "recorded"}
Memberships == [Sources -> SUBSET Proxies]
Nothing == [s \in Sources |-> {}]

\* No body, or one.
BodyOrNone == {{}} \cup {{body} : body \in Bodies}

TypeOK ==
  /\ list \in [Sources -> Bodies]
  /\ etag \in [Sources -> BodyOrNone]
  /\ members \in Memberships /\ earlier \in Memberships /\ parsed \in Memberships
  /\ row \in [Proxies -> Rows]
  /\ phase \in Phases
  /\ awaited \subseteq Sources /\ failed \subseteq Sources
  /\ answered \in [Sources -> BodyOrNone]

Init ==
  /\ list \in [Sources -> Bodies]
  /\ etag = Nothing
  /\ members = Nothing /\ earlier = Nothing
  /\ row = [p \in Proxies |-> NoRow]
  /\ phase = "idle" /\ awaited = {} /\ failed = {}
  /\ parsed = Nothing /\ answered = Nothing

\* The subscription is edited upstream.
Edit(s, body) ==
  /\ list' = [list EXCEPT ![s] = body]
  /\ UNCHANGED << etag, members, earlier, row, phase, awaited, failed, parsed,
                  answered >>

\* Mutant of Begin: memberships older than the last generation are pruned.
BeginPruning ==
  /\ phase = "idle"
  /\ phase' = "fetching" /\ awaited' = Sources /\ failed' = {}
  /\ parsed' = Nothing /\ answered' = Nothing
  /\ earlier' = members /\ members' = Nothing
  /\ row' = [p \in Proxies |-> [row[p] EXCEPT !.seen = FALSE]]
  /\ UNCHANGED << list, etag >>

\* begin_refresh opens the next generation and the requests go out.  MAX of
\* the runs also counts abandoned ones, so a generation is never used twice.
Begin ==
  /\ phase = "idle"
  /\ phase' = "fetching" /\ awaited' = Sources /\ failed' = {}
  /\ parsed' = Nothing /\ answered' = Nothing
  /\ earlier' = [s \in Sources |-> IF members[s] = {} THEN earlier[s] ELSE members[s]]
  /\ members' = Nothing
  /\ row' = [p \in Proxies |-> [row[p] EXCEPT !.seen = FALSE]]
  /\ UNCHANGED << list, etag >>

\* The conditional request of a source is answered with 304 when the
\* validators kept of an earlier body still stand for what it lists.
Unmodified(s) == list[s] \in etag[s]

SourceFails(s) ==
  /\ phase = "fetching" /\ s \in awaited
  /\ awaited' = awaited \ {s} /\ failed' = failed \cup {s}
  /\ UNCHANGED << list, etag, members, earlier, row, phase, parsed, answered >>

\* A body, which nothing keeps a source from sending: its validators, if it
\* carries any, are saved at once, its proxies kept in memory until every source
\* has answered.  COALESCE keeps the validators of an earlier body when this one
\* has none.  (Of two validators the source goes by the ETag: a body with only
\* a Last-Modified, after one with an ETag, counts as a body without.)
SourceBody(s, tagged) ==
  /\ phase = "fetching" /\ s \in awaited
  /\ tagged => s \in Tagged
  /\ awaited' = awaited \ {s}
  /\ etag' = IF tagged THEN [etag EXCEPT ![s] = {list[s]}] ELSE etag
  /\ parsed' = [parsed EXCEPT ![s] = list[s]]
  /\ answered' = [answered EXCEPT ![s] = {list[s]}]
  /\ UNCHANGED << list, members, earlier, row, phase, failed >>

\* Mutant of Carried: the newest generation is the one in progress.
CarriedFromCurrent(s) == members[s]

\* The members a 304 carries over: MAX(generation) looks at the generations in
\* which the source has any.
Carried(s) == earlier[s]

\* copy_cached_source_generation.
SourceNotModified(s) ==
  /\ phase = "fetching" /\ s \in awaited /\ Unmodified(s)
  /\ awaited' = awaited \ {s}
  /\ members' = [members EXCEPT ![s] = Carried(s)]
  /\ row' = [p \in Proxies |-> IF p \in Carried(s) THEN Copied(row[p]) ELSE row[p]]
  /\ answered' = [answered EXCEPT ![s] = {list[s]}]
  /\ UNCHANGED << list, etag, earlier, phase, failed, parsed >>

Fetched == UNION {parsed[s] : s \in Sources}

\* ingest_many, for the proxies of all bodies at once.
Ingest ==
  /\ phase = "fetching" /\ awaited = {}
  /\ phase' = "ingested"
  /\ row' = [p \in Proxies |-> IF p \in Fetched THEN Ingested(row[p], FALSE) ELSE row[p]]
  /\ members' = [s \in Sources |-> members[s] \cup parsed[s]]
  /\ UNCHANGED << list, etag, earlier, awaited, failed, parsed, answered >>

\* Mutant of Complete: one source that answered is enough.
CompleteAtHalf == failed # Sources

\* What finish_refresh takes for a complete generation.
Complete == failed = {}

\* finish_refresh, its first statement: the run is COMPLETE or PARTIAL, and a
\* partial one is over.
Record ==
  /\ phase = "ingested"
  /\ phase' = IF Complete THEN "recorded" ELSE "idle"
  /\ UNCHANGED << list, etag, members, earlier, row, awaited, failed, parsed, answered >>

\* finish_refresh, its transaction; aged are the rows older than twelve hours.
Reconcile(aged) ==
  /\ phase = "recorded"
  /\ phase' = "idle"
  /\ row' = [p \in Proxies |-> Reconciled(row[p], p \in aged)]
  /\ UNCHANGED << list, etag, members, earlier, awaited, failed, parsed, answered >>

\* A statement fails, or the process is killed: the run stays RUNNING (or
\* COMPLETE without its reconciliation), and what was in memory is gone.
Abandon ==
  /\ Failing /\ phase # "idle"
  /\ phase' = "idle" /\ parsed' = Nothing
  /\ UNCHANGED << list, etag, members, earlier, row, awaited, failed, answered >>

SourceAnswers(s) ==
  (\E tagged \in BOOLEAN : SourceBody(s, tagged)) \/ SourceNotModified(s)

Next ==
  \/ \E s \in Sources, body \in Bodies : Edit(s, body)
  \/ Begin
  \/ \E s \in Sources : SourceAnswers(s) \/ SourceFails(s)
  \/ Ingest \/ Record
  \/ \E aged \in SUBSET Proxies : Reconcile(aged)
  \/ Abandon

Spec == Init /\ [][Next]_vars

\* The timer starts a refresh again and again, the refresh goes on to its end,
\* no source is down for ever, and a row does not stay younger than twelve
\* hours.  Nothing is asked of the edits.
FairSpec ==
  /\ Spec
  /\ WF_vars(Begin) /\ WF_vars(Ingest) /\ WF_vars(Record)
  /\ \A s \in Sources : SF_vars(SourceAnswers(s))
  /\ SF_vars(Reconcile(Proxies))

(***************************************************************************)
(* Properties.                                                             *)
(***************************************************************************)
\* What some source answered with in the refresh in progress.
Answered == UNION UNION {answered[s] : s \in Sources}

\* The newest membership of a source, the bodies in memory included.
Newest(s) ==
  IF parsed[s] # {} THEN parsed[s] ELSE IF members[s] # {} THEN members[s] ELSE earlier[s]

\* The validators of every source stand for its newest membership.  The code
\* relies on it and does not keep it: see ValidatorsKeepStep.
InStep == \A s \in Sources : \A body \in etag[s] : body = Newest(s)

\* The validators and the membership of a source part in three ways only: a
\* refresh is given up between a body and its ingestion (the validators are saved
\* first); a source lists nothing (a source without members has no newest
\* generation); or a body comes without validators of its own, and those of
\* another body are kept beside its members (record_source_success).
ValidatorsKeepStep ==
  [][InStep /\ ~InStep' =>
       \/ Abandon
       \/ \E s \in Sources : answered'[s] = {{}} /\ answered[s] # {{}}
       \/ \E s \in Sources : SourceBody(s, FALSE) /\ etag[s] \notin {{}, {list[s]}}]_vars

\* As long as they have not parted, a refresh counts exactly the absent.  No
\* proxy is counted absent by a refresh in which a source listed it, whether the
\* source sent its body or said that it had not changed, and whatever earlier
\* refreshes left behind; and a complete one counts every known proxy that no
\* source lists any more, or it would never be retired (Store::finish_refresh).
AbsencesAreExact ==
  [][InStep =>
       \A p \in Proxies :
         /\ row'[p].missing > row[p].missing => p \notin Answered
         /\ (\E aged \in SUBSET Proxies : Reconcile(aged))
              /\ row[p].state # Absent /\ row[p].missing < RetireAfter /\ p \notin Answered
              => row'[p].missing = row[p].missing + 1]_vars

\* The fleet follows the subscriptions, as long as complete refreshes go on and
\* validators and memberships have not parted for good.  A proxy that a source
\* goes on listing is known and no longer counted absent in the end, and, when
\* bodies that list it go on being ingested, it is a member (a 304 does not
\* bring a retired proxy back).  One that no source lists any more is retired.
FleetFollowsSources ==
  \A p \in Proxies :
    []<>(phase = "recorded") /\ <>[]InStep =>
      /\ \A s \in Sources : <>[](p \in list[s]) =>
           /\ <>[](row[p].state # Absent /\ row[p].missing = 0)
           /\ []<>(phase = "ingested" /\ p \in parsed[s]) => <>[](row[p].state = "CANDIDATE")
      /\ <>[](\A s \in Sources : p \notin list[s])
           => <>[](row[p].state \in {Absent, "RETIRED"})

\* Stated by copy_cached_source_generation, without any proviso:
\* "reconciliation never treats a cached source as if all of its proxies
\* disappeared".
CachedSourceIsKept ==
  [][\A p \in Proxies : row'[p].missing > row[p].missing => p \notin Answered]_vars

\* The refresh task as module Fleet sees it.
FleetRefresh ==
  [phase  |-> IF phase = "recorded" THEN "ingested" ELSE phase,
   failed |-> phase # "idle" /\ failed # {}]

\* The refresh of module Fleet, with the scheduler and the operator idle.
FleetView ==
  INSTANCE Fleet WITH
    Nodes <- Proxies, NoNode <- "NO_NODE", Probes <- {}, Crashes <- FALSE,
    LockedWrites <- FALSE,
    pc <- "idle", round <- 0, picked <- {}, jobs <- [p \in Proxies |-> 0],
    work <- [node |-> "NO_NODE", events |-> << >>, full |-> FALSE],
    refresh <- FleetRefresh

RefreshOfTheFleet == FleetView!Spec
=============================================================================
