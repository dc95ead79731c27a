----------------------------- MODULE Publisher ------------------------------
(***************************************************************************)
(* The publisher (publisher/mod.rs): every tick renders the leased nodes   *)
(* and brings the rendering, through a work tree of its own, onto a branch *)
(* it shares with others: fetch, rebase, write, commit, push, and once     *)
(* more fetch, rebase, push when the push fails.                           *)
(*                                                                         *)
(* A commit is who made it and the feed files as they are after it.  The   *)
(* remote takes a push only as a fast-forward.  git refuses to rebase a    *)
(* work tree with uncommitted changes, even onto what it already has, and  *)
(* reports a conflict when both sides have changed the feed files.         *)
(***************************************************************************)
EXTENDS Integers, Sequences, SequencesExt

CONSTANTS
  Feeds,        \* what the leased nodes may render to
  Foreign,      \* the feed as another service publishes it
  Blank,        \* the rendering of no node at all
  Budget        \* bound: how often anything outside a tick may happen

ASSUME PublisherConstants ==
  /\ Feeds # {} /\ Foreign \notin Feeds /\ Blank \notin Feeds \cup {Foreign}
  /\ Budget \in Nat

VARIABLES
  leased,       \* what publication_snapshot returns, rendered
  remote,       \* the shared branch
  repo,         \* publisher-repo: none, cloning, broken, ready
  origin,       \* its origin/<branch>
  head,         \* its HEAD
  tree,         \* the feed files of the work tree
  rebasing,     \* a rebase was interrupted: .git/rebase-merge is there
  pc,           \* where publish() is
  retrying,     \*   in push_with_rebase_retry, after the first push
  job,          \* the rendering it works on
  late,         \* HEADs whose push has timed out, and may still arrive
  last,         \* service_state: how the last tick ended
  budget

local == <<repo, origin, head, tree, rebasing>>
run == <<pc, retrying, job>>
pvars == <<leased, remote, local, run, late, last, budget>>

Authors == {"publisher", "code", "subscription"}
Renderings == Feeds \cup {Blank}
Commits == [by : Authors, feed : Renderings \cup {Foreign}]
Steps == {"idle", "clone", "fetch", "rebase", "write", "commit", "count", "push"}

\* The feed files at the tip of a branch.
FeedOf(branch) == branch[Len(branch)].feed

\* What of ours the upstream does not have, and of upstream we do not have.
Shared(ours, upstream) == Len(LongestCommonPrefix({ours, upstream}))
Beyond(ours, upstream) == SubSeq(ours, Shared(ours, upstream) + 1, Len(ours))

\* Both sides have changed the feed files.
Conflict(ours, upstream) ==
  /\ Beyond(ours, upstream) # <<>>
  /\ \E i \in Shared(ours, upstream) + 1 .. Len(upstream) :
        upstream[i].by = "subscription"

\* Mutant of Rebased: everything we made is replayed, also what upstream has.
RebasedWhole(ours, upstream) ==
  upstream \o SelectSeq(ours, LAMBDA commit : commit.by = "publisher")

Rebased(ours, upstream) == upstream \o Beyond(ours, upstream)

Dirty == tree # FeedOf(head)

PTypeOK ==
  /\ leased \in Renderings
  /\ remote \in Seq(Commits) /\ remote # <<>>
  /\ repo \in {"none", "cloning", "broken", "ready"}
  /\ origin \in Seq(Commits) /\ head \in Seq(Commits)
  /\ repo = "ready" => origin # <<>> /\ head # <<>>
  /\ tree \in Renderings \cup {Foreign} /\ rebasing \in BOOLEAN
  /\ pc \in Steps /\ retrying \in BOOLEAN /\ job \in Renderings
  /\ late \in SUBSET Seq(Commits)
  /\ last \in {"none", "ok", "error"}
  /\ budget \in 0 .. Budget

PInit ==
  /\ leased = Blank
  /\ remote = <<[by |-> "subscription", feed |-> Foreign]>>
  /\ repo = "none" /\ origin = <<>> /\ head = <<>> /\ tree = Foreign
  /\ rebasing = FALSE
  /\ pc = "idle" /\ retrying = FALSE /\ job = Blank
  /\ late = {} /\ last = "none" /\ budget = Budget

Goto(step) == pc' = step /\ UNCHANGED <<retrying, job, last>>

\* publish() returns, and the tick records how.
End(result) ==
  /\ pc' = "idle" /\ retrying' = FALSE /\ job' = Blank /\ last' = result

\* An error leaves publish() through `?`, and everything as it is.
Fail(step) ==
  /\ pc = step
  /\ End("error")
  /\ UNCHANGED <<leased, remote, local, late, budget>>
-----------------------------------------------------------------------------
\* publish() begins: nothing to render leaves the public feed alone.
Tick ==
  /\ pc = "idle"
  /\ IF leased = Blank
     THEN End("ok")
     ELSE /\ job' = leased
          /\ pc' = IF repo = "none" THEN "clone" ELSE "fetch"
          /\ UNCHANGED <<retrying, last>>
  /\ UNCHANGED <<leased, remote, local, late, budget>>

\* The snapshot cannot be read, or its copy under data/publish not written.
TickFails ==
  /\ pc = "idle"
  /\ End("error")
  /\ UNCHANGED <<leased, remote, local, late, budget>>

\* Mutant of Cloned: HEAD is left unborn.
ClonedBare ==
  /\ repo' = "ready" /\ rebasing' = FALSE
  /\ origin' = remote /\ head' = <<>> /\ tree' = FeedOf(remote)

Cloned ==
  /\ repo' = "ready" /\ rebasing' = FALSE
  /\ origin' = remote /\ head' = remote /\ tree' = FeedOf(remote)

Clone ==
  /\ pc = "clone"
  /\ Cloned /\ Goto("fetch")
  /\ UNCHANGED <<leased, remote, late, budget>>

\* 45 s are over; git clones on.
CloneTimesOut ==
  /\ pc = "clone"
  /\ repo' = "cloning" /\ End("error")
  /\ UNCHANGED <<leased, remote, origin, head, tree, rebasing, late, budget>>

LateClone ==
  /\ repo = "cloning" /\ Cloned
  /\ UNCHANGED <<leased, remote, run, last, late, budget>>

Fetch ==
  /\ pc = "fetch" /\ repo = "ready"
  /\ origin' = remote /\ Goto("rebase")
  /\ UNCHANGED <<leased, remote, repo, head, tree, rebasing, late, budget>>

Rebase ==
  /\ pc = "rebase"
  /\ ~rebasing /\ ~Dirty /\ ~Conflict(head, origin)
  /\ head' = Rebased(head, origin)
  /\ tree' = FeedOf(head')
  /\ Goto(IF retrying THEN "push" ELSE "write")
  /\ UNCHANGED <<leased, remote, repo, origin, rebasing, late, budget>>

\* Mutant of RebaseFails: reset to the remote branch.
RebaseFailsResets ==
  /\ pc = "rebase"
  /\ rebasing' = FALSE /\ End("error")
  /\ head' = origin /\ tree' = FeedOf(origin)
  /\ UNCHANGED <<leased, remote, repo, origin, late, budget>>

\* Mutant of RebaseFails: nothing is aborted.
RebaseFailsForGood ==
  /\ pc = "rebase"
  /\ End("error")
  /\ UNCHANGED <<leased, remote, local, late, budget>>

\* rebase fails, and rebase --abort restores what was before it; a dirty work
\* tree is refused before anything begins, and there is nothing to abort.
RebaseFails ==
  /\ pc = "rebase"
  /\ rebasing' = FALSE /\ End("error")
  /\ UNCHANGED <<leased, remote, repo, origin, head, tree, late, budget>>

Write ==
  /\ pc = "write"
  /\ tree' = job
  /\ Goto(IF job = tree THEN "count" ELSE "commit")
  /\ UNCHANGED <<leased, remote, repo, origin, head, rebasing, late, budget>>

Commit ==
  /\ pc = "commit"
  /\ head' = Append(head, [by |-> "publisher", feed |-> tree])
  /\ Goto("count")
  /\ UNCHANGED <<leased, remote, repo, origin, tree, rebasing, late, budget>>

\* rev-list --count origin/<branch>..HEAD
CountAhead ==
  /\ pc = "count"
  /\ IF Beyond(head, origin) = <<>> THEN End("ok") ELSE Goto("push")
  /\ UNCHANGED <<leased, remote, local, late, budget>>

Push ==
  /\ pc = "push" /\ IsPrefix(remote, head)
  /\ remote' = head /\ origin' = head
  /\ End("ok")
  /\ UNCHANGED <<leased, repo, head, tree, rebasing, late, budget>>

\* The push is rejected, does not get through, or gets through after the 45 s.
PushFails ==
  /\ pc = "push"
  /\ late' \in {late, late \cup {head}}
  /\ IF retrying
     THEN End("error")
     ELSE pc' = "fetch" /\ retrying' = TRUE /\ UNCHANGED <<job, last>>
  /\ UNCHANGED <<leased, remote, local, budget>>

LatePush(branch) ==
  /\ late' = late \ {branch}
  /\ IF IsPrefix(remote, branch)
     THEN remote' = branch /\ origin' \in {origin, branch}
     ELSE UNCHANGED <<remote, origin>>
  /\ UNCHANGED <<leased, repo, head, tree, rebasing, run, last, budget>>
-----------------------------------------------------------------------------
\* What happens outside: each takes one of the budget.
Spend == budget > 0 /\ budget' = budget - 1

\* Leases are granted and lapse.
LeasesChange ==
  /\ Spend
  /\ \E feed \in Renderings \ {leased} : leased' = feed
  /\ UNCHANGED <<remote, local, run, late, last>>

\* Another commit on the shared branch: of the code, or of the feed itself.
OthersCommit ==
  /\ Spend
  /\ \/ remote' = Append(remote, [by |-> "code", feed |-> FeedOf(remote)])
     \/ /\ FeedOf(remote) # Foreign
        /\ remote' = Append(remote, [by |-> "subscription", feed |-> Foreign])
  /\ UNCHANGED <<leased, local, run, late, last>>

\* The process ends anywhere in publish(), and git with it or not.
Crash ==
  /\ Spend
  /\ pc # "idle"
  /\ repo' \in CASE pc = "clone" -> {"none", "cloning", "broken"}
                 [] repo = "cloning" -> {"cloning", "broken"}
                 [] OTHER -> {repo}
  /\ rebasing' \in {rebasing, rebasing \/ (pc = "rebase" /\ ~Dirty)}
  /\ End(last)
  /\ UNCHANGED <<leased, remote, origin, head, tree, late>>
-----------------------------------------------------------------------------
Publish ==
  \/ Tick \/ TickFails
  \/ Clone \/ CloneTimesOut
  \/ Fetch \/ Rebase \/ RebaseFails
  \/ Write \/ Commit \/ CountAhead
  \/ Push \/ PushFails
  \/ \E step \in {"clone", "fetch", "commit", "count"} : Fail(step)

Background == LateClone \/ \E branch \in late : LatePush(branch)

Outside == LeasesChange \/ OthersCommit \/ Crash

PNext == Publish \/ Background \/ Outside

PSpec == PInit /\ [][PNext]_pvars

\* The timer fires, and a command that is tried for ever succeeds for ever.
PFairSpec ==
  /\ PSpec
  /\ WF_pvars(Publish) /\ WF_pvars(LateClone)
  /\ SF_pvars(Tick) /\ SF_pvars(Clone) /\ SF_pvars(Fetch) /\ SF_pvars(Rebase)
  /\ SF_pvars(CountAhead) /\ SF_pvars(Push)
-----------------------------------------------------------------------------
\* The commits of the publisher on a branch, in their order.
Ours(branch) ==
  LET ours[n \in 0 .. Len(branch)] ==
        IF n = 0 THEN <<>>
        ELSE IF branch[n].by = "publisher" THEN Append(ours[n - 1], branch[n])
        ELSE ours[n - 1]
  IN  ours[Len(branch)]

\* Every rendered commit is on the remote at most once and in its order,
\* whatever was rebased, pushed twice or pushed too late (mod.rs 116-145).
PublishedInOrder == IsPrefix(Ours(remote), Ours(head))

\* A rendered commit outlives failed rebases, rejected pushes and crashes
\* ("never throws away a rendered publication", mod.rs 139), and a tick that
\* ends well with something to render has it on the remote, as the last word of
\* ours, with all that earlier ticks could not push.
RenderingsArePublished ==
  [][/\ IsPrefix(Ours(head), Ours(head'))
     /\ (pc # "idle" /\ pc' = "idle" /\ last' = "ok" /\ budget' = budget)
         => /\ IsPrefix(head, remote')
            /\ Ours(head) # <<>> /\ FeedOf(Ours(head)) = job]_pvars

\* What keeps every later tick from publishing: half a clone, a rendering that
\* was written and not committed, an unpushed commit that conflicts.
Stuck ==
  \/ repo = "broken"
  \/ repo = "ready" /\ pc = "idle" /\ Dirty
  \/ repo = "ready" /\ Conflict(head, remote)

\* Once the leases stand still, the remote carries them: a failed, rejected or
\* late push, a crash in the middle of a rebase and the commits of others are
\* all made good by later ticks, unless the work tree is stuck.
FeedArrives == []<>(leased = Blank \/ FeedOf(remote) = leased \/ Stuck)

\* "A concurrent code or subscription commit can make the first push
\* non-fast-forward; fetch and rebase once, never reset, then retry the exact
\* HEAD that was rendered" (mod.rs 116): the two are brought together.
ConcurrentCommitsMerge == []<>(repo # "ready" \/ ~Conflict(head, remote))
=============================================================================
