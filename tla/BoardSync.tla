----------------------------- MODULE BoardSync -----------------------------
(***************************************************************************)
(* The Git synchronisation of a board: one clone with its worktree, index, *)
(* branch and remote-tracking ref, the shared origin, the running `sync`,  *)
(* the fast-forward pull other commands make in the background, the copies *)
(* sync saves of the words that lost a conflict, and the person or agent   *)
(* who writes documents and settles those copies                           *)
(* (packages/cli/src/commands/sync, packages/board-git/src).               *)
(*                                                                         *)
(* A history is the sequence of the trees of its commits, so a prefix is   *)
(* an ancestor.  A document is the set of edits its text holds; two edits  *)
(* of one region cannot be merged by Git.  Nothing of superbee locks the   *)
(* clone: between any two Git commands of a sync, a writer, a background   *)
(* pull and the teammates may each take a step.                            *)
(***************************************************************************)
EXTENDS Naturals, Sequences, FiniteSets, SequencesExt, FiniteSetsExt

CONSTANTS
    Docs,           \* the documents of the board
    Mine,           \* edits the people and agents of this clone may make
    Theirs,         \* edits teammates may publish
    DocOf,          \* the document of an edit
    Region,         \* the part of its document an edit changes
    Clash,          \* sets of edits that together break a document's frontmatter
    Fixes,          \* the edits of Mine that repair a broken frontmatter
    NoDoc,          \* an absent document
    PushAttempts,   \* SYNC_PUSH_ATTEMPTS
    MaxFaults,      \* kills and failed commands in a behaviour
    MaxDeletes,     \* deletions of documents in a behaviour
    MaxSettles,     \* settlements of saved copies in a behaviour
    WritesAtStops   \* documents are also written while a rebase has stopped

Edits == Mine \cup Theirs

ASSUME BoardAssumption ==
    /\ DocOf \in [Edits -> Docs]
    /\ Mine \cap Theirs = {}
    /\ Fixes \subseteq Mine
    /\ \A c \in Clash : c \subseteq Edits /\ c # {}
    /\ PushAttempts \in Nat \ {0}
    /\ MaxFaults \in Nat
    /\ MaxDeletes \in Nat
    /\ MaxSettles \in Nat
    /\ WritesAtStops \in BOOLEAN
    /\ \A text \in SUBSET Edits : text # NoDoc

VARIABLES
    origin,   \* the board branch of the shared repository
    ref,      \* refs/remotes/origin/<board>, this clone's view of it
    branch,   \* the clone's board branch
    index,    \* the staged tree
    wt,       \* the worktree
    reb,      \* the rebase in progress (rebase-merge), or NoRebase
    saved,    \* per document the saved copies, oldest first
    sync,     \* the running sync
    pull,     \* the background pull: idle, or fetched and about to merge
    made,     \* the edits made so far
    job,      \* the settlement under way: what it read, or NoJob
    retired,  \* the edits someone deliberately dropped, and those overrun
    overrun,  \* the edits a settlement erased that it did not know it would
    exposed,  \* the edits written while a rebase had stopped
    faults,   \* faults left
    deletes,  \* deletions left
    settles   \* settlements left

vars == <<origin, ref, branch, index, wt, reb, saved, sync, pull,
          job, made, retired, overrun, exposed, faults, deletes, settles>>
clone == <<branch, index, wt, reb>>
people == <<job, made, retired, overrun, exposed, deletes, settles>>

Text(doc) == IF doc = NoDoc THEN {} ELSE doc
Tip(history) == Last(history)

\* Commits that origin, the ref and the branch all hold take no further part
\* in any step, so a history keeps only its tip once all three agree on it.
Forget(history) == <<Tip(history)>>

NoRebase == [head |-> <<>>, todo |-> <<>>, mine |-> <<>>, unmerged |-> {}]
NothingCarried == [d \in Docs |-> NoDoc]
Idle == [pc |-> "idle", tries |-> 1, doc |-> NoDoc, stopped |-> FALSE,
         carried |-> NothingCarried, head |-> <<>>]
NoJob == [doc |-> NoDoc, text |-> {}, present |-> NoDoc, remote |-> NoDoc,
          later |-> FALSE, written |-> FALSE]
InRebase == reb # NoRebase

\* parseMarkdown refuses the frontmatter.
Broken(doc) == /\ \E c \in Clash : c \subseteq Text(doc)
               /\ Text(doc) \cap Fixes = {}

Init ==
    LET empty == [d \in Docs |-> {}] IN
    /\ origin = <<empty>> /\ ref = <<empty>> /\ branch = <<empty>>
    /\ index = empty /\ wt = empty
    /\ reb = NoRebase /\ sync = Idle /\ pull = "idle"
    /\ saved = [d \in Docs |-> <<>>]
    /\ job = NoJob /\ made = {} /\ retired = {} /\ overrun = {} /\ exposed = {}
    /\ faults = MaxFaults /\ deletes = MaxDeletes /\ settles = MaxSettles

-----------------------------------------------------------------------------
(* What Git does with trees.                                               *)

\* A file Git does not track survives every checkout and reset.
Untracked(d) == index[d] = NoDoc /\ wt[d] # NoDoc

\* The worktree once Git has written `tree` over it.
Checkout(tree) == [d \in Docs |-> IF Untracked(d) /\ tree[d] = NoDoc
                                  THEN wt[d] ELSE tree[d]]

\* Tracked files that differ from the index, or an index that differs from HEAD.
Unstaged == \E d \in Docs : ~Untracked(d) /\ wt[d] # index[d]
Dirty == Unstaged \/ index # Tip(branch)
Collides == \E d \in Docs : Untracked(d) /\ Tip(ref)[d] # NoDoc

Chunk(doc, g) == {e \in Text(doc) : Region[e] = g}

\* A three-way merge of one document stops where both sides changed a region
\* in different ways, or one side deleted what the other changed.
Conflict(base, up, my) ==
    /\ my # base /\ up # base /\ my # up
    /\ \/ NoDoc \in {base, up, my}
       \/ \E e \in up \cup my \cup base :
             LET g == Region[e] IN
             /\ Chunk(my, g) # Chunk(base, g)
             /\ Chunk(up, g) # Chunk(base, g)
             /\ Chunk(my, g) # Chunk(up, g)

Merged(base, up, my) ==
    CASE my = base -> up
      [] up = base -> my
      [] my = up   -> up
      [] OTHER -> LET b == Text(base)  u == Text(up)  m == Text(my)
                  IN  (u \cap m) \cup (u \ b) \cup (m \ b)

\* The commits of `history` that `upstream` lacks, each with its parent's tree.
Shared(history, upstream) ==
    Max({n \in 0..Len(history) : n <= Len(upstream)
            /\ SubSeq(history, 1, n) = SubSeq(upstream, 1, n)})
Outgoing(history, upstream) ==
    LET n == Shared(history, upstream)
    IN  [i \in 1..(Len(history) - n) |->
            [from |-> history[n + i - 1], to |-> history[n + i]]]

\* git rebase --abort: back to the branch as it was.
Abort == /\ reb' = NoRebase
         /\ index' = Tip(branch)
         /\ wt' = Checkout(Tip(branch))
         /\ UNCHANGED branch

\* git merge --ff-only: refused on a divergence, in a rebase, and when it
\* would overwrite a local change.
Incoming == {d \in Docs : Tip(ref)[d] # Tip(branch)[d]}
MayFastForward ==
    /\ ~InRebase
    /\ IsPrefix(branch, ref)
    /\ \A d \in Incoming : wt[d] = Tip(branch)[d] /\ index[d] = Tip(branch)[d]
FastForward ==
    IF MayFastForward
    THEN /\ branch' = ref
         /\ index' = [d \in Docs |-> IF d \in Incoming THEN Tip(ref)[d] ELSE index[d]]
         /\ wt' = [d \in Docs |-> IF d \in Incoming THEN Tip(ref)[d] ELSE wt[d]]
         /\ UNCHANGED reb
    ELSE UNCHANGED clone

-----------------------------------------------------------------------------
(* syncCommand, one Git command or one file-system step at a time.         *)

At(pc) == sync.pc = pc
Goto(pc) == sync' = [sync EXCEPT !.pc = pc]
End == sync' = Idle

\* healStaleRebaseBeforeProvisioning: a rebase found at entry is a dead run's.
HealRebase ==
    /\ At("idle") /\ Goto("check")
    /\ IF InRebase THEN Abort ELSE UNCHANGED clone
    /\ UNCHANGED <<origin, ref, saved, pull, people, faults>>

\* malformedOutgoingDocuments: a document whose frontmatter does not parse
\* holds everything outgoing.
CheckWorktree ==
    /\ At("check")
    /\ Goto(IF \E d \in Docs : wt[d] # Tip(branch)[d] /\ Broken(wt[d])
            THEN "heldFetch" ELSE "classify")
    /\ UNCHANGED <<origin, ref, clone, saved, pull, people, faults>>

\* copyIsCarried: the document as it stands is the saved copy.
CopyIsCarried(text, current) == current # NoDoc /\ current = text

\* removeCarriedCopies, first the judgement, then the removals.  The copies of
\* a document differ (WithCopy), so at most one of them is carried.
ClassifyCopies ==
    /\ At("classify")
    /\ sync' = [sync EXCEPT !.pc = "remove",
          !.carried = [d \in Docs |->
              IF \E i \in DOMAIN saved[d] : CopyIsCarried(saved[d][i], wt[d])
              THEN wt[d] ELSE NoDoc]]
    /\ UNCHANGED <<origin, ref, clone, saved, pull, people, faults>>

Without(copies, text) ==
    IF text \in ToSet(copies)
    THEN RemoveAt(copies, CHOOSE i \in DOMAIN copies : copies[i] = text)
    ELSE copies

RemoveCarriedCopies ==
    /\ At("remove") /\ sync' = [sync EXCEPT !.pc = "stage", !.carried = NothingCarried]
    /\ saved' = [d \in Docs |-> Without(saved[d], sync.carried[d])]
    /\ UNCHANGED <<origin, ref, clone, pull, people, faults>>

\* stageAndCommit, `git add -A`.
StageAll ==
    /\ At("stage") /\ Goto("commit")
    /\ index' = wt
    /\ UNCHANGED <<origin, ref, branch, wt, reb, saved, pull, people, faults>>

\* stageAndCommit, the check of the staged bytes and the commit.
CommitStaged ==
    /\ At("commit")
    /\ CASE index = Tip(branch) ->
              Goto("fetch") /\ UNCHANGED <<branch, index>>
         [] \E d \in Docs : index[d] # Tip(branch)[d] /\ Broken(index[d]) ->
              Goto("heldFetch") /\ index' = Tip(branch) /\ UNCHANGED branch
         [] OTHER ->
              Goto("fetch") /\ branch' = Append(branch, index) /\ UNCHANGED index
    /\ UNCHANGED <<origin, ref, wt, reb, saved, pull, people, faults>>

\* heldRun: nothing goes out, what fast-forwards comes in.
HeldFetch ==
    /\ At("heldFetch") /\ Goto("heldMerge")
    /\ ref' = origin
    /\ UNCHANGED <<origin, clone, saved, pull, people, faults>>

HeldMerge ==
    /\ At("heldMerge") /\ End
    /\ FastForward
    /\ UNCHANGED <<origin, ref, saved, pull, people, faults>>

\* fetchRebaseResolving, `git fetch`.
FetchOrigin ==
    /\ At("fetch") /\ Goto("rebase")
    /\ ref' = origin
    /\ UNCHANGED <<origin, clone, saved, pull, people, faults>>

\* `git rebase origin/<board>`: refused over uncommitted changes, nothing to do
\* when up to date, and otherwise the outgoing commits are replayed one by one.
StartRebase ==
    /\ At("rebase")
    /\ CASE Dirty \/ (Collides /\ ~IsPrefix(ref, branch)) -> End /\ UNCHANGED clone
         [] ~Dirty /\ IsPrefix(ref, branch) -> Goto("hold") /\ UNCHANGED clone
         [] OTHER -> /\ Goto("pick")
                     /\ reb' = [NoRebase EXCEPT !.head = ref, !.todo = Outgoing(branch, ref)]
                     /\ index' = Tip(ref)
                     /\ wt' = Checkout(Tip(ref))
                     /\ UNCHANGED branch
    /\ UNCHANGED <<origin, ref, saved, pull, people, faults>>

\* The replay of the next commit: the paths it conflicts in and the tree it
\* leaves, a conflicted path with both sides' words between markers.
PickConflicts ==
    {d \in Docs : Conflict(Head(reb.todo).from[d], Tip(reb.head)[d], Head(reb.todo).to[d])}
PickTree ==
    LET pick == Head(reb.todo)  up == Tip(reb.head) IN
    [d \in Docs |-> IF d \in PickConflicts THEN Text(up[d]) \cup Text(pick.to[d])
                   ELSE Merged(pick.from[d], up[d], pick.to[d])]

\* Git does not replay a commit over an untracked file.  What follows is not
\* modelled: a document deleted on both sides has to come back between two Git
\* commands of one sync first.
PickBlocked == \E d \in Docs : Untracked(d) /\ PickTree[d] # NoDoc

\* Merged and committed, dropped when it became empty, or a stop.
PickCommit ==
    /\ At("pick") /\ reb.todo # <<>> /\ ~PickBlocked
    /\ index' = PickTree
    /\ wt' = Checkout(PickTree)
    /\ reb' = [head |-> IF PickConflicts = {} /\ PickTree # Tip(reb.head)
                       THEN Append(reb.head, PickTree) ELSE reb.head,
               todo |-> Tail(reb.todo),
               mine |-> IF PickConflicts = {} THEN <<>> ELSE Head(reb.todo).to,
               unmerged |-> PickConflicts]
    /\ sync' = IF PickConflicts = {} THEN sync
               ELSE [sync EXCEPT !.pc = "stop", !.stopped = TRUE]
    /\ UNCHANGED <<origin, ref, branch, saved, pull, people, faults>>

\* The last commit is replayed: the branch moves.  A run that met a conflict
\* ends here and pushes nothing (convergingRebase).
FinishRebase ==
    /\ At("pick") /\ reb.todo = <<>>
    /\ branch' = reb.head
    /\ reb' = NoRebase
    /\ IF sync.stopped THEN End ELSE Goto("hold")
    /\ UNCHANGED <<origin, ref, index, wt, saved, pull, people, faults>>

\* The loop's look at a stop: its unmerged paths, or none and the commit is
\* skipped (`git rebase --skip` resets hard).
SkipCommit ==
    /\ index' = Tip(reb.head)
    /\ wt' = Checkout(Tip(reb.head))
    /\ UNCHANGED <<branch, reb>>

LookAtStop ==
    /\ At("stop")
    /\ IF reb.unmerged = {} THEN Goto("pick") /\ SkipCommit
                            ELSE Goto("export") /\ UNCHANGED clone
    /\ UNCHANGED <<origin, ref, saved, pull, people, faults>>

\* saveConflictCopy: a copy with the same bytes is that copy, else a new slot
\* behind the highest.
WithCopy(copies, text) ==
    IF \E i \in DOMAIN copies : copies[i] = text THEN copies ELSE Append(copies, text)

\* Mutant: the side that is "ours" in a rebase, the upstream version.
ExportedOurs(d) == Tip(reb.head)[d]

\* The blob at stage 3, the replayed commit's version.
ExportedVersion(d) == reb.mine[d]

\* Your version is saved first; a side that deleted has none.
ExportMine ==
    /\ At("export")
    /\ \E d \in reb.unmerged :
          /\ sync' = [sync EXCEPT !.pc = "keep", !.doc = d]
          /\ saved' = IF ExportedVersion(d) = NoDoc THEN saved
                      ELSE [saved EXCEPT ![d] = WithCopy(@, ExportedVersion(d))]
    /\ UNCHANGED <<origin, ref, clone, pull, people, faults>>

\* Mutant: the side that is "theirs" in a rebase, the local version.
KeptTheirs(d) == reb.mine[d]

\* `git checkout origin/<board> -- path` or `git rm`: the ref as it is now.
UpstreamVersion(d) == Tip(ref)[d]

KeepUpstream ==
    /\ At("keep")
    /\ LET d == sync.doc IN
       /\ index' = [index EXCEPT ![d] = UpstreamVersion(d)]
       /\ wt' = [wt EXCEPT ![d] = UpstreamVersion(d)]
       /\ reb' = [reb EXCEPT !.unmerged = @ \ {d}]
       /\ sync' = [sync EXCEPT !.doc = NoDoc,
                     !.pc = IF reb.unmerged = {d} THEN "continue" ELSE "export"]
    /\ UNCHANGED <<origin, ref, branch, saved, pull, people, faults>>

\* `git rebase --continue` commits the index and goes on.
ContinueRebase ==
    /\ At("continue") /\ ~Unstaged /\ Goto("pick")
    /\ reb' = [reb EXCEPT !.head = IF index = Tip(@) THEN @ ELSE Append(@, index),
                          !.mine = <<>>]
    /\ UNCHANGED <<origin, ref, branch, index, wt, saved, pull, people, faults>>

\* It stays at the stop over an unstaged change, and (in the Git versions the
\* code's comment describes) over a commit that became empty.
ContinueRefused ==
    /\ At("continue") /\ (Unstaged \/ index = Tip(reb.head)) /\ Goto("stop")
    /\ UNCHANGED <<origin, ref, clone, saved, pull, people, faults>>

\* Mutant: only the first pull of a run is checked, not the one after a lost race.
HoldFirstPullOnly ==
    /\ At("hold")
    /\ IF /\ sync.tries = 1
          /\ \E d \in Docs : Tip(branch)[d] # Tip(ref)[d] /\ Broken(Tip(branch)[d])
       THEN End ELSE Goto("head")
    /\ UNCHANGED <<origin, ref, clone, saved, pull, people, faults>>

\* Mutant: every unpushed commit must parse, so a fix committed on top is held too.
HoldEveryCommit ==
    /\ At("hold")
    /\ IF \E c \in ToSet(Outgoing(branch, ref)) : \E d \in Docs :
             c.to[d] # c.from[d] /\ Broken(c.to[d])
       THEN End ELSE Goto("head")
    /\ UNCHANGED <<origin, ref, clone, saved, pull, people, faults>>

\* holdMalformedCommitted: what the unpushed commits change must parse.
HoldMalformed ==
    /\ At("hold")
    /\ IF \E d \in Docs : Tip(branch)[d] # Tip(ref)[d] /\ Broken(Tip(branch)[d])
       THEN End ELSE Goto("head")
    /\ UNCHANGED <<origin, ref, clone, saved, pull, people, faults>>

\* pushPhase reads the head it will push once.
ReadHead ==
    /\ At("head") /\ sync' = [sync EXCEPT !.pc = "push", !.head = branch]
    /\ UNCHANGED <<origin, ref, clone, saved, pull, people, faults>>

MayRetry == sync.tries < PushAttempts

\* The push, and after a lost race the re-fetch and rebase of the next attempt.
PushHead ==
    /\ At("push")
    /\ IF IsPrefix(origin, sync.head)
       THEN /\ origin' = IF branch = sync.head THEN Forget(sync.head) ELSE sync.head
            /\ ref' = origin'
            /\ branch' = IF branch = sync.head THEN Forget(branch) ELSE branch
            /\ End
       ELSE /\ IF MayRetry
               THEN sync' = [Idle EXCEPT !.pc = "fetch", !.tries = sync.tries + 1]
               ELSE End
            /\ UNCHANGED <<origin, ref, branch>>
    /\ UNCHANGED <<index, wt, reb, saved, pull, people, faults>>

-----------------------------------------------------------------------------
(* Faults.                                                                 *)

Fault == faults > 0 /\ faults' = faults - 1

\* The process is killed between two of its commands.
Crash ==
    /\ ~At("idle") /\ Fault /\ End
    /\ UNCHANGED <<origin, ref, clone, saved, pull, people>>

\* Offline: the fetch, or the push, fails and the run ends.  A failing sync
\* gate ends the run at the push in the same way.
NetworkFails ==
    /\ sync.pc \in {"fetch", "push"} /\ Fault /\ End
    /\ UNCHANGED <<origin, ref, clone, saved, pull, people>>

\* The push landed and its answer was lost.
PushAnswerLost ==
    /\ At("push") /\ IsPrefix(origin, sync.head) /\ Fault /\ End
    /\ origin' = sync.head
    /\ UNCHANGED <<ref, clone, saved, pull, people>>

\* A step of the conflict loop fails (the copy cannot be written, Git
\* refuses): the rebase is aborted before the error goes on.
LoopFails ==
    /\ sync.pc \in {"export", "keep"} /\ Fault /\ End
    /\ Abort
    /\ UNCHANGED <<origin, ref, saved, pull, people>>

-----------------------------------------------------------------------------
(* ffPull of another command (session start, autopull): skipped on a       *)
(* detached HEAD, and a failed fetch is swallowed.                         *)

PullFetch ==
    /\ pull = "idle" /\ ~InRebase /\ pull' = "merge"
    /\ ref' \in {ref, origin}
    /\ UNCHANGED <<origin, clone, saved, sync, people, faults>>

PullMerge ==
    /\ pull = "merge" /\ pull' = "idle"
    /\ FastForward
    /\ UNCHANGED <<origin, ref, saved, sync, people, faults>>

-----------------------------------------------------------------------------
(* Teammates publish whole, parseable edits; the people and agents of this *)
(* clone write its worktree.                                               *)

Teammate(e) ==
    LET d == DocOf[e]
        tree == [Tip(origin) EXCEPT ![d] = Text(@) \cup {e}] IN
    /\ e \in Theirs \ made /\ Tip(origin)[d] # NoDoc /\ ~Broken(tree[d])
    /\ origin' = Append(origin, tree)
    /\ made' = made \cup {e}
    /\ UNCHANGED <<ref, clone, saved, sync, pull, job, retired, overrun, exposed, faults, deletes, settles>>

TeammateDeletes(d) ==
    /\ deletes > 0 /\ Tip(origin)[d] # NoDoc
    /\ origin' = Append(origin, [Tip(origin) EXCEPT ![d] = NoDoc])
    /\ retired' = retired \cup Tip(origin)[d]
    /\ deletes' = deletes - 1
    /\ UNCHANGED <<ref, clone, saved, sync, pull, job, made, overrun, exposed, faults, settles>>

MayWrite == InRebase => WritesAtStops /\ sync.pc # "pick"

Write(d, text) == wt' = [wt EXCEPT ![d] = text]

Edit(e) ==
    /\ MayWrite /\ e \in Mine \ (made \cup Fixes) /\ wt[DocOf[e]] # NoDoc
    /\ Write(DocOf[e], wt[DocOf[e]] \cup {e})
    /\ made' = made \cup {e}
    /\ exposed' = IF InRebase THEN exposed \cup {e} ELSE exposed
    /\ UNCHANGED <<origin, ref, branch, index, reb, saved, sync, pull, job, retired, overrun, faults, deletes, settles>>

\* The repair a held sync asks for.
Mend(e) ==
    /\ ~InRebase /\ e \in Fixes /\ Broken(wt[DocOf[e]])
    /\ Write(DocOf[e], wt[DocOf[e]] \cup {e})
    /\ made' = made \cup {e}
    /\ UNCHANGED <<origin, ref, branch, index, reb, saved, sync, pull, job, retired, overrun, exposed, faults, deletes, settles>>

Delete(d) ==
    /\ ~InRebase /\ deletes > 0 /\ wt[d] # NoDoc
    /\ Write(d, NoDoc)
    /\ retired' = retired \cup wt[d]
    /\ deletes' = deletes - 1
    /\ UNCHANGED <<origin, ref, branch, index, reb, saved, sync, pull, job, made, overrun, exposed, faults, settles>>

-----------------------------------------------------------------------------
(* runResolve: `sync --resolve keep | take | revise` settles the oldest    *)
(* saved copy of a document.  It reads, judges what it read, writes over   *)
(* the document as it is by then, and discards the copy.                   *)

Settling(d) == /\ ~InRebase /\ saved[d] # <<>>
               /\ settles > 0 /\ settles' = settles - 1

\* Upstream's version, the copy and the document, read one after the other
\* with nothing in between.
ReadDocument(d) ==
    /\ job = NoJob /\ Settling(d)
    /\ job' = [doc |-> d, text |-> Head(saved[d]), present |-> wt[d], remote |-> Tip(ref)[d],
               later |-> Len(saved[d]) > 1, written |-> FALSE]
    /\ UNCHANGED <<origin, ref, clone, saved, sync, pull, made, retired, overrun, exposed, faults, deletes>>

\* A settlement that was refused, failed or was killed leaves everything as it is.
Abandon ==
    /\ job # NoJob /\ job' = NoJob
    /\ UNCHANGED <<origin, ref, clone, saved, sync, pull, made, retired, overrun, exposed,
                   faults, deletes, settles>>

Judging == job # NoJob /\ ~job.written /\ ~InRebase

\* Nothing is locked and no version is expected: what the document holds by now
\* and the settlement has not `seen` is erased with what it means to drop.
Overwrite(doc, meant, seen) ==
    LET lost == Text(wt[job.doc]) \ (Text(doc) \cup meant \cup seen) IN
    /\ Write(job.doc, doc)
    /\ job' = [job EXCEPT !.present = doc, !.written = TRUE]
    /\ overrun' = overrun \cup lost
    /\ retired' = retired \cup meant \cup lost

LeaveDocument(meant) ==
    /\ job' = [job EXCEPT !.written = TRUE]
    /\ retired' = retired \cup meant
    /\ UNCHANGED <<wt, overrun>>

\* keepWouldOverwrite: unsent words that are neither upstream's nor the copy's.
KeepWouldOverwrite ==
    job.present # NoDoc /\ job.present # job.remote /\ job.present # job.text

\* `doc update` of the document that was there, `doc write` where there was none.
Keep ==
    LET d == job.doc  text == job.text IN
    /\ Judging /\ ~KeepWouldOverwrite /\ ~Broken(text)
    /\ saved[d] # <<>> /\ Head(saved[d]) = text
    /\ job.present # NoDoc => wt[d] # NoDoc
    /\ ~Broken(wt[d])
    /\ Overwrite(text, (Text(job.present) \cap Text(job.remote)) \ text, {})
    /\ UNCHANGED <<origin, ref, branch, index, reb, saved, sync, pull, made, exposed,
                   faults, deletes, settles>>

\* takeWouldErase: the document holds what neither upstream nor the copy has.
TakeWouldErase ==
    job.present # NoDoc /\ ~job.later /\ job.present # job.remote /\ job.present # job.text

\* The words that are nowhere else are saved first.  A copy of them that sync
\* is about to remove does not keep them.
SavedFirst == IF sync.carried[job.doc] = job.present THEN {} ELSE Text(job.present)

\* Upstream's version again, from the ref as it is now (`git restore` fails if it
\* has none), unless a later copy is still to be settled.
Take ==
    LET d == job.doc
        leaves == job.later \/ job.present = job.remote
        absent == job.remote # NoDoc /\ Tip(ref)[d] = NoDoc
        meant == job.text \ (Text(job.remote) \cap Text(Tip(ref)[d])) IN
    /\ Judging
    /\ saved' = IF TakeWouldErase THEN [saved EXCEPT ![d] = WithCopy(@, job.present)] ELSE saved
    /\ \/ leaves /\ LeaveDocument(meant)
       \/ ~leaves /\ absent /\ job' = NoJob /\ UNCHANGED <<wt, retired, overrun>>
       \/ ~leaves /\ ~absent
          /\ Overwrite(IF job.remote = NoDoc THEN NoDoc ELSE Tip(ref)[d], meant, SavedFirst)
    /\ UNCHANGED <<origin, ref, branch, index, reb, sync, pull, made, exposed,
                   faults, deletes, settles>>

\* The person works the copy's words into the document by hand ...
MergeByHand(d) ==
    /\ Settling(d) /\ wt[d] # NoDoc /\ ~(Head(saved[d]) \subseteq wt[d])
    /\ Write(d, wt[d] \cup Head(saved[d]))
    /\ UNCHANGED <<origin, ref, branch, index, reb, saved, sync, pull, job, made, retired, overrun,
                   exposed, faults, deletes>>

\* ... and declares the document as it stands the result.
Revise ==
    /\ Judging /\ job.present # NoDoc
    /\ ~(job.present = job.remote /\ ~CopyIsCarried(job.text, job.present))
    /\ LeaveDocument(job.text \ job.present)
    /\ UNCHANGED <<origin, ref, branch, index, reb, saved, sync, pull, made, exposed,
                   faults, deletes, settles>>

\* The copy's file goes, if it is still there, and a removal sync has already
\* decided finds nothing: a later copy of the same words has a file of its own.
DiscardFrom(d, copies) ==
    /\ saved' = [saved EXCEPT ![d] = Tail(copies)]
    /\ sync' = [sync EXCEPT !.carried[d] = IF @ = Head(copies) THEN NoDoc ELSE @]

\* discardSavedCopy: the settlement takes it that the document is as it left it.
Discard ==
    LET d == job.doc
        lost == (job.text \cap Text(job.present)) \ Text(wt[d]) IN
    /\ job # NoJob /\ job.written /\ ~InRebase /\ job' = NoJob
    /\ IF saved[d] # <<>> /\ Head(saved[d]) = job.text
       THEN /\ DiscardFrom(d, saved[d])
            /\ overrun' = overrun \cup lost
            /\ retired' = retired \cup lost
       ELSE UNCHANGED <<saved, sync, retired, overrun>>
    /\ UNCHANGED <<origin, ref, clone, pull, made, exposed, faults, deletes, settles>>

-----------------------------------------------------------------------------
SyncStep ==
    \/ HealRebase \/ CheckWorktree \/ ClassifyCopies \/ RemoveCarriedCopies
    \/ StageAll \/ CommitStaged \/ HeldFetch \/ HeldMerge
    \/ FetchOrigin \/ StartRebase \/ PickCommit \/ FinishRebase
    \/ LookAtStop \/ ExportMine \/ KeepUpstream \/ ContinueRebase \/ ContinueRefused
    \/ HoldMalformed \/ ReadHead \/ PushHead

Next ==
    \/ SyncStep
    \/ Crash \/ NetworkFails \/ PushAnswerLost \/ LoopFails
    \/ PullFetch \/ PullMerge
    \/ \E e \in Edits : Teammate(e) \/ Edit(e) \/ Mend(e)
    \/ \E d \in Docs : TeammateDeletes(d) \/ Delete(d)
    \/ \E d \in Docs : ReadDocument(d) \/ MergeByHand(d)
    \/ Abandon \/ Keep \/ Take \/ Revise \/ Discard

\* A running sync goes on and sync is run again (the hook of every turn's end
\* runs it), and the frontmatter it held is repaired.  Nobody need settle a copy.
Fairness ==
    /\ WF_vars(SyncStep)
    /\ WF_vars(\E e \in Edits : Mend(e))

Spec == Init /\ [][Next]_vars /\ Fairness

-----------------------------------------------------------------------------
(* Properties.                                                             *)

Published == UNION {Text(Tip(origin)[d]) : d \in Docs}
SavedText == UNION UNION {ToSet(saved[d]) : d \in Docs}
Found == Published \cup SavedText
         \cup UNION {Text(wt[d]) \cup Text(Tip(branch)[d]) : d \in Docs}
Live == made \ (retired \cup exposed)

\* No word is lost: an edit nobody dropped on purpose is at every moment on
\* the shared board, in the local board, in the worktree or in a saved copy,
\* whatever commits, rebases, conflicts, pulls, kills and settlements did,
\* but for the edits a settlement overran.
EditAccounted == Live \subseteq Found

\* What the comments of runResolve say: "words that are not upstream are saved
\* first", and unsent words stop a keep.  False: see README, Known limits.
UnsentKept == made \ ((retired \ overrun) \cup exposed) \subseteq Found

\* A teammate's published words never leave the shared board through this
\* clone's sync, unless someone here chose to drop them or a settlement overran
\* them in the document.
TeammateKept == (Theirs \cap made) \ retired \subseteq Published

\* The tip of the shared board always parses: neither an edit nor a merge of
\* two good edits publishes a broken document.
PublishedParses == \A d \in Docs : ~Broken(Tip(origin)[d])

\* Once people stop writing and commands stop failing, every live edit is on
\* the shared board or in a saved copy sync lists as unsettled, and stays there;
\* live are those nobody dropped and no settlement overran.
Converges == <>[](Live \subseteq Published \cup SavedText)

-----------------------------------------------------------------------------
(* The inductive invariant behind TeammateKept and PublishedParses.        *)

Texts == (SUBSET Edits) \cup {NoDoc}
Trees == [Docs -> Texts]
Commits == [from : Trees, to : Trees]
RebasePCs == {"pick", "stop", "export", "keep", "continue"}
Jobs == [doc : Docs, text : SUBSET Edits, present : Texts, remote : Texts,
         later : BOOLEAN, written : BOOLEAN]
PCs == RebasePCs \cup {"idle", "check", "classify", "remove", "stage", "commit",
                       "heldFetch", "heldMerge", "fetch", "rebase", "hold", "head", "push"}

\* Every variable has its type; a history is never empty.
TypeOK ==
    /\ origin \in Seq(Trees) \ {<<>>} /\ ref \in Seq(Trees) \ {<<>>}
    /\ branch \in Seq(Trees) \ {<<>>}
    /\ index \in Trees /\ wt \in Trees
    /\ reb \in [head : Seq(Trees), todo : Seq(Commits), mine : Trees \cup {<<>>},
                unmerged : SUBSET Docs]
    /\ saved \in [Docs -> Seq(SUBSET Edits)]
    /\ sync \in [pc : PCs, tries : 1..PushAttempts, doc : Docs \cup {NoDoc},
                 stopped : BOOLEAN, carried : Trees, head : Seq(Trees)]
    /\ pull \in {"idle", "merge"}
    /\ job \in Jobs \cup {NoJob}
    /\ made \subseteq Edits /\ retired \subseteq Edits
    /\ overrun \subseteq retired /\ exposed \subseteq Edits
    /\ faults \in Nat /\ deletes \in Nat /\ settles \in Nat

\* A rebase is in progress where sync stands inside one, or was left by a dead run.
RebaseFits ==
    /\ InRebase => reb.head # <<>> /\ sync.pc \in RebasePCs \cup {"idle"}
    /\ sync.pc \in RebasePCs => InRebase
    /\ reb.unmerged # {} => reb.mine \in Trees
    /\ At("keep") => sync.doc \in reb.unmerged
    /\ At("continue") => reb.unmerged = {}

\* All histories start at one commit, and the clone's view of origin is behind it.
OneBoard ==
    /\ IsPrefix(ref, origin)
    /\ branch[1] = origin[1]
    /\ InRebase => reb.head[1] = origin[1]
    /\ At("push") => sync.head # <<>> /\ sync.head[1] = origin[1]

\* The document `new` holds the words of teammates in `old`, but for those
\* someone dropped.
StillIn(dropped, old, new) == (Text(old) \cap Theirs) \ dropped \subseteq Text(new)
Kept(dropped, old, new) == \A d \in Docs : StillIn(dropped, old[d], new[d])

\* No commit of a history loses a word of an earlier one.
Grows(dropped, history) ==
    \A i, j \in DOMAIN history : i <= j => Kept(dropped, history[i], history[j])

HistoriesGrow ==
    /\ Grows(retired, origin) /\ Grows(retired, branch)
    /\ Grows(retired, reb.head) /\ Grows(retired, sync.head)
    /\ \A i \in DOMAIN reb.todo : Kept(retired, reb.todo[i].from, reb.todo[i].to)

\* What is staged holds what the commit below it holds, the worktree what is staged.
StagedOnTop ==
    /\ Kept(retired, index, wt)
    /\ IF InRebase THEN Kept(retired, Tip(reb.head), index)
                   ELSE Kept(retired, Tip(branch), index)

\* A word of a teammate anywhere in the clone came through the clone's view of
\* origin and is still there.
CameThroughRef ==
    /\ Kept(retired, wt, Tip(ref)) /\ Kept(retired, Tip(branch), Tip(ref))
    /\ \A i \in DOMAIN reb.todo : Kept(retired, reb.todo[i].to, Tip(ref))
    /\ reb.unmerged # {} => Kept(retired, reb.mine, Tip(ref))
    /\ \A d \in Docs : \A i \in DOMAIN saved[d] : StillIn(retired, saved[d][i], Tip(ref)[d])

\* What a settlement read of the document came through the clone's view of origin.
ReadThroughRef ==
    job # NoJob /\ ~job.written => /\ StillIn(retired, job.present, job.remote)
                                  /\ StillIn(retired, job.present, Tip(ref)[job.doc])

\* TeammateKept, document by document.
PublishedInPlace ==
    \A e \in (Theirs \cap made) \ retired : e \in Text(Tip(origin)[DocOf[e]])

Parses(tree) == \A d \in Docs : ~Broken(tree[d])

\* What origin holds parses, and what is about to be pushed does.
PushParses ==
    /\ Parses(Tip(origin)) /\ Parses(Tip(ref))
    /\ At("head") => Parses(Tip(branch))
    /\ At("push") => Parses(Tip(sync.head))

BoardInv ==
    /\ TypeOK /\ RebaseFits /\ OneBoard /\ HistoriesGrow /\ StagedOnTop
    /\ CameThroughRef /\ ReadThroughRef /\ PublishedInPlace /\ PushParses
=============================================================================
