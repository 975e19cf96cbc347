----------------------------- MODULE WorkingCopy -----------------------------
(***************************************************************************)
(* The working copy of IntentJournal together with pull, which refreshes    *)
(* documents that no unsettled intent holds and remembers the digest of the *)
(* listing the copy then matches (pull, lastKnownDigest, fencedSnapshot and *)
(* reconcileDeletions of packages/browser-local/src/local-bundle.ts), in    *)
(* exact mode over a wire that reports heads.  Pulls run in several realms  *)
(* at once, beside local operations and push.                               *)
(*                                                                          *)
(* The digest of a listing is the head it lists, Absent when it lists none. *)
(* Wall-clock times only order the starts of the pulls and the stamps of    *)
(* the acknowledgements, so a time is counted in pulls begun; it is taken   *)
(* before the row that carries it is written.                               *)
(***************************************************************************)
EXTENDS IntentJournal

CONSTANTS
    Realms,            \* pages or processes that may pull at once
    MaxPulls,          \* bound: pulls begun
    PullMarkAttempts   \* PULL_MARK_ATTEMPTS

NoDigest == "none"   \* no listing to offer or to record

ASSUME PullAssumption ==
    /\ MaxPulls \in Nat /\ PullMarkAttempts \in Nat
    /\ NoDigest \notin Heads

VARIABLES
    mark,      \* the pull row (PULL_KEY); at first the bootstrap's
    acks,      \* acknowledgements settled: the token of the acknowledgement row
    ackAt,     \* ... and its time: the first run that is younger, 0 without a row
    stamp,     \* the time push has taken for an acknowledgement, 0 without one
    refetch,   \* does the base row ask to be fetched again?
    pulls,     \* the pull of each realm
    runs,      \* pulls begun
    born,      \* history: the serial of the shared head, counted in its changes
    committed, \* history: the serial at which each identity committed
    baseBorn,  \* history: the serial of the head the base row was taken from
    released,  \* history: an intent left without a delivery and held nothing more
    straddled  \* history: a pull began between an acknowledgement's time and its
               \* settlement, and missed it

pullVars == <<mark, acks, ackAt, stamp, refetch, pulls, runs, born, committed, baseBorn,
              released, straddled>>
allVars == <<vars, pullVars>>

Marker(run, at, done, digest) == [run |-> run, at |-> at, done |-> done, digest |-> digest]

IdlePull == [pc |-> "idle"]
Pull(run, at) ==
    [pc |-> "read", run |-> run, at |-> at, attempt |-> 0, known |-> NoDigest,
     expected |-> <<>>, held |-> FALSE, listed |-> Absent, head |-> Absent, born |-> 0,
     consistent |-> TRUE, digest |-> NoDigest, seen |-> <<>>]

PullInit ==
    /\ Init
    /\ mark = Marker(0, 0, TRUE, head)
    /\ acks = 0 /\ ackAt = 0 /\ stamp = 0 /\ refetch = FALSE /\ runs = 0
    /\ pulls = [r \in Realms |-> IdlePull]
    /\ born = 0 /\ baseBorn = 0 /\ released = FALSE /\ straddled = FALSE
    /\ committed = [i \in Ids |-> 0]

-----------------------------------------------------------------------------
(* What the steps of the journal mean for pull.                            *)

Acknowledging == {i \in Unsettled : Has(i)' /\ journal'[i].state = "acknowledged"}
Resolving == \E t \in Tasks : task[t].pc = "review" /\ task'[t].pc = "idle" /\ journal' # journal
Committing == {i \in Ids : recorded[i].kind # "committed" /\ recorded'[i].kind = "committed"}

\* settleAgainstIntent: the answer is settled as committed.
Confirms(answer) ==
    \/ answer.kind = "committed"
    \/ answer.kind = "conflict" /\ answer.version # Absent /\ answer.version = Intent.local

\* settleIntent takes the acknowledgement's time before its transaction.
StampAcknowledgement ==
    /\ stamp = 0
    /\ \/ push.pc = "replied" /\ Confirms(push.answer)
       \/ push.pc = "lookup" /\ access /\ Confirms(recorded[Current])
    /\ stamp' = runs + 1
    /\ UNCHANGED <<vars, mark, acks, ackAt, refetch, pulls, runs, born, committed, baseBorn,
                   released, straddled>>

\* A pull that began after the time was taken, and read the row before.
Straddles ==
    \/ mark.run >= stamp
    \/ \E r \in Realms : pulls[r].pc \notin {"idle", "begun"} /\ pulls[r].run >= stamp

\* settleIntent rewrites the acknowledgement row with the base row, and asks
\* for the document again when the authority stored other bytes; a resolution
\* rewrites the base row alone.
JournalStep ==
    /\ Next
    /\ Acknowledging # {} => stamp # 0
    /\ acks' = IF Acknowledging = {} THEN acks ELSE acks + 1
    /\ ackAt' = IF Acknowledging = {} THEN ackAt ELSE stamp
    /\ stamp' = IF push' = push THEN stamp ELSE 0
    /\ straddled' = (straddled \/ (Acknowledging # {} /\ Straddles))
    /\ refetch' = IF Acknowledging # {}
                  THEN \E i \in Acknowledging : journal'[i].version # journal'[i].local
                  ELSE refetch /\ ~Resolving
    /\ born' = IF head' # head \/ Committing # {} THEN born + 1 ELSE born
    /\ committed' = [i \in Ids |-> IF i \in Committing THEN born' ELSE committed[i]]
    /\ baseBorn' = IF Acknowledging # {}
                   THEN committed[CHOOSE i \in Acknowledging : TRUE]
                   ELSE IF Resolving THEN born ELSE baseBorn
    /\ released' = (released \/ (Unsettled # {} /\ Unsettled' = {} /\ Acknowledging = {}))
    /\ UNCHANGED <<mark, pulls, runs>>

-----------------------------------------------------------------------------
(* pull                                                                    *)

At(r, pc) == pulls[r].pc = pc
Step(r, next) == pulls' = [pulls EXCEPT ![r] = next]
Stop(r) == Step(r, IdlePull)
Clock == <<ackAt, stamp>>
History == <<born, committed, released, straddled, Clock>>

\* Nothing is left to apply: only the digest the pull may record.
Done(r) == [Pull(pulls[r].run, pulls[r].at) EXCEPT
               !.pc = "complete", !.digest = pulls[r].digest, !.consistent = pulls[r].consistent]

\* A head the base row already names needs no fetch.
HoldsVersion(v) == base = v /\ ~refetch

\* Mutant: an acknowledgement does not drop the recorded digest.
DigestKept == IF mark.done THEN mark.digest ELSE NoDigest

\* lastKnownDigest: an unfinished pull's row offers nothing, nor does one that
\* started at or before the time of the last acknowledgement.
LastKnownDigest == IF mark.done /\ ackAt <= mark.run THEN mark.digest ELSE NoDigest

\* The start time is taken before anything is read ...
PullBegin(r) ==
    /\ At(r, "idle") /\ runs < MaxPulls
    /\ runs' = runs + 1
    /\ Step(r, [Pull(runs + 1, 0) EXCEPT !.pc = "begun"])
    /\ UNCHANGED <<vars, mark, acks, refetch, baseBorn, History>>

\* ... then the acknowledgement row that its fence names.
PullFence(r) ==
    /\ At(r, "begun")
    /\ Step(r, Pull(pulls[r].run, acks))
    /\ UNCHANGED <<vars, mark, acks, refetch, runs, baseBorn, History>>

PullRead(r) ==
    /\ At(r, "read")
    /\ Step(r, [pulls[r] EXCEPT !.pc = "mark", !.expected = mark,
           !.known = IF pulls[r].attempt >= PullMarkAttempts THEN NoDigest ELSE LastKnownDigest])
    /\ UNCHANGED <<vars, mark, acks, refetch, runs, baseBorn, History>>

\* The in-progress row goes over the row the digest was read from, or blindly
\* once the attempts are used up; then the held documents are listed.
PullMark(r) ==
    /\ At(r, "mark")
    /\ IF mark = pulls[r].expected \/ pulls[r].attempt >= PullMarkAttempts
       THEN /\ mark' = Marker(pulls[r].run, pulls[r].at, FALSE, NoDigest)
            /\ Step(r, [Pull(pulls[r].run, pulls[r].at) EXCEPT
                    !.pc = "heads", !.known = pulls[r].known, !.held = Unsettled # {}])
       ELSE /\ Step(r, [Pull(pulls[r].run, pulls[r].at) EXCEPT !.attempt = pulls[r].attempt + 1])
            /\ UNCHANGED mark
    /\ UNCHANGED <<vars, acks, refetch, runs, baseBorn, History>>

\* The conditional heads request: not modified, or a listing to compare.
PullHeads(r) ==
    /\ At(r, "heads") /\ access
    /\ LET answered == [Pull(pulls[r].run, pulls[r].at) EXCEPT !.digest = head] IN
       Step(r, IF pulls[r].known = head
               THEN [answered EXCEPT !.pc = "complete"]
               ELSE [answered EXCEPT !.listed = head, !.born = born,
                       !.pc = IF head = Absent \/ pulls[r].held \/ HoldsVersion(head)
                              THEN "reconcile" ELSE "fetch"])
    /\ UNCHANGED <<vars, mark, acks, refetch, runs, baseBorn, History>>

\* readPresent: the document as it is now; the listing is no longer the copy's
\* state when it moved, and a document gone since is not listed.
PullFetch(r) ==
    /\ At(r, "fetch") /\ access
    /\ Step(r, [pulls[r] EXCEPT !.head = head, !.born = born,
           !.pc = IF head = Absent THEN "reconcile" ELSE "apply",
           !.listed = IF head = Absent THEN Absent ELSE @,
           !.consistent = @ /\ head = pulls[r].listed])
    /\ UNCHANGED <<vars, mark, acks, refetch, runs, baseBorn, History>>

\* Mutant: only the pull's own marker is compared.
FenceIgnoresAck(r) == mark = Marker(pulls[r].run, pulls[r].at, FALSE, NoDigest)

\* fenceHolds: still this pull's marker, and no acknowledgement since.
FenceHolds(r) ==
    /\ mark = Marker(pulls[r].run, pulls[r].at, FALSE, NoDigest)
    /\ acks = pulls[r].at

\* fencedSnapshot: what the guard of the write pins.
Pinned == <<doc, base, refetch, journal>>
Snapshot(r, pc) == Step(r, [pulls[r] EXCEPT !.pc = pc, !.seen = Pinned])

\* apply, its snapshot.
PullApply(r) ==
    /\ At(r, "apply")
    /\ IF ~FenceHolds(r) THEN Stop(r)
       ELSE IF HoldsVersion(pulls[r].head) THEN Step(r, Done(r))
       ELSE Snapshot(r, "write")
    /\ UNCHANGED <<vars, mark, acks, refetch, runs, baseBorn, History>>

\* fenceStanding: a guard that refused a write ends the pull when its fence is
\* gone; else the document is held, or it moved and the listing is not matched.
Refused(r) ==
    Step(r, IF ~FenceHolds(r) THEN IdlePull
            ELSE [Done(r) EXCEPT !.consistent = @ /\ Unsettled # {}])

GuardHolds(r) == FenceHolds(r) /\ pulls[r].seen = Pinned

\* A pull that changes the document overtakes the operations that read it.
Refresh(content, from) ==
    /\ doc' = content /\ base' = content
    /\ refetch' = FALSE /\ baseBorn' = from
    /\ task' = [t \in Tasks |-> IF task[t].pc # "idle" /\ content # doc
                                THEN [task[t] EXCEPT !.moved = TRUE] ELSE task[t]]
    /\ UNCHANGED <<journal, paused, minted, overtaken>>

\* Mutant: a document with an unsettled intent is refreshed like any other.
PullWriteUnsettled(r) ==
    /\ At(r, "write")
    /\ IF ~GuardHolds(r)
       THEN Refused(r) /\ UNCHANGED <<localVars, task, refetch, baseBorn>>
       ELSE Step(r, Done(r)) /\ Refresh(pulls[r].head, pulls[r].born)
    /\ UNCHANGED <<push, sharedVars, envVars, reviews, mark, acks, runs, History>>

\* writeJournaled under the guard, which an unsettled intent holds off.
PullWrite(r) ==
    /\ At(r, "write")
    /\ CASE ~GuardHolds(r) ->
              Refused(r) /\ UNCHANGED <<localVars, task, refetch, baseBorn>>
         [] GuardHolds(r) /\ Unsettled # {} ->
              Step(r, Done(r)) /\ UNCHANGED <<localVars, task, refetch, baseBorn>>
         [] OTHER ->
              Step(r, Done(r)) /\ Refresh(pulls[r].head, pulls[r].born)
    /\ UNCHANGED <<push, sharedVars, envVars, reviews, mark, acks, runs, History>>

\* reconcileDeletions: a local document the listing does not name.  With many
\* such documents the whole set is refused, and no digest is recorded.
PullReconcile(r, refuse) ==
    /\ At(r, "reconcile")
    /\ LET gone == doc # Absent /\ pulls[r].listed = Absent IN
       /\ refuse => gone /\ Unsettled = {}
       /\ CASE ~gone -> Step(r, Done(r))
            [] gone /\ refuse -> Step(r, [Done(r) EXCEPT !.consistent = FALSE])
            [] gone /\ ~refuse /\ ~FenceHolds(r) -> Stop(r)
            [] OTHER -> Snapshot(r, "delete")
    /\ UNCHANGED <<vars, mark, acks, refetch, runs, baseBorn, History>>

\* deleteJournaled under the guard: the document goes with its base row, or,
\* held by an unsettled intent, it stays over a base that says absent (onHeld).
PullDelete(r) ==
    /\ At(r, "delete")
    /\ CASE ~GuardHolds(r) ->
              Refused(r) /\ UNCHANGED <<localVars, task, refetch, baseBorn>>
         [] GuardHolds(r) /\ Unsettled # {} ->
              /\ Step(r, Done(r))
              /\ base' = Absent /\ refetch' = FALSE /\ baseBorn' = pulls[r].born
              /\ UNCHANGED <<doc, journal, paused, minted, overtaken, task>>
         [] OTHER ->
              Step(r, Done(r)) /\ Refresh(Absent, pulls[r].born)
    /\ UNCHANGED <<push, sharedVars, envVars, reviews, mark, acks, runs, History>>

\* complete: the finished row over this pull's own, or nothing.
PullComplete(r) ==
    /\ At(r, "complete")
    /\ Stop(r)
    /\ mark' = IF mark # Marker(pulls[r].run, pulls[r].at, FALSE, NoDigest) THEN mark
               ELSE Marker(pulls[r].run, pulls[r].at, TRUE,
                           IF pulls[r].consistent THEN pulls[r].digest ELSE NoDigest)
    /\ UNCHANGED <<vars, acks, refetch, runs, baseBorn, History>>

\* A request fails, or the page goes: the in-progress row stays.
PullFails(r) ==
    /\ ~At(r, "idle") /\ Stop(r)
    /\ UNCHANGED <<vars, mark, acks, refetch, runs, baseBorn, History>>

PullStep(r) ==
    \/ PullBegin(r) \/ PullFence(r) \/ PullRead(r) \/ PullMark(r) \/ PullHeads(r) \/ PullFetch(r)
    \/ PullApply(r) \/ PullWrite(r) \/ PullDelete(r) \/ PullComplete(r) \/ PullFails(r)
    \/ \E refuse \in BOOLEAN : PullReconcile(r, refuse)

PullNext == JournalStep \/ StampAcknowledgement \/ \E r \in Realms : PullStep(r)

PullSpec == PullInit /\ [][PullNext]_allVars

-----------------------------------------------------------------------------
(* Properties *)

\* The copy never goes back: a pull never replaces what an acknowledgement or
\* another pull brought in by a head the authority had before it.  A deletion
\* found under unsettled edits may do so to the base row once a conflict was
\* resolved beside the pull: the resolution renews the base row, not the fence.
PullNeverBack ==
    [][pulls' # pulls /\ ~released /\ (Unsettled # {} => reviews = 0) => baseBorn' >= baseBorn]_allVars

\* Not modified means up to date: when the authority is at the digest the next
\* pull would offer, a document without unsettled edits is the authority's.
UpToDate == LastKnownDigest = head /\ Unsettled = {} => doc = head /\ HoldsVersion(head)

\* lastKnownDigest offers no digest the copy has moved past, as long as no pull
\* began between an acknowledgement's time and its settlement.
DigestHonest == ~overtaken /\ ~released /\ ~straddled => UpToDate

\* What the comments of settleIntent and pull say of every acknowledgement that
\* settles after a pull's start: it drops the digest the pull records.  False: see
\* README, Known limits.
DigestFresh == ~overtaken /\ ~released => UpToDate
=============================================================================
