# Superbee: a TLA+ verification project

Superbee keeps a bundle of documents that people and agents edit locally and
share through an authority or through a Git board. The hard part of the code is
the machinery that keeps an edit exactly once: a cross-process lock and the push
role built on it, a durable store of edits that are not yet shared, a delivery
protocol over a wire that loses answers, pulls that refresh the copy beside all
that, a sign-in session that many commands share, and a rebase loop that must
not lose a word. This project models that machinery from the TypeScript sources
(`packages/*/src`), model-checks it with TLC on small instances, and proves with
TLAPS, for every value of the constants, the safety of the lock, of the push role
over it, of the uncertain write, of the journal of edits, of the pulls beside it,
of the log and snapshot store under it and of the sign-in session, and of a board
that its sync never takes back a teammate's words and never publishes what does
not parse.

`specs/tla` in the repository holds design models written before the code. The
modules here are independent of them: each definition is translated from the
TypeScript lines that `PROJECT.json` names under `map`.

## Contents

| Module | What it is |
| --- | --- |
| `FsLock` | `filesystem-lock.ts` at the granularity of its system calls |
| `Mutex` | what the lock promises, without files; `FsLock` implements it |
| `FsLockProofs` | TLAPS proofs about `FsLock` |
| `PushRole` | `filesystem-push-role.ts` over `FsLock`, which it extends |
| `PushRoleProofs` | TLAPS proofs about `PushRole`, on top of those about `FsLock` |
| `UncertainWrite` | `performUncertainWrite`, the router's identified writes, the outcome store |
| `UncertainWriteProofs` | TLAPS proofs about `UncertainWrite` |
| `IntentJournal` | the working copy of one document: edits, journal, push, settlement, recovery |
| `IntentJournalProofs` | TLAPS proofs about `IntentJournal` |
| `WorkingCopy` | `IntentJournal` composed with `pull`, in several realms at once |
| `WorkingCopyProofs` | TLAPS proofs about `WorkingCopy`, on top of those about `IntentJournal` |
| `FileJournal` | `file-journaled-backend.ts`: log, snapshot and compaction at the granularity of file system calls |
| `DurableStore` | what a journaled store promises, without files; `FileJournal` implements it |
| `FileJournalProofs` | TLAPS proofs about `FileJournal` |
| `HostedSession` | the command line's sign-in session: refresh, device and loopback sign-in, logout |
| `HostedSessionProofs` | TLAPS proofs about `HostedSession` |
| `BoardSync` | the Git synchronisation of a board: commit, rebase, conflicts, hold, push, saved copies |
| `BoardSyncProofs` | TLAPS proofs about `BoardSync` |
| `MC*` and `*.cfg` | instances for TLC |

## Inventory of the system

| Part | State | Operations | Hard behaviour | Correct when |
| --- | --- | --- | --- | --- |
| filesystem lock (`core/filesystem-lock.ts`) | lock directory, `owner.json`, quarantine and released directories, `heldTokens` of each process | claim, release, roll back, quarantine a dead owner, diagnose | crashes between system calls, reused pids, delayed reclaimers, a person removing orphans, failing writes | exclusion; only the dead are moved; a dead owner never blocks; diagnoses are honest |
| uncertain write (`core/uncertain-write.ts`) | attempts, unclear and held flags of one call | submit, look up, resubmit, settle, abort | deadline against a late answer, retries of what was done, refusals of one attempt only | at most one effect; a settled answer stays true |
| recorded outcomes (`server/operation-outcomes.ts`) | answers by key with a retention time, claims in progress with their waiters | claim, record, release, lookup, expire | two requests under one key, failures between claim and record, restart | one claimant at a time, waiters always answered |
| reference router (`server/router.ts`) | none of its own | identified write and delete, replay, lookup | reused keys | an answer is replayed only to its own request |
| working copy (`browser-local/local-bundle.ts`) | document, base row, journal of intents, sync row | commit, delete, review and resolve a conflict, resume, reclaim, push, settle, pull | pages and tabs that race, lost answers, crash between claim and settlement, chains of edits | no edit is lost, delivered out of order or applied twice |
| journal seam and its adapters (`core/journaled-backend.ts`, `file-journaled-backend.ts`, the IndexedDB backend) | documents, intents, bases, sync rows; a log and snapshots on disk | guarded transactions, recovery at open | torn log tails, compaction, several processes | a transaction is all or nothing and durable |
| push role (`core/filesystem-push-role.ts`) | none of its own; a claim of the filesystem lock | request if available or with a wait, grace for a claim in progress, release | a dead holder whose pid was reused, a snapshot of an owner that released since | one push at a time; a live holder is never blamed as stale |
| hosted session (`cli/hosted-auth`) | `session.json`, the credential store, `pending.json`; the issuer's token families | token for a command, refresh, device and loopback sign-in, logout | two commands refresh a rotating token, an answer lost after the rotation, a crash between two files, a logout beside a pending sign-in | no family is revoked for reuse or left adrift; a logout ends what it can see; re-running signs in |
| board git (`board-git`, `cli/commands/sync`) | worktree, index, branch, remote-tracking ref, a rebase in progress, saved copies | sync, background pull, keep, take, revise | conflicts, a push that loses its race, a kill inside a rebase, writes between Git commands and inside a settlement, merges that do not parse | no word is lost; the shared board always parses; sync converges |
| hosted client, hosted sync (`hosted-client`, `cli/hosted`) | stored intents, a file projection | deliver, reclaim, push, pull | the protocols they drive | see the modules of those protocols |
| document engine, bundle, kinds, links, queries, search | none between calls | sequential data handling | - | functional tests reach it |
| view runtime, UI server, MCP app, browser UI, publication, CLI | connections, pending launches | message handling, I/O, rendering | - | see `components` |

How they interact. A local operation of the working copy reads document and
journal, composes an intent, and writes both in one guarded transaction of the
journal seam. `push`, under the push role (itself a claim of the filesystem
lock, `PushRole` over `FsLock`), takes the pending intents in order, marks each
in flight, and gives it to
`performUncertainWrite`, which sends it under the intent's request identity to
the router; the router claims the identity in the outcome store, applies the
write as a compare-and-swap, and records the answer. The answer travels back
and is settled into the journal. `pull` refreshes what no unsettled intent
holds; its fence (its own marker and the acknowledgement row) keeps it from
writing what another pull or an acknowledgement has passed. A board takes the
other way: `sync` commits the worktree and rebases and pushes with Git, and the
words that lose a conflict become saved copies.

`PROJECT.json` lists every part with its status under `components`, and under
`hazards` what is hard to test, at its line, with the properties that watch it.

## FsLock

State: what is at `lockPath`, at `lockPath.stale-<token hash>` and at
`lockPath.released-<token hash>`; the status of each process; `heldTokens`; and
for each claim (one call of `claimLockPath`) its program counter and local
variables. One action is one system call or one look at the clock or the
process table:

| Code | Actions |
| --- | --- |
| `claimLockPath` loop | `Begin`, `Mkdir`, `Read`, `Check`, `Stat`, `Open`, `Write` |
| `quarantineStaleLock` | `Judge`, `Verify`, `Rename`, `Reread` |
| `timeoutError` | `Check`, `Recheck` |
| release | `Release`, `ReleaseRead`, `ReleaseRename`, `ReleaseRemove` |
| `rollBackOwnClaim` | `RollbackRead`, `RollbackStat`, `RollbackRename`, `RollbackRemove` |
| environment | `Start`, `Die`, `Expire`, `RemoveOrphan` |

A directory carries an identity (inode and birth time) that is never reused. A
claim and its random token are the same value. Two process incarnations may
share a pid, never at the same time on one host. `ReadFaults`, `WriteFaults`,
`ClockSteps` and `MaxRemovals` switch on failing system calls, a wall clock
that moves against the process's uptime, and the person who removes an
owner-less directory as the timeout error suggests.

Abstractions: the default host policy (a rename that meets a sharing violation
on a Windows-like host is retried there and not here); the choice and privacy
check of the lock root; time, which only shows as a spent wait budget at the
check.

| Run | Instance | Shows |
| --- | --- | --- |
| `lock_faults` | three claims by three processes, two sharing a pid; all faults, no removal | exclusion, the holder's record stays, quarantines hold only the dead, honest diagnoses, a rollback moves only its own directory, refinement of `Mutex` |
| `lock_orphan` | two claims by one process, one by another, hosts that differ, one removal | exclusion survives the removal, because the suspended claimer finds its directory gone or another's record in place; the inductive invariant `LockInv` holds. No write fails here, so no rollback renames anything; with failing writes as well the lock does not exclude, see "Known limits" |

Three claims are enough for the races the code defends against: a dead owner, a
reclaimer that is delayed between its last look and its rename, and a third that
reclaims and takes the lock in between. Nothing in the model lets a fourth
claim do more than one of these three; the proofs have no bound.

Liveness of the lock is checked through `PushRole`, its caller.

## PushRole

A request of the push role is one claim of the lock followed by what
`filesystem-push-role.ts` makes of its outcome: `Settle` after the callback ran,
`LookAtAge` (`acquireSettled` and `lockAgeMs` on a lock without a name),
`RejectStale`, `AskStart` (`processStartedAt` of the holder's pid), `Confirm`
(`lockHeldBy`), `AnswerHeld` (null for `ifAvailable`). `LockStep` is a step of
`FsLock`; `Age` lets an owner-less directory outlive the grace.

`lock_role` has three requests, two of them by processes that carry the same pid
one after the other, and no failing writes (`request` passes those through). It
shows that a request that began after the recorded holder died does not skip in
silence and leave that lock in the way if its host answered when asked for a
start time (`DeadHolderNeverSkipped`), that a
restarted process with its predecessor's pid reclaims (`RestartReclaims`), that
a live replacement is never blamed (`BlamedHolderIsDead`) and that every request
settles (`RequestSettles`).

Two of them needed care to be true of every instance, which only the proofs
brought out. `RestartReclaims` excuses one thing: where reads fail
(`ReadFaults`), a record that could not be read when the request asked may come
out as a stale owner, which is reported and not skipped. `DeadHolderNeverSkipped`
is about the processes the request can have seen: `seen` is a history variable
that holds those that had been started when it asked. A holder's pid that a
third process takes over while the request is deciding can make it skip; it was
then a live pid that answered, and the next sync looks again. When the host
does not say when the process started (`ps` is missing, fails or takes longer
than two seconds) `AskStart` takes the holder for a live one, as line 168 does:
that case may happen in every behaviour of the model and is left out of the
property by name (`seen` is empty). The instance
keeps three processes, as a fourth with the liveness property takes TLC five
minutes; the theorems have no bound.

Fairness (`RoleSpec`): a live process keeps issuing its system calls and its
decisions (weak fairness of a claim's step), and a claim that looks at its clock
again and again finds the budget spent at last (strong fairness of `Expire`,
enabled only at the check). Release by the holder, process start and death have
none: nobody owes them. All processes are on one host in the instance, so the
branch of `AnswerHeld` for a foreign holder is stated and not exercised.

## UncertainWrite

State: the shared document and every head it has had; under each key the
recorded answer and the claim in progress; each submission, on the wire or in
the router; whether the caller is authorized and the gateway admits the bytes;
the variables of each write's calls. A version is a hash of a content, so a
version is its content, and a document that returns to a content returns to its
version.

| Code | Actions |
| --- | --- |
| `performUncertainWrite` | `Call`, `Submit`, `Answer`, `Deadline`, `Lookup`, `LookupFails`, `Abort`; `SettleAgainstIntent`, `RefusalSettles`, `RefusalLeavesUnknown` |
| `applyIdentified`, `replay` | `Arrive`, `Claim`, `Apply`, `Record`, `ApplyFails`, `RecordFails`; `Replay` |
| `MemoryOperationOutcomeStore` | inside `Claim`, `Record`, `RecordFails`; `Expire`, `Restart` |
| environment | `Edit`, `FlipAuth`, `CloseGate` |

Abstractions: exact-content mode only, called as the hosted client's `deliver`
does (`earlierDeliveryUnclear` once a delivery was attempted); the recorded-only
mode with an explicit start, used for blobs and bodies, is not modelled. A
lookup of the reference server cannot tell a held identity from an unknown one;
an authority that can is the case `TellsPending`. A lookup is not bound to the
method or document, as in the router.

| Run | Instance | Shows |
| --- | --- | --- |
| `uncertain_client` | one update over three contents, two calls of two submissions, two lookups each, one lost answer, one third-party edit, one loss of access, one closing gate | at most one effect per kept answer; one answer for all submissions; no false commit; a write reported as settled never takes effect later; the inductive invariant `WriteInv`, which has the type invariant as a part |
| `uncertain_server` | an update and a refused delete under one key, two submissions each, failing applications and records, a restart, fairness | the store gives a key to one request; a waiter has a working claimant and is answered |

Two submissions in two calls give four requests that can be on the wire or in
the router at once, which is one more than the longest chain a property speaks
of (a late first delivery, the one that is answered, the one a later call
sends). The third content is one that neither the premise nor the update is, so
that a conflict with somebody else's edit differs from one with the update
itself.

Fairness: an admitted request keeps running while its process lives (weak
fairness of its `Claim`, `Apply`, `Record`). The wire owes nothing, nor does a
client.

`SettledStaysSettled` counts a gateway's refusal only once a lookup has said
that a delivery is held. Before that the code takes the gateway's refusal of the
same bytes as final, on the gateway's word that a delayed delivery will be
refused too.

## IntentJournal

State: the working document, the base row, the journal (the intents by their
identities, which are numbered in sequence order, each with premise, content,
predecessor, attempts, state), the sync row's pause; local operations under way; the run of push; the authority's head and its answer
under each identity; deliveries whose sender gave up or crashed.

| Code | Actions |
| --- | --- |
| `commitLocal` | `Edit`, `Compose`, `Write`, `Recompose`, `GiveUp`; `ComposeIntent`, `SupersedingIntent` |
| `deleteLocal` | `DeleteLocal`, then the same |
| `inspectConflict`, `resolveConflict` | `Review`, `TakeRemote`, `KeepLocal`; `IsConflictChain`, `Retirable` |
| `resume`, `reclaimInFlight` | `Resume`, `ReclaimInFlight` |
| `push` | `BeginPush`, `Skip`, `Fold`, `ClaimIntent`, `Send`, `Receive`, `Lookup`, `LookupFails`, `EndPush`; `ChainedPremise` |
| `settleIntent` | `Settle`, inside every action that ends a delivery |
| journal transactions | the guards `DocumentHolds`, `SupersedeHolds` and the update `Journaled` |
| wire and authority | `Arrive`, `Execute`, `Lose`, `LateArrive`, `LateExecute`, `Crash`, `Foreign`, `FlipAccess` |

A local operation is a read followed later by a guarded transaction, so two of
them, in one page or in several, interleave with each other and with push. The
authority may store its own serialization of a content (`Canon`), as the hosted
one does with managed fields.

`overtaken` records that a guarded write passed although the document had
changed since it was read: it changed and changed back (versions are content
hashes), or a deletion found the document already deleted, or the intent the
edit was composed to follow had been resolved away (`Unhinged`). The code does
not guard against any of them; the properties speak of behaviours without them,
which the constraint `Sound` leaves out early, and "Known limits" says what they
lead to.

Abstractions: one document; exact mode, where acknowledged rows stay in the
journal as premises of their successors; an authority that names tombstones,
bootstrap, body mode and blobs are not modelled; pull is in `WorkingCopy`; one
push at a time is taken from the push role; delivery is a shorter `UncertainWrite` whose answers
are never lost.

| Run | Instance | Shows |
| --- | --- | --- |
| `journal` | two concurrent operations, three intents, two attempts, a review, a foreign edit, two faults or a fault and an access flip; at most two mishaps in all, and two operations under way at once only before the first fault or flip; two intents where these meet the foreign edit or a second mishap strikes | every edit accounted for; no self-conflict; deliveries in order; a retired identity never commits |
| `journal_denied` | see Findings | violation |

Three identities make a chain (a delivered intent, its successor, and what
replaces the successor); two attempts let a delivery be lost and repeated; two
contents of which the authority stores one as the other make every comparison of
local and served bytes matter. Two operations under way at once may meet a push,
a resolution and a foreign edit; crashes, lost answers and access changes come
after that window, and a behaviour has its third intent with one mishap or two
concurrent operations but not with two mishaps. These are bounds on size and nothing else:
they keep the run at 1.3 million states. Three intents throughout (4.4 million
states) pass as well; with three mishaps and no bound on when they happen the
instance has more than 17 million, too many for a routine run.

## WorkingCopy

`IntentJournal` with what `pull` adds: the pull row (`mark`), the acknowledgement
row (its token `acks`, its time `ackAt`), the time push has taken for the next one
(`stamp`), the base row's `refetch` flag, and the pulls under way, one per realm (a
page or process). A time is counted in pulls begun.

| Code | Actions |
| --- | --- |
| `pull` up to its mark | `PullBegin` (`startedAt`), `PullFence` (the acknowledgement row), `PullRead` (`LastKnownDigest`), `PullMark` |
| heads request and fetch | `PullHeads`, `PullFetch` |
| `apply` | `PullApply` (`Snapshot`, the fence), `PullWrite` (`GuardHolds`, `Refresh`, `Refused`) |
| `reconcileDeletions` | `PullReconcile`, `PullDelete` |
| `complete` | `PullComplete` |
| `settleIntent`, before its transaction | `StampAcknowledgement` |
| any step of the journal | `JournalStep`: `Next` of `IntentJournal` with the rows settlement and resolution rewrite |
| environment | `PullFails` |

`working_copy` has one local operation at a time, one identity, two changes by
others and two pulls, in the same realm or in two. A pull loses no local edit
(`EditAccounted`), never replaces what an acknowledgement or another pull
brought by an older head (`PullNeverBack`), and the digest it records is offered
only by a copy that is at it (`DigestHonest`). Two pulls are an older and a newer
one, or one that records a digest and one that offers it.

The instance resolves no conflict (`MaxResolutions = 0`); the theorems allow any
number. `DigestHonest` speaks of behaviours without an overtaken write or a
released document, which are exactly those the constraint keeps, and in which no
pull straddled an acknowledgement: `settleIntent` takes the time before its
transaction, and a pull that begins after the time but reads the row before the
transaction is not dropped by it (`Straddles`). The code says it is
(`DigestFresh`); see "Known limits". `PullNeverBack` excuses one step by name, a
deletion that finds unsettled edits after a conflict was reviewed: see "Known
limits".

Abstractions: the digest of a listing is the head it lists; the authority
reports heads, the adapter has `journalSnapshotCas` and the mode is exact, so
every pull is fenced; the bound on deletions is a free choice (`refuse`);
documents that cannot be stored are left out; the bootstrap appears as the first
pull row. Times only order the starts of pulls and the times of acknowledgements:
equal clock readings drop a digest and are on the safe side, a clock that steps
back is not modelled.

## FileJournal

State: log, snapshot and temporary snapshot as a process reads them now, and for
log and snapshot the set of contents a power loss may leave; the open handle's
index, transaction number and log length; the call in progress. The store's lock
admits one handle and `#serial` one call at a time, so one program counter is
enough.

| Code | Actions |
| --- | --- |
| `open` | `Open`, `Prune`, `Create`, `SyncLogEntry`, `OpenLog`, `Mend`, `MendSync` |
| `#mutate`, append | `Begin`, `WriteRecord`, `SyncRecord`, `Undo`, `UndoSync` |
| `compact` | `Compact`, `WriteSnapshot`, `SyncSnapshot`, `RenameSnapshot`, `SyncSnapshotEntry`, `EmptyLog`, `SyncEmptyLog` |
| `close` | `Close` |
| environment | `Kill`, `PowerLoss` |

`file_journal` (three mutations that need different formats, two failing calls,
two crashes, compaction after one record) shows that whatever the process or the
host does, the next open accepts the files and finds every mutation that
resolved (`ResolvedSurvives`), that a rejected mutation leaves nothing unless the
store says it is in doubt (`RefusedLeavesNothing`), that the index of a store at
rest is what its files say (`IndexMatchesFiles`), that the inductive invariant
`StoreInv` holds, and that the whole implements `DurableStore` (`ImplementsStore`). Two crashes give a crash inside the recovery
from a crash; two faults, a failing append whose undo fails too.

Between two fsyncs the file system applies the truncations, extensions and
renames of one file in order and the bytes of an append in any order; a
successful fsync is durable. `EntryWithFile` makes an fsync of a file cover its
directory entry. A whole record that was never fsynced may be found after a
kill and lost at a later power loss: it was never acknowledged, and the
abstract store allows it.

## HostedSession

State: what each process runs; the session lock; `session.json`, the credential
store, `pending.json`; the issuer's view of the device code and of the token
families, with the leeway for a spent token; refresh requests nobody waits for.

| Code | Actions |
| --- | --- |
| `ensureHostedAccessToken` | `Begin`, `Acquire`, `Busy`, `Look`, `RefreshAnswer`, `RefreshError`, `RefreshLost`, `Retry` |
| `persistTokens` | `Save`, `SaveFails`, `Record`, `RecordFails`, `DefaultHost`, `RevokeNew`, `Forget` |
| `clearSession`, `logoutHosted` | `Leave`, `ClearStore`, `Unfile`, `RevokeOld` |
| device and loopback sign-in | `SignIn`, `Device`, `Poll`, `PollFails`, `Callback`, `Exchange` |
| environment | `Confirm`, `Deny`, `CodeExpires`, `Interval`, `Age`, `LeewayEnds`, `LateArrive`, `FamilyEnds`, `Crash` |

`session`: two processes, two faults, two background pulls, logouts or loopback
logins, one expiry of an access token. No command trips the issuer's reuse
detection unless an answer was lost (`ReuseOnlyAfterLoss`); a cache is never
ahead of its refresh token (`CacheNeverAhead`); a logout ends every command that
was refreshing and every device code that was waiting (`LogoutFinal`); no family
is cut loose except by a named fault (`NoFamilyAdrift`); a session is given up
only when it is dead (`GivenUpOnlyWhenDead`); re-running the command signs in
(`EventuallySignedIn`).
Two processes are enough for every race of a holder and a waiter, as the lock
admits one; the two faults cover an answer that is lost and whose retry fails.

What a logout does not end is a loopback login. `loopbackSignIn` shows its link
and waits for the browser without the lock (`"browse"`, loopback.ts:55-107) and
takes the lock only to redeem the code (108); `logoutHosted` (session.ts:1225)
looks at the files and the store, and cannot see it. A login that was begun
before the logout therefore brings a session back after it. The model has that
behaviour: `early` holds the loopback logins a logout found under way, and
`outrun` says that one of them has redeemed its code since. `LogoutFinal` excuses
exactly that, so it says: after a logout there is no session, unless a device
code was requested since, a loopback login was begun since, or one that the
logout found under way has outrun it.

Fairness: a command that was started runs; a loopback login's timer ends its wait
for the browser; some waiter takes a free lock (no
waiter in particular); the person re-runs the command and confirms the code; the
polling interval passes. Expiry, denial and faults have none.

Abstractions: one credential store; the issuer always gives a refresh token and
has a revocation endpoint; the environment's token, a client identity that does
not match and `next_poll` are left out; the device request and the write of
`pending.json` are one step; families of a lost poll or exchange are not
created; reclaiming the lock of a dead command is `FsLock`'s. A loopback login
that cannot be saved leaves its family unrevoked; `NoFamilyAdrift` excuses it by
name.

`GivenUpOnlyWhenDead` says of a cleared `session.json` that the person logged
out, that no refresh token was stored, or that the family of the stored token is
dead. It does not say that the family `session.json` names is dead: a loopback
login that saved its token and then failed to record the session leaves the
older session on file beside the newer token, and when the newer family is
ended the older session goes with it. That takes four faults, more than the
instance has; the proof attempt asked for it and TLC then showed the behaviour.

## BoardSync

State: origin's board branch; the clone's remote-tracking ref, branch, index,
worktree and rebase in progress; the saved copies; the running sync and the
background pull. A history is the sequence of its trees. A document is the set
of edits its text holds; Git cannot merge two edits of one region, and two edits
may merge into a document whose frontmatter does not parse.

| Code | Actions |
| --- | --- |
| start of a sync | `HealRebase`, `CheckWorktree`, `ClassifyCopies`, `RemoveCarriedCopies`, `StageAll`, `CommitStaged` |
| the converging rebase | `FetchOrigin`, `StartRebase`, `PickCommit`, `FinishRebase`, `LookAtStop`, `ExportMine`, `KeepUpstream`, `ContinueRebase`, `ContinueRefused` |
| hold and push | `HoldMalformed`, `HeldFetch`, `HeldMerge`, `ReadHead`, `PushHead` |
| background pull | `PullFetch`, `PullMerge` |
| `runResolve` | `ReadDocument`, then `Keep`, `Take`, `Revise` or `Abandon`, then `Discard` |
| people, faults | `Edit`, `Mend`, `Delete`, `MergeByHand`, `Teammate`, `TeammateDeletes`; `Crash`, `NetworkFails`, `PushAnswerLost`, `LoopFails` |

A settlement (`job`) reads upstream's version, the oldest copy and the document,
judges what it read, writes over what the document is by then, and removes the
copy. What the document held that the settlement had not read, and neither meant
to drop nor had saved, is `overrun`. The code loses such words against what its
comments say (`UnsentKept`, see "Known limits"); `EditAccounted`, `TeammateKept`
and `Converges` speak of the other words.

`board_sync`: two documents, an edit here and a repair, two edits by teammates,
one of which conflicts and one of which merges into a broken document, one
deletion (of either document, so that a replayed commit carries a change that
conflicts and one that does not), one settlement, one fault, two push attempts
(the code has five; two make a lost race and a last attempt). No word is lost
(`EditAccounted`), a teammate's published words stay (`TeammateKept`), the shared
board parses (`PublishedParses`), and sync converges (`Converges`). Two larger
choices pass as well and are in no run: an edit of each document without a
deletion (209,132 states), and two settlements of one document, the second of
which finds copies the first one made or left (two edits here, one by a teammate,
no deletion, 253,083 states). Nobody writes while a rebase is stopped
(`WritesAtStops = FALSE`); with such writes it is the finding `board_skip`.

Fairness: a running sync goes on and is run again (a hook runs it at the end of
every turn), and a frontmatter it held is repaired at last. Nobody owes the
settlement of a copy.

Abstractions: one sync at a time beside one background pull (two syncs of one
clone are a listed hazard without a property); Git commands are atomic; a replay
over an untracked file, which Git refuses until the loop gives up and aborts, is
cut off (the registered instances do not reach it; one with a deletion and two
settlements, or with two deletions and writes at stops, does and ends there); a
settlement reads its three texts in one step, and writes and discards outside a
rebase; a copy is known by its words, so where a sync has removed a settlement's
copy and saved the same words again, `Discard` takes the new one; the engine's
stamps are left out, so a document `keep` rewrote counts as having the bytes of
the copy; commits that origin, ref and branch share are forgotten (`Forget`);
claims, the split of frontmatter and body in `keep`, the marker of a moved board,
the private-state check, the in-tree channel, runs that only pull, establishment
of a board, and the cursor and its cache are not modelled; a gate that refuses the
push is one of the outcomes of `NetworkFails`. What sync has judged to be carried
(`sync.carried`) is one text per document: the saved copies of a document differ
(`WithCopy`), so at most one of them is what the document says.

## Proofs

Every theorem is about a module's specification with its constants arbitrary but
for the assumptions stated in the modules (`ClaimAssumption`, `NoDirAssumption`,
`WriteAssumption`, `AbsenceAssumption`, `BoardAssumption` and the like): they fix
types, say that the names of absent things are no values of the kind they are
absent from, and every run evaluates them. Each proof has the same form: an
inductive invariant that is a conjunction of named parts, one lemma per part or
group of parts with one step per action, the operators' facts as lemmas before
them, and the temporal theorems at the end. The parts were first checked by TLC
as invariants on the instances, where no registered run does it already
(`LockInv` in `lock_orphan`, `WriteInv` in `uncertain_client`, `StoreInv` in
`file_journal`); `JournalInv`, which TLC checked with three intents
throughout (over four minutes), is in no run.

### FsLockProofs

`TypeCorrect` holds of every instance. The other theorems assume
`Mode == ~(WriteFaults /\ MaxRemovals > 0)`: not both failing writes and a
person removing orphans. With both, `Exclusion`, `RecordStays` and
`RollbackIsOwn` are false, see "Known limits".

| Theorem | Property |
| --- | --- |
| `TypeCorrect` | `TypeOK` |
| `Invariance` | `LockInv` |
| `Exclusion` | `MutualExclusion` |
| `RecordStays` | `HolderKeepsRecord` |
| `QuarantineIsOfTheDead` | `EvidenceOfTheDead` |
| `RollbackIsOwn` | `RollbackMovesOwn` |
| `DiagnosisIsHonest` | `HonestDiagnosis` |
| `Refinement` | `ImplementsMutex` |

`MutualExclusion` is not inductive: what matters is what a claim
is about to do with what it has already seen. The heart of `LockInv` is
`ReclaimFenced`: a
reclaimer that has verified the record of a dead owner and not yet renamed
finds, at its rename, either that owner's record still at `lockPath`, or that
owner's quarantine already there; a rename onto a non-empty directory fails, so
the second reclaimer of the same owner cannot move the lock of its successor.
`SnapshotsSound` (an owner judged gone is over for good) rests on `PidsUnique`
and `TokenHeld` through the lemma `GoneIsOver`; `WriterAlone` and
`ClaimOwnsDir` say that a claim that is still writing its record has the
directory to itself, and `LostClaimMovesNothing` that a claim that lost its
directory to a removal rolls back nothing. `HolderKeepsRecord` then gives
exclusion, as a directory holds one record, and every step maps to a step of
`Mutex` or to a stutter (`PhaseStep`).

### PushRoleProofs

| Theorem | Property | Assumes |
| --- | --- | --- |
| `RoleInvariance` | `RoleInv` | |
| `RoleTypeCorrect` | `TypeOK /\ RoleTypeOK` | |
| `RoleExclusion` | `MutualExclusion` under `RoleSpec` | |
| `Reclaims` | `RestartReclaims` | `~ClockSteps` |
| `NeverSkips` | `DeadHolderNeverSkipped` | `~ClockSteps`, `~ReadFaults`, `~SubSecond` |
| `BlameIsRight` | `BlamedHolderIsDead` | `~ClockSteps` |

`RoleSpec` is not the specification of the lock: a request whose claim timed out
on a lock without a name claims again under the same token. `RoleInv` is
`LockInv` with what makes that retry harmless, `NamesAcquired`: a claim that
never acquired is named by no record, no snapshot and no quarantine. So the step
lemmas of `FsLockProofs` serve for the lock's steps, and exclusion carries over.
`RoleSpec` does not implement `Mutex` claim by claim, since a claim that failed
there may begin again; no such theorem is stated.
The other parts follow one dead holder through a request: its record leaves the
lock once (`RecordMovedOnce`), it stays dead (`GoneForGood`), its pid is or is
not somebody's (`OwnPidKnown`), and so whoever is suspected is dead
(`SuspectDead`) unless nobody is to be suspected (`NobodyToSuspect`). The
hypotheses are the conditions under which a start time tells two processes of
one pid apart: a clock that does not step (`ClockSteps`), a holder's successor
that starts later than the resolution of a start time (`SubSecond`), a record that
can be read (`ReadFaults`). Each is needed: with any one of them dropped, TLC
refutes the statement on the instance of `lock_role`. The theorem says nothing of
a request whose host did not answer, see "Known limits". That the role admits no
failing write is `RoleAssumption`, as `request` passes one through to its
caller.

### UncertainWriteProofs

| Theorem | Property |
| --- | --- |
| `Invariance`, `TypeCorrect` | `WriteInv`, `TypeOK` |
| `AppliedOnce` | `AppliedOncePerRecord` |
| `SubmissionsAgree` | `OneAnswer` |
| `NoStrandedWaiter` | `WaitersHaveClaimant` |
| `RefusalsSettle` | `SettledStaysSettled` |
| `CommitsAreReal` | `CommittedIsReal`, if `OwnKeys` |

`ClaimsAgree` ties each claim in the outcome store to the one request that works
under it and each waiter to such a claim; `CountsAgree` keeps the counters of
effects, losses and submissions in step; `EffectsKept` says where an effect is
remembered (in the record, in the claim that is still to record it, or lost and
counted); `AnswersReplay` that whatever was answered while a record is kept is
what the record says; `ClientKnows` what the variables of
`performUncertainWrite` say about the requests it has sent, which is what
`SettledStaysSettled` hangs on. `CommitsAreReal` needs `OwnKeys`, a request
identity of its own for every intent: a caller that reuses a key for two intents
may be told the other one's commit by a lookup, as a lookup carries no method and
no document. Its second invariant, `AnswersTruthful`, says that no answer,
recorded or not, claims a content that the document never had.

### HostedSessionProofs

| Theorem | Property |
| --- | --- |
| `Invariance`, `TypeCorrect` | `SessionInv`, `TypeOK` |
| `OneAtWork` | no two commands at a station where the session is read or written |
| `NoSelfReuse` | `ReuseOnlyAfterLoss` |
| `CacheHonest` | `CacheNeverAhead` |
| `LogoutHolds` | `LogoutFinal` |
| `FamiliesReached` | `NoFamilyAdrift` |
| `SessionsKept` | `GivenUpOnlyWhenDead` |

`Excluded` is the lock; on it rest what a command at a station knows of the files
(`StationsKept`, `HandIsStored`), what a reader without the lock may see
(`CacheBehind`) and when a stored token may go (`StoreExpendable`). `TokensIssued`
and `NewestKept` relate tokens to the issuer: outside a recorded loss, a token at
hand or in the store is the newest of its family, so that presenting it is no
reuse. `LogoutQuiet` says that after a logout no refresh and no device sign-in that
began before it is on its way to the store, as long as no loopback login has
outrun it. The proof of `SessionsKept` failed on the property's first
form and TLC, given more faults, refuted that form; see `HostedSession` above.

### BoardSyncProofs

| Theorem | Property |
| --- | --- |
| `Invariance`, `TypeCorrect` | `BoardInv`, `TypeOK` |
| `TeammatesKept` | `TeammateKept` |
| `AlwaysParses` | `PublishedParses` |
| `WordsKept` | `EditAccounted` |

`TeammateKept` speaks of the tip of origin only, and a push replaces that tip by
what the clone's rebase made. So the invariant follows a teammate's word through
the clone. `HistoriesGrow`: in origin, the branch, the head of a rebase and the
head about to be pushed, no commit loses a word of an earlier one, unless
somebody dropped it. `StagedOnTop`: what is staged holds what the commit below
it holds, and the worktree what is staged, so no later commit of the clone loses
one either. `CameThroughRef`: every teammate's word in the worktree, the branch,
a commit still to be replayed or a saved copy is in the clone's view of origin
as it is now; so when a conflict is settled for the upstream side, or a copy
brings words back, nothing comes or goes that origin does not know of.
`ReadThroughRef` says the same of what a settlement has read and not yet acted
on, so a `take` that removes the document drops no teammate's word but those it
overruns. `CameThroughRef` is why taking the ref "as it is now", and not as it was
when the rebase began, is right although a background pull may have moved it. `OneBoard` (all histories
begin at one commit, and the ref is behind origin) is what makes the list of
outgoing commits the commits between neighbours. A three-way merge without a
conflict keeps a word when the merged side kept its base's (`MergedKeeps`), and
a push that Git accepts has origin as its prefix, so the tip that is replaced is
kept (`PrefixKept`). `PushParses` is the hold: from its look until the push, the
head that parses is the head that is pushed.

These theorems allow what the instance leaves out: any number of documents,
edits, deletions, settlements, faults and attempts, and writes while a rebase is
stopped.

`WordsKept` is about the words of this clone's people that nobody dropped and no
settlement overran, and needs to know where each of them is. `Ahead`: what origin
holds beyond the histories of the clone drops none of them, since only this clone drops such a word and does so on top
of what it last saw; a fast-forward, and the commit a rebase starts below, lose
none. `Local` has one part per situation. `Rest`: outside a rebase the word is in
the worktree or in a saved copy. `Back`: inside one, `--abort` would bring it
back from the branch, a copy has it, or it is in an untracked file that Git
leaves alone; and the worktree is what is staged. `Chain`: the commits still to
be replayed lead to the branch. `Picking`: what has been replayed so far holds
the words of the commit it stands for, or a copy does, or the document is still
unmerged; so when the last one is done nothing is missing, a skipped commit is
empty, and upstream's version is kept only after yours was saved. `Carried`: a
copy judged to be carried has its words in the document or in another copy at
the moment it is removed, although the document may have changed in between.
`JobWords`: a settlement that has written has the words of its copy in the
document as it left it, or dropped them, so the copy may go; what left the
document between the write and the discard is overrun.

The theorem has two premises. `~WritesAtStops`: with writes at a stop the property
is false, which is the finding `board_skip`. `TakesStep`: a `take` that leaves the
document as it stands, because a later copy is to be settled, leaves no word of
its copy that upstream holds and the document lacks. It does fail after two
conflicts of one document and a failed conflict loop: then only the clone's view
of origin holds the word, the invariant is broken, and its survival depends on
what the next replay will do. The invariant was checked with TLC before it was
proved; `TakesStep` holds on every step of the instance of `board_sync` and of the
two larger choices named above.

### IntentJournalProofs

| Theorem | Property |
| --- | --- |
| `Invariance`, `TypeCorrect` | `JournalInv`, `TypeOK` |
| `EditsAccounted` | `EditAccounted` |
| `DeliveryInOrder` | `DeliveredInOrder` |
| `NoSelfConflicts` | `NoSelfConflict` |
| `RetiredStaysUncommitted` | `RetiredNeverCommits` |

`EditAccounted` says that a working document without unsettled intents is the
base row. To be inductive it has to say where the document's words are while
there are some: in the last of them (`Accounted`), which hangs on the one before
it, and so on to the first (`Chained`), which was made over the base row or over
the answer to the intent it waited on (`FirstPremise`; its parameter weakens it
for the pulls of `WorkingCopy` and is `FALSE` here). A local operation writes what it composed from an earlier read, so `Fitting` says that what it carries
still fits the end of that chain as long as the document it read is the document
there is. Below that, and without exception, `BaseInv` ties the journal to the
authority: a row claims no more than the record under its identity (`Honest`), a
delivery on the wire is what its row says and has no answer yet (`Recorded`),
only its own push moves the row of a delivery under way (`Claimed`), and an
identity nobody minted is unknown everywhere (`Numbered`). `Alone` (without
changes by others the shared head is the base row or the answer on its way to
it) gives `NoSelfConflict`; `Retired` (with access, what left the journal is not
on the wire) gives `RetiredNeverCommits`.

The three histories are hypotheses of the parts that need them: the chain holds
until a guarded write is overtaken (`overtaken`), nobody is alone after a foreign
change, and an access flip frees retired deliveries. The bounds on tasks,
identities, attempts, submissions, faults, reviews and changes are arbitrary, and
so is the authority's serialization (`Canon`, idempotent by
`JournalAssumption`).

### WorkingCopyProofs

| Theorem | Property |
| --- | --- |
| `CopyInvariance`, `CopyTypeCorrect` | `CopyInv`, `TypeOK /\ CopyTypeOK` |
| `PullAccounts` | `EditAccounted` under `PullSpec` |
| `PullDeliversInOrder` | `DeliveredInOrder` under `PullSpec` |
| `PullRetires` | `RetiredNeverCommits` under `PullSpec` |
| `DigestsAreHonest` | `DigestHonest` |
| `PullsNeverGoBack` | `PullNeverBack` |

`PullSpec` is not the specification of the journal: a pull writes the document
and its base row. `JournalInv` does not hold as it stands, because a deletion
found under unsettled edits makes the base row absent while the first intent was
made over what the row named before. So the journal's invariant has a parameter
`w`: without pulls, the first intent is premised on the base row; with pulls, it
is, or the row is absent (`FirstPremise(TRUE)`). That is enough for the chain
(`Accounted`, `Chained`), so the step lemmas of `IntentJournalProofs` serve for
both, and `PullAccounts`, `PullDeliversInOrder` and `PullRetires` follow. It is
not enough for `NoSelfConflict`, which is not stated of `PullSpec`.

A digest is honest because of what every pull under way knows, and only while its
fence holds: `Faithful` says that the digest a pull offers, and after its last
write the one it will record, is that of the copy, unless an unsettled intent
holds the document; `Younger` that what it listed is no older than the base row;
`MarkTrue` that the recorded row is the copy's until an acknowledgement. The code
does not compare tokens but times when it offers a digest; `ClockTrue` says that
these agree, a pull that began at the last acknowledgement's time or later having
read its row, until a pull straddles one (`straddled`). The fence is the pull's
own marker and the number of acknowledgements it began at (`Fenced`), and
`RunsApart` gives every pull a marker of its own. So a step of another pull keeps
these parts because it stands outside the fence. For a step of the journal there
are three cases, which `StepMoves` shows to be all: it keeps the base row
(`Kept`), it resolves a conflict (`Resolves`), or it acknowledges (`Acknowledges`)
and so breaks every fence at once. `Sequenced` carries a listing from stage to
stage, and `AtBase` says that an unheld document is what its base row names.

TLC checked `CopyInv` with two pulls (2.1 million states). The first form of `PullNeverBack` had no exception; the proof failed at the held deletion, and
TLC, given a resolution, refuted that form.

### FileJournalProofs

| Theorem | Property | Assumes |
| --- | --- | --- |
| `StoreSound`, `TypeCorrect` | `StoreInv`, `TypeOK` | |
| `NeverCorrupt` | no image a power loss may leave is refused by `open` | |
| `ResolvedMutationsSurvive` | `ResolvedSurvives` | `EntryWithFile` |
| `RefusalsAreClean` | `RefusedLeavesNothing` | |
| `IndexTrue` | `IndexMatchesFiles` | |
| `Refinement` | `ImplementsStore` | `EntryWithFile` |

`FilesSound` speaks of every pair of a log and a snapshot the disk may hold: only
the last record of a log may be torn, each log holds at most one record beyond
what an open would find now, each replays without a gap over each snapshot that
may lie beside it, and whichever of these snapshots it is, the present log leads
to the same state. `HandleSound` has one case per stage: at rest, in an append or its undo,
in a compaction, in a recovery. The one assumption is the file system's promise
the code relies on (see "Known limits").

Recovery replays the log with a recursive function. No installed prover
instantiates the library's induction theorems, which take an operator; so
`Induction` is stated here for a set of numbers, from the least element of every
non-empty set, and what `Replay` does with every log (`ReplayTrace`,
`ReplaysAgree` and the lemmas after them) is proved with it.

### Only model-checked

- Everything temporal (`RequestSettles`, `WaiterAnswered`, `EventuallySignedIn`,
  `Converges`): liveness under fairness is outside the prover's reach.
- `EditAccounted` of `BoardSync` in behaviours outside `TakesStep`.
- `NoSelfConflict` is proved of the journal alone (`Spec`), not of the
  composition with pulls.

## Findings

Each is a disagreement between the code and its own comments, shown by a run.

1. `board_skip`: the conflict loop answers a stop without unmerged paths with
   `git rebase --skip`, taking the replayed commit for empty. Git also stays
   there when a tracked file has an unstaged change, that is when anybody wrote a
   document between the stop and the `--continue`. The skip drops the whole
   commit, with its changes to documents that did not conflict. Git 2.39 does
   behave like that: a scratch repository showed it.
2. `journal_denied`: push does not tell `performUncertainWrite` that an earlier
   delivery is unclear. Access withdrawn in between settles the intent as
   refused while the earlier delivery is applied.

## Known limits

Behaviours the models show and the properties leave out by name, or whose
assumption excludes them. The first three contradict a comment of the code;
each was seen in the instance it names, which is in no run.

- A rollback beside a removed orphan: `rollBackOwnClaim` looks at the directory
  with one system call and renames the path with a later one
  (`filesystem-lock.ts:580`, `583`). When a person removes the owner-less
  directory as orphaned in between and another claim makes it anew, the rename
  moves that claim's live lock away and a third claim acquires. The same happens
  when the directory changes hands between the `mkdir` and the `lstat` (line 501)
  from which the claim learns which directory it made. The comments say that the
  rollback removes the directory only when it is provably the claim's (556), and
  that exactly the verified directory is moved (581). It takes a failing write of
  the owner record and a removed orphan together: `MutualExclusion` fails in the
  instance of `lock_orphan` with `WriteFaults = TRUE`. With either alone the lock
  excludes, which is proved (`Mode`).
- A pull that straddles an acknowledgement: `settleIntent` takes the time of an
  acknowledgement (`local-bundle.ts:1658`) before the asynchronous transaction
  that stores it. A pull of another realm that begins in between and reads the row
  before the transaction has a later `startedAt`; the digest it records is not
  dropped, and once the authority is back at it the copy draws `304` although it
  holds the acknowledged document. The comments at lines 1657 and 2138 exclude
  that. `DigestFresh` fails in the instance of `working_copy`; `DigestHonest`
  leaves it out (`straddled`).
- A settlement that is overrun: `runResolve` reads the document
  (`git-conflict.ts:478`), judges what it read (505, 539) and writes later: `keep`
  with `doc update` or `doc write` (532, 528), `take` with `git restore` or a
  removal (550, 546). No version is expected and nothing is locked, so words
  written in between are erased unsaved, although "words that are not upstream
  are saved first" (538) and a `keep` over unsent words is refused (506). The
  removal of the copy at the end (575) is the same: a sync that ran since the
  read may have conflicted on the document again and, with the same bytes saved
  already, saved no other copy. `UnsentKept` fails in the instance of
  `board_sync`; `EditAccounted` leaves it out (`overrun`).
- The start time of a holder (`filesystem-push-role.ts:168`): where `ps` is
  missing, fails or times out, a request under a holder's reused pid skips in
  silence, and so does every later one while the pid is carried. The code says
  that the host may be unable to tell (`processStartedAt`, line 50), and has no
  other evidence. `DeadHolderNeverSkipped` and `NeverSkips` leave it out.
- A loopback login in its browser (`loopback.ts:108`): it takes the session lock
  only once its code has come, so a logout that runs in between does not end it,
  and a session is back after the logout. `LogoutFinal` leaves it out (`outrun`).
- Durability of a directory entry (`file-journaled-backend.ts:830`): `open` syncs
  the directory only when it creates the log. A process killed between the two
  leaves a log that the next open takes as it is; on a file system where an
  fsync of the file does not cover its entry (`EntryWithFile = FALSE`, what POSIX
  promises), a power loss may then lose the log with its resolved records.
- Keep-local beside an edit (`local-bundle.ts:1888`): an edit composed behind a
  conflict and written after another page resolved it has lost its predecessor
  and is delivered beside the intent it should follow.
- Two deletions (`file-journaled-backend.ts:1212`): a deletion's compare-and-swap
  passes over an already absent document, so two concurrent ones journal two
  intents.
- The base row of a held deletion (`local-bundle.ts:525`): a pull listed the
  document as absent; then somebody creates it again and a local conflict is
  resolved, which renews the base row but not the fence. The pull, finding the
  document held, sets the row back to absent. No edit is lost (`PullAccounts`);
  push meets one more conflict. `PullNeverBack` leaves the step out.
- The digest of a pull (`local-bundle.ts:2078`): only an acknowledgement drops
  it. A create held during a pull and then deleted locally, or a conflict
  resolved to the authority's version, changes the copy without one; if the
  authority is, or comes back to be, at that digest, pulls draw `304` and the copy
  stays as it is. `WorkingCopy` marks such behaviours (`released`).

## Not modelled

The remaining parts are listed with reasons in `PROJECT.json`. In short:
sequential data handling, rendering, argument handling and pure I/O keep no
protocol state; the parts in the plan below do, and come next.

## Plan

Next, in this order:

1. Proofs. Of `BoardSync`: `EditAccounted` without `TakesStep`. Of `WorkingCopy`:
   `NoSelfConflict` over its pulls.
2. Body mode, its retirement rules and the editor's recovery; the blob journal.
3. Two syncs of one clone; the board's cursor and cache; bootstrap.

## Running

    tlc -workers 2 -config MCFsLockFaults.cfg MCFsLock
    for m in FsLock PushRole UncertainWrite IntentJournal WorkingCopy FileJournal HostedSession BoardSync; do tlapm ${m}Proofs.tla; done
