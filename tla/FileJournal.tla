----------------------------- MODULE FileJournal -----------------------------
(***************************************************************************)
(* The log and snapshot store of packages/core/src/file-journaled-backend.ts *)
(* at the granularity of its file system calls, with failing calls, killed  *)
(* processes and power losses.  The store's lock (FsLock) admits one open   *)
(* handle at a time, and the handle runs its mutations and compactions one  *)
(* after the other (#serial), so one program counter is enough.             *)
(*                                                                         *)
(* A file has the contents a process reads now and, for the log and the    *)
(* snapshot, the set of contents a power loss may leave: a successful fsync *)
(* shrinks that set to one.  Between two fsyncs the file system applies     *)
(* truncations, extensions and renames of one file in order, and the bytes  *)
(* of an append in any order.                                              *)
(***************************************************************************)
EXTENDS Naturals, Sequences, FiniteSets, SequencesExt

CONSTANTS
    Ops,           \* mutations, each the transaction of one verb
    Need,          \* [Ops -> 1..3]: the lowest store format its changes need
    NoOp, NoFile, Torn,
    EntryWithFile, \* does an fsync of a file make its directory entry durable too?
    ReadOnlyToo,   \* may a process open the store read-only?
    CompactAfter,  \* open compacts a log of more records than this
    MaxFaults, MaxCrashes

ASSUME FileAssumption ==
    /\ Need \in [Ops -> 1..3] /\ NoOp \notin Ops
    /\ {EntryWithFile, ReadOnlyToo} \subseteq BOOLEAN
    /\ {CompactAfter, MaxFaults, MaxCrashes} \subseteq Nat

VARIABLES
    log,       \* store.log: whole records, and Torn for bytes that are none
    dlogs,     \* what store.log may be after a power loss
    snap,      \* store.snapshot
    dsnaps,    \* what store.snapshot may be after a power loss
    temp,      \* store.snapshot.tmp
    dtemps,    \* what the inode of the temporary file may hold after a power loss
    pc,        \* the file system call the process makes next; "closed" without one
    opening,   \* is the process still inside open?
    cur,       \* the mutation in progress
    index,     \* #state: the mutations applied to it, in order
    txn,       \* #txn
    format,    \* #state.format
    logLen,    \* #logBytes, in records
    unavailable,
    committed, \* history: the index when the last mutation resolved
    refused,   \* history: the mutations that rejected and are not in doubt
    asked,     \* history: the mutations that were asked for; each is asked once
    faults, crashes

fileVars == <<log, dlogs, snap, dsnaps, temp, dtemps>>
memVars == <<opening, cur, index, txn, format, logLen, unavailable>>
histVars == <<committed, refused, asked>>
countVars == <<faults, crashes>>
vars == <<fileVars, pc, memVars, histVars, countVars>>

Record == [txn : Nat, format : 1..3, op : Ops]
Snapshot == [txn : Nat, format : 1..3, index : Seq(Ops)]
Logs == Seq(Record \union {Torn}) \union {NoFile}
Snapshots == Snapshot \union {NoFile, Torn}

\* The sentinels are no contents of a file.
ASSUME SentinelAssumption ==
    /\ NoFile \notin Seq(Record \union {Torn}) \union Seq(Ops) \union Snapshot \union {Torn}
    /\ Torn \notin Record \union Snapshot

TypeOK ==
    /\ log \in Logs /\ dlogs \in SUBSET Logs /\ dlogs # {}
    /\ snap \in Snapshots /\ dsnaps \in SUBSET Snapshots /\ dsnaps # {}
    /\ temp \in Snapshots /\ dtemps \in SUBSET Snapshots
    /\ pc \in {"closed", "readonly", "prune", "create", "logdir", "openlog", "mend", "mendsync",
               "idle", "append", "sync", "undo", "undosync",
               "snapwrite", "snapsync", "rename", "snapdir", "empty", "emptysync"}
    /\ opening \in BOOLEAN /\ unavailable \in BOOLEAN
    /\ cur \in Ops \union {NoOp}
    /\ index \in Seq(Ops) /\ txn \in Nat /\ format \in 1..3 /\ logLen \in Nat
    /\ committed \in Seq(Ops) /\ refused \in SUBSET Ops /\ asked \in SUBSET Ops
    /\ faults \in 0..MaxFaults /\ crashes \in 0..MaxCrashes

-----------------------------------------------------------------------------
(* Reading the files *)

Fmax(a, b) == IF a > b THEN a ELSE b

\* A log that does not exist reads as an empty one.
Cells(l) == IF l = NoFile THEN <<>> ELSE l

\* scanLog: the records before the first bytes that are none.
Whole(l) == LET torn == {i \in DOMAIN Cells(l) : Cells(l)[i] = Torn}
            IN  IF torn = {} THEN Cells(l)
                ELSE SubSeq(Cells(l), 1, (CHOOSE i \in torn : \A j \in torn : i <= j) - 1)

\* scanLog: a whole record behind such bytes is corruption, not a torn tail.
DamagedInside(l) ==
    \E i, j \in DOMAIN Cells(l) : i < j /\ Cells(l)[i] = Torn /\ Cells(l)[j] # Torn

\* The state a snapshot stands for; without one, the empty state.
Loaded(s) ==
    IF s = NoFile THEN [ok |-> TRUE, txn |-> 0, format |-> 1, index |-> <<>>]
    ELSE IF s = Torn THEN [ok |-> FALSE, txn |-> 0, format |-> 1, index |-> <<>>]
    ELSE [ok |-> TRUE, txn |-> s.txn, format |-> s.format, index |-> s.index]

\* One record of the replay: skipped if the snapshot covers it, else the next
\* transaction in a format that does not regress.
Replayed(st, r) ==
    IF r.txn <= st.txn THEN st
    ELSE [ok |-> st.ok /\ r.txn = st.txn + 1 /\ r.format >= st.format,
          txn |-> r.txn, format |-> r.format, index |-> Append(st.index, r.op)]

\* The replay of whole records, in their order.
Replay(st, w) ==
    LET after[n \in 0 .. Len(w)] == IF n = 0 THEN st ELSE Replayed(after[n - 1], w[n])
    IN  after[Len(w)]

\* What open makes of a log and a snapshot; ok is false where it refuses.
Recover(l, s) ==
    LET st == Replay(Loaded(s), Whole(l))
    IN  [st EXCEPT !.ok = @ /\ ~DamagedInside(l)]

-----------------------------------------------------------------------------
(* Files and calls *)

Init ==
    /\ log = NoFile /\ dlogs = {NoFile}
    /\ snap = NoFile /\ dsnaps = {NoFile}
    /\ temp = NoFile /\ dtemps = {}
    /\ pc = "closed" /\ opening = FALSE /\ cur = NoOp
    /\ index = <<>> /\ txn = 0 /\ format = 1 /\ logLen = 0 /\ unavailable = FALSE
    /\ committed = <<>> /\ refused = {} /\ asked = {}
    /\ faults = 0 /\ crashes = 0

Goto(l) == pc' = l

\* A call fails with an error and has no effect beyond what is said there.
Fault == faults < MaxFaults /\ faults' = faults + 1 /\ UNCHANGED crashes
NoFault == UNCHANGED countVars

\* The log's contents change; a power loss may leave the old or the new ones.
WriteLog(l) == log' = l /\ dlogs' = dlogs \union {l}

\* fsync of the log: its contents are now the only ones a power loss leaves.
\* POSIX does not promise as much for the entry of a file in its directory.
SyncLog ==
    /\ dlogs' = {log} \union (IF EntryWithFile THEN {} ELSE dlogs \intersect {NoFile})
    /\ UNCHANGED log

\* What an append leaves behind if not all of its bytes arrive.
PartOf(l, n) == Append(SubSeq(l, 1, n), Torn)

Idle == pc = "idle" /\ ~unavailable

\* An error inside open closes the log and releases the lock.
OpenFails == Goto("closed") /\ opening' = FALSE

-----------------------------------------------------------------------------
(* open *)

\* open reads and validates everything before it changes a file.
Open ==
    /\ pc = "closed"
    /\ LET st == Recover(log, snap)
       IN  /\ st.ok
           /\ index' = st.index /\ txn' = st.txn /\ format' = st.format
    /\ logLen' = Len(Whole(log)) /\ unavailable' = FALSE /\ cur' = NoOp
    /\ \/ Goto("prune") /\ opening' = TRUE
       \/ ReadOnlyToo /\ Goto("readonly") /\ opening' = FALSE
    /\ UNCHANGED <<fileVars, histVars, countVars>>

\* rm of a temporary snapshot an interrupted compaction left.
Prune ==
    /\ pc = "prune"
    /\ \/ /\ temp' = NoFile /\ dtemps' = {}
          /\ Goto(IF log = NoFile THEN "create" ELSE "openlog")
          /\ NoFault /\ UNCHANGED opening
       \/ /\ Fault /\ OpenFails
          /\ UNCHANGED <<temp, dtemps>>
    /\ UNCHANGED <<log, dlogs, snap, dsnaps, cur, index, txn, format, logLen, unavailable, histVars>>

\* A store without a log gets one, and its directory entry is made durable.
Create ==
    /\ pc = "create"
    /\ \/ WriteLog(<<>>) /\ Goto("logdir") /\ NoFault /\ UNCHANGED opening
       \/ Fault /\ OpenFails /\ UNCHANGED <<log, dlogs>>
    /\ UNCHANGED <<snap, dsnaps, temp, dtemps, cur, index, txn, format, logLen, unavailable, histVars>>

\* syncDirectory after the log was created.
SyncLogEntry ==
    /\ pc = "logdir"
    /\ \/ dlogs' = dlogs \ {NoFile} /\ dsnaps' = {snap} /\ UNCHANGED log /\ Goto("openlog") /\ NoFault /\ UNCHANGED opening
       \/ Fault /\ OpenFails /\ UNCHANGED <<log, dlogs, dsnaps>>
    /\ UNCHANGED <<snap, temp, dtemps, cur, index, txn, format, logLen, unavailable, histVars>>

\* What follows once the log is clean: open compacts a long one.
Opened == IF logLen > CompactAfter THEN Goto("snapwrite") /\ UNCHANGED opening
          ELSE Goto("idle") /\ opening' = FALSE

\* Mutant: a torn tail stays in the log.
OpenLogUnmended ==
    /\ pc = "openlog"
    /\ Opened /\ NoFault
    /\ UNCHANGED <<fileVars, cur, index, txn, format, logLen, unavailable, histVars>>

\* The log is opened; a torn tail has to go.
OpenLog ==
    /\ pc = "openlog"
    /\ \/ /\ IF Len(log) # logLen THEN Goto("mend") /\ UNCHANGED opening ELSE Opened
          /\ NoFault
       \/ Fault /\ OpenFails
    /\ UNCHANGED <<fileVars, cur, index, txn, format, logLen, unavailable, histVars>>

\* truncate(validBytes) and its fsync.
Mend ==
    /\ pc = "mend"
    /\ \/ WriteLog(SubSeq(log, 1, logLen)) /\ Goto("mendsync") /\ NoFault /\ UNCHANGED opening
       \/ Fault /\ OpenFails /\ UNCHANGED <<log, dlogs>>
    /\ UNCHANGED <<snap, dsnaps, temp, dtemps, cur, index, txn, format, logLen, unavailable, histVars>>

MendSync ==
    /\ pc = "mendsync"
    /\ \/ SyncLog /\ Opened /\ NoFault
       \/ Fault /\ OpenFails /\ UNCHANGED <<log, dlogs>>
    /\ UNCHANGED <<snap, dsnaps, temp, dtemps, cur, index, txn, format, logLen, unavailable, histVars>>

\* close waits for the queue, closes the log and releases the lock.
Close ==
    /\ pc \in {"idle", "readonly"}
    /\ Goto("closed")
    /\ UNCHANGED <<fileVars, memVars, histVars, countVars>>

-----------------------------------------------------------------------------
(* The one mutation path *)

\* A mutation is decided against the index.  A failing check, or a record or
\* projected snapshot that is too large, rejects it with nothing written.
Begin(o) ==
    /\ Idle /\ o \notin asked
    /\ asked' = asked \union {o}
    /\ \/ cur' = o /\ Goto("append") /\ UNCHANGED refused
       \/ refused' = refused \union {o} /\ UNCHANGED <<cur, pc>>
    /\ UNCHANGED <<fileVars, opening, index, txn, format, logLen, unavailable, committed, countVars>>

NextRecord == [txn |-> txn + 1, format |-> Fmax(format, Need[cur]), op |-> cur]

\* writeAll at #logBytes.  A failing write may have put down a part.
WriteRecord ==
    /\ pc = "append"
    /\ LET whole == Append(SubSeq(log, 1, logLen), NextRecord) \o SubSeq(log, logLen + 2, Len(log))
           part == PartOf(log, logLen)
       IN  \/ /\ log' = whole /\ dlogs' = dlogs \union {part, whole}
             /\ Goto("sync") /\ NoFault
          \/ /\ Fault /\ Goto("undo")
             /\ \/ log' = part /\ dlogs' = dlogs \union {part}
                \/ UNCHANGED <<log, dlogs>>
    /\ UNCHANGED <<snap, dsnaps, temp, dtemps, memVars, histVars>>

\* Once the record is durable, and only then, it is applied and acknowledged.
Commit ==
    /\ logLen' = logLen + 1 /\ txn' = txn + 1
    /\ format' = Fmax(format, Need[cur])
    /\ index' = Append(index, cur)
    /\ committed' = index'
    /\ cur' = NoOp /\ Goto("idle")

\* Mutant: the mutation resolves on its write, without the fsync.
SyncRecordSkipped ==
    /\ pc = "sync"
    /\ Commit /\ NoFault
    /\ UNCHANGED <<fileVars, opening, unavailable, refused, asked>>

SyncRecord ==
    /\ pc = "sync"
    /\ \/ SyncLog /\ Commit /\ NoFault
       \/ Fault /\ Goto("undo") /\ UNCHANGED <<log, dlogs, cur, index, txn, format, logLen, committed>>
    /\ UNCHANGED <<snap, dsnaps, temp, dtemps, opening, unavailable, refused, asked>>

\* The append that failed cannot be removed either: every later call rejects,
\* and only a reopen can tell whether the record is there.
InDoubt == unavailable' = TRUE /\ cur' = NoOp /\ Goto("idle")

\* Mutant: a failed append is rejected without being removed.
UndoNothing ==
    /\ pc = "undo"
    /\ refused' = refused \union {cur} /\ cur' = NoOp /\ Goto("idle") /\ NoFault
    /\ UNCHANGED <<fileVars, opening, index, txn, format, logLen, unavailable, committed, asked>>

\* truncate(at) after a failed append.
Undo ==
    /\ pc = "undo"
    /\ \/ /\ WriteLog(SubSeq(log, 1, logLen)) /\ Goto("undosync") /\ NoFault
          /\ UNCHANGED <<cur, unavailable>>
       \/ Fault /\ InDoubt /\ UNCHANGED <<log, dlogs>>
    /\ UNCHANGED <<snap, dsnaps, temp, dtemps, opening, index, txn, format, logLen, histVars>>

\* Its fsync; then the mutation rejects and has left nothing behind.
UndoSync ==
    /\ pc = "undosync"
    /\ \/ /\ SyncLog /\ refused' = refused \union {cur} /\ cur' = NoOp
          /\ Goto("idle") /\ NoFault /\ UNCHANGED unavailable
       \/ Fault /\ InDoubt /\ UNCHANGED <<log, dlogs, refused>>
    /\ UNCHANGED <<snap, dsnaps, temp, dtemps, opening, index, txn, format, logLen, committed, asked>>

-----------------------------------------------------------------------------
(* compact *)

\* An error inside compact rejects it; inside open it fails the open.
CompactFails == IF opening THEN OpenFails ELSE Goto("idle") /\ UNCHANGED opening

Compact ==
    /\ Idle
    /\ Goto("snapwrite")
    /\ UNCHANGED <<fileVars, memVars, histVars, countVars>>

SnapshotNow == [txn |-> txn, format |-> format, index |-> index]

\* The whole index goes to a temporary file; a failure removes the file.
WriteSnapshot ==
    /\ pc = "snapwrite"
    /\ \/ /\ temp' = SnapshotNow /\ dtemps' = {Torn, SnapshotNow}
          /\ Goto("snapsync") /\ NoFault /\ UNCHANGED opening
       \/ temp' = NoFile /\ dtemps' = {} /\ Fault /\ CompactFails
    /\ UNCHANGED <<log, dlogs, snap, dsnaps, cur, index, txn, format, logLen, unavailable, histVars>>

\* Its fsync; a failure removes the file here too.
SyncSnapshot ==
    /\ pc = "snapsync"
    /\ \/ dtemps' = {temp} /\ Goto("rename") /\ NoFault /\ UNCHANGED <<temp, opening>>
       \/ temp' = NoFile /\ dtemps' = {} /\ Fault /\ CompactFails
    /\ UNCHANGED <<log, dlogs, snap, dsnaps, cur, index, txn, format, logLen, unavailable, histVars>>

\* renameOver: the snapshot changes in one step for every reader.
RenameSnapshot ==
    /\ pc = "rename"
    /\ \/ /\ snap' = temp /\ dsnaps' = dsnaps \union dtemps
          /\ temp' = NoFile /\ dtemps' = {}
          /\ Goto("snapdir") /\ NoFault /\ UNCHANGED opening
       \/ Fault /\ CompactFails /\ UNCHANGED <<snap, dsnaps, temp, dtemps>>
    /\ UNCHANGED <<log, dlogs, cur, index, txn, format, logLen, unavailable, histVars>>

\* Mutant: the log is emptied before the renamed snapshot is durable.
SyncSnapshotEntrySkipped ==
    /\ pc = "snapdir"
    /\ Goto("empty") /\ NoFault
    /\ UNCHANGED <<fileVars, memVars, histVars>>

\* syncDirectory: the rename, and the log's own entry, are durable.
SyncSnapshotEntry ==
    /\ pc = "snapdir"
    /\ \/ /\ dsnaps' = {snap} /\ dlogs' = dlogs \ {NoFile}
          /\ Goto("empty") /\ NoFault /\ UNCHANGED opening
       \/ Fault /\ CompactFails /\ UNCHANGED <<dsnaps, dlogs>>
    /\ UNCHANGED <<log, snap, temp, dtemps, cur, index, txn, format, logLen, unavailable, histVars>>

\* Mutant: #logBytes is not reset when the log is emptied.
EmptyLogKeepsLength ==
    /\ pc = "empty"
    /\ WriteLog(<<>>) /\ Goto("emptysync") /\ NoFault
    /\ UNCHANGED <<snap, dsnaps, temp, dtemps, memVars, histVars>>

\* truncate(0); the next append goes to the start whether or not the fsync
\* that follows succeeds.
EmptyLog ==
    /\ pc = "empty"
    /\ \/ WriteLog(<<>>) /\ logLen' = 0 /\ Goto("emptysync") /\ NoFault /\ UNCHANGED opening
       \/ Fault /\ CompactFails /\ UNCHANGED <<log, dlogs, logLen>>
    /\ UNCHANGED <<snap, dsnaps, temp, dtemps, cur, index, txn, format, unavailable, histVars>>

SyncEmptyLog ==
    /\ pc = "emptysync"
    /\ \/ SyncLog /\ Goto("idle") /\ opening' = FALSE /\ NoFault
       \/ Fault /\ CompactFails /\ UNCHANGED <<log, dlogs>>
    /\ UNCHANGED <<snap, dsnaps, temp, dtemps, cur, index, txn, format, logLen, unavailable, histVars>>

-----------------------------------------------------------------------------
(* Crashes *)

\* What the process knew is gone; what it wrote is what the next one reads.
Forget ==
    /\ Goto("closed") /\ opening' = FALSE /\ cur' = NoOp
    /\ index' = <<>> /\ txn' = 0 /\ format' = 1 /\ logLen' = 0 /\ unavailable' = FALSE
    /\ crashes < MaxCrashes /\ crashes' = crashes + 1
    /\ UNCHANGED <<histVars, faults>>

\* The process is killed; the operating system keeps what it wrote.
Kill ==
    /\ pc # "closed"
    /\ Forget
    /\ UNCHANGED fileVars

\* The host loses power: each file is left in one of its possible states.
PowerLoss ==
    /\ Forget
    /\ \E l \in dlogs, s \in dsnaps :
          log' = l /\ dlogs' = {l} /\ snap' = s /\ dsnaps' = {s}
    /\ \E t \in dtemps \union {NoFile} : temp' = t
    /\ dtemps' = {}

Next ==
    \/ Open \/ Prune \/ Create \/ SyncLogEntry \/ OpenLog \/ Mend \/ MendSync \/ Close
    \/ \E o \in Ops : Begin(o)
    \/ WriteRecord \/ SyncRecord \/ Undo \/ UndoSync
    \/ Compact \/ WriteSnapshot \/ SyncSnapshot \/ RenameSnapshot
    \/ SyncSnapshotEntry \/ EmptyLog \/ SyncEmptyLog
    \/ Kill \/ PowerLoss

Spec == Init /\ [][Next]_vars

-----------------------------------------------------------------------------
(* Properties *)

\* What the next open may find: the files as they are (a killed process), or
\* any state a power loss may leave them in.
Images == {<<log, snap>>} \union (dlogs \X dsnaps)

Found(image) == Recover(image[1], image[2])

\* The state the open handle has in memory, as recovery would return it.
Memory == [ok |-> TRUE, txn |-> txn, format |-> format, index |-> index]

\* However the process or the host goes down, at any call of open, mutation or
\* compaction: the next open does not refuse the files as corrupt, and finds
\* everything the store showed when its last mutation resolved.
ResolvedSurvives ==
    \A image \in Images : Found(image).ok /\ IsPrefix(committed, Found(image).index)

\* A mutation that rejected, and is not in doubt, has left nothing behind that
\* any later open could find.
RefusedLeavesNothing ==
    \A image \in Images : refused \intersect ToSet(Found(image).index) = {}

\* A usable store at rest has in its index what its files say, so the next
\* append continues the log and the next snapshot covers it.
IndexMatchesFiles ==
    Idle => Found(<<log, snap>>) = Memory /\ Len(log) = logLen

-----------------------------------------------------------------------------
(* The inductive invariant of the proofs *)

Booting == {"prune", "create", "logdir", "openlog", "mend", "mendsync"}
Appending == {"append", "sync", "undo", "undosync"}
Compacting == {"snapwrite", "snapsync", "rename", "snapdir", "empty", "emptysync"}

\* A log whose bytes are records up to its last ones.
TornTailOnly(l) == \A i \in DOMAIN Cells(l) : Cells(l)[i] = Torn => i = Len(Cells(l))

\* Every image recovers, to mutations that were asked for and not refused.
Sound(st) ==
    /\ st.ok
    /\ EntryWithFile => IsPrefix(committed, st.index)
    /\ ToSet(st.index) \subseteq asked \ refused

\* A log holds at most one record beyond the state st: its last one, of a
\* mutation in progress or in doubt.
OneBeyond(l, st) ==
    \A i \in DOMAIN Whole(l) : Whole(l)[i].txn > st.txn =>
        /\ i = Len(Whole(l)) /\ Whole(l)[i].txn = st.txn + 1
        /\ Whole(l)[i].format >= st.format
        /\ Whole(l)[i].op \in asked \ refused

FilesSound ==
    /\ log \in dlogs /\ snap \in dsnaps
    /\ Torn \notin dsnaps
    /\ \A l \in dlogs : TornTailOnly(l) /\ OneBeyond(l, Found(<<log, snap>>))
    /\ \A l \in dlogs, s \in dsnaps : Sound(Found(<<l, s>>))
    \* Whichever snapshot a power loss leaves, this log leads to the same state.
    /\ \A s \in dsnaps : Found(<<log, s>>) = Found(<<log, snap>>)

\* Between mutations the memory is what the files say; the log is without a
\* torn tail once it has been mended.
AtRest ==
    pc \in Booting \union Compacting \union {"readonly"} \/ Idle =>
        /\ Found(<<log, snap>>) = Memory /\ logLen = Len(Whole(log))
        /\ pc \notin {"readonly", "prune", "create"} => log # NoFile
        /\ pc = "create" => log = NoFile
        /\ pc \in Compacting \union {"mendsync", "idle"} => logLen = Len(log)

\* The log as it is without the append in progress or in doubt.
Settled == SubSeq(log, 1, logLen)

\* The rest of the log is that append, whole or in part.
InAppend ==
    pc \in Appending \/ (pc = "idle" /\ unavailable) =>
        /\ log # NoFile /\ logLen <= Len(log) /\ Settled \in dlogs \intersect Seq(Record)
        /\ \A s \in dsnaps : Found(<<Settled, s>>) = Memory
        /\ pc \in Appending => cur \in (asked \ refused) \ ToSet(index)
        /\ pc \in {"append", "undosync"} => log = Settled
        /\ pc = "sync" => log = Append(Settled, NextRecord)
        /\ pc = "undo" => log \in {Settled, Append(Settled, Torn), Append(Settled, NextRecord)}

\* A snapshot under way is the memory's, and durable before the log is emptied.
InCompaction ==
    /\ pc \in {"snapsync", "rename"} => temp = SnapshotNow
    /\ pc = "rename" => dtemps = {temp}
    /\ pc \in {"snapdir", "empty", "emptysync"} => snap = SnapshotNow
    /\ pc \in {"empty", "emptysync"} => dsnaps = {snap}
    /\ pc = "emptysync" => log = <<>>

HandleSound ==
    /\ pc # "closed" => \A l \in dlogs : OneBeyond(l, Memory)
    /\ AtRest /\ InAppend /\ InCompaction
    /\ opening => pc \in Booting \union Compacting
    /\ unavailable => pc \in {"idle", "closed"}
    /\ refused \subseteq asked

StoreInv == TypeOK /\ FilesSound /\ HandleSound

-----------------------------------------------------------------------------
Promise == INSTANCE DurableStore WITH
    Down <- NoFile,
    shown <- IF pc = "closed" \/ opening THEN NoFile ELSE index

\* open, the mutations, compact and close, with their failures and with
\* crashes, implement DurableStore: a handle never shows less than an earlier
\* one had resolved, and its view changes only by a resolved mutation.
ImplementsStore == Promise!Spec
=============================================================================
