------------------------------- MODULE FsLock -------------------------------
(***************************************************************************)
(* The same-user cross-process lock of packages/core/src/filesystem-lock.ts *)
(* at the granularity of its system calls.  A CLAIM is one call of          *)
(* claimLockPath; it carries one random owner token for life, so a claim    *)
(* and its token are the same value here.  The lock itself is a directory   *)
(* at one path (lockPath) that holds at most one owner record (owner.json). *)
(***************************************************************************)
EXTENDS Naturals, FiniteSets

CONSTANTS
    Claims,         \* calls of claimLockPath, each with its own token
    Procs,          \* process incarnations; a restarted process is another one
    Proc,           \* [Claims -> Procs]: the process that makes the claim
    Pid,            \* [Procs -> pids]: two incarnations may share one
    Host,           \* [Procs -> host names]
    NoDir,          \* nothing at a path
    NoRecord,       \* a lock directory without owner.json
    Garbled,        \* owner.json opened but not (fully) written
    ReadFaults,     \* may a read of owner.json fail (EMFILE, EBUSY)?
    WriteFaults,    \* may writing owner.json or removing a remnant fail (ENOSPC, EIO)?
    ClockSteps,     \* may the wall clock move against process.uptime()?
    MaxRemovals     \* how often a person removes an owner-less directory

ASSUME ClaimAssumption ==
    /\ Proc \in [Claims -> Procs]
    /\ NoRecord \notin Claims /\ Garbled \notin Claims /\ NoRecord # Garbled
    /\ MaxRemovals \in Nat
    /\ {ReadFaults, WriteFaults, ClockSteps} \subseteq BOOLEAN

ASSUME NoDirAssumption == NoDir \notin [dir : Nat, rec : Claims \union {NoRecord, Garbled}]

VARIABLES
    lock,        \* what is at lockPath
    quarantine,  \* what is at lockPath.stale-<hash of token>
    remnant,     \* what is at lockPath.released-<hash of token>
    nextDir,     \* identity (inode and birth time) of the next directory made
    removals,    \* owner-less directories a person has removed
    status,      \* of each process: "unborn", "alive" or "dead"
    held,        \* heldTokens, the union over the live processes
    pc,          \* the system call each claim issues next
    snap,        \* the owner each claim last read, NoRecord for none
    made,        \* the directory each claim's last mkdir made (0: none)
    claimed,     \* the directory each claim saw in its lstat (0: none)
    fd,          \* the directory in which each claim opened owner.json
    after,       \* what follows a rollback: "mkdir" (retry) or "failed"
    expired,     \* has waitMs passed since the claim started?
    diag         \* owner and stale flag of the claim's timeout error

fsVars == <<lock, quarantine, remnant, nextDir, removals>>
procVars == <<status, held>>
claimVars == <<pc, snap, made, claimed, fd, after, expired, diag>>
vars == <<fsVars, procVars, claimVars>>

Records == Claims \union {NoRecord, Garbled}
Dir == [dir : Nat, rec : Records]

PCs == {"idle", "mkdir", "read", "judge", "verify", "rename", "reread",
        "check", "recheck", "stat", "open", "write", "held", "relread",
        "relrename", "relrm", "abandoned", "rbread", "rbstat", "rbrename",
        "rbrm", "released", "failed"}

TypeOK ==
    /\ lock \in Dir \union {NoDir}
    /\ quarantine \in [Claims -> Dir \union {NoDir}]
    /\ remnant \in [Claims -> Dir \union {NoDir}]
    /\ nextDir \in Nat \ {0} /\ removals \in Nat
    /\ status \in [Procs -> {"unborn", "alive", "dead"}]
    /\ held \in SUBSET Claims
    /\ pc \in [Claims -> PCs]
    /\ snap \in [Claims -> Claims \union {NoRecord}]
    /\ made \in [Claims -> Nat] /\ claimed \in [Claims -> Nat]
    /\ fd \in [Claims -> Nat]
    /\ after \in [Claims -> {"mkdir", "failed"}]
    /\ expired \in [Claims -> BOOLEAN]
    /\ diag \in [Claims -> [owner : Claims \union {NoRecord}, stale : BOOLEAN]]

Init ==
    /\ lock = NoDir
    /\ quarantine = [c \in Claims |-> NoDir]
    /\ remnant = [c \in Claims |-> NoDir]
    /\ nextDir = 1 /\ removals = 0
    /\ status = [p \in Procs |-> "unborn"]
    /\ held = {}
    /\ pc = [c \in Claims |-> "idle"]
    /\ snap = [c \in Claims |-> NoRecord]
    /\ made = [c \in Claims |-> 0]
    /\ claimed = [c \in Claims |-> 0]
    /\ fd = [c \in Claims |-> 0]
    /\ after = [c \in Claims |-> "failed"]
    /\ expired = [c \in Claims |-> FALSE]
    /\ diag = [c \in Claims |-> [owner |-> NoRecord, stale |-> FALSE]]

-----------------------------------------------------------------------------
(* What a process can find out about a lock and its owner *)

Alive(c) == status[Proc[c]] = "alive"

Goto(c, l) == pc' = [pc EXCEPT ![c] = l]

\* A usable owner record at lockPath; a missing or malformed one reads as none.
RecordAt == IF lock = NoDir THEN NoRecord
            ELSE IF lock.rec \in Claims THEN lock.rec ELSE NoRecord

\* readOwner: an unreadable record is reported as none as well.
ReadOwner(r) == r = RecordAt \/ (ReadFaults /\ r = NoRecord)

\* Mutant: any error of kill, EPERM too, is taken for a dead process.
AnyErrorIsGone(h, n) == FALSE

\* kill(pid, 0) on the host of p.
ProcessExists(h, n) ==
    \E q \in Procs : status[q] = "alive" /\ Host[q] = h /\ Pid[q] = n

\* Mutant: the process table alone decides, also for the process's own pid.
PidIsProof(p, o) == {~ProcessExists(Host[p], Pid[Proc[o]])}

\* The answers ownerIsGone may give process p about the owner o of its host.
\* For p's own pid the test is on the held tokens and on the claim's time
\* against the start of p, which a clock step can turn either way.
OwnerIsGone(p, o) ==
    IF Pid[Proc[o]] # Pid[p]
    THEN {~ProcessExists(Host[p], Pid[Proc[o]])}
    ELSE IF o \in held /\ Proc[o] = p THEN {FALSE}
         ELSE IF ClockSteps THEN BOOLEAN ELSE {Proc[o] # p}

SameHost(p, o) == Host[Proc[o]] = Host[p]

\* The verdict of quarantineStaleLock and timeoutError on a snapshot.
DemonstrablyGone(p, o) ==
    IF o \in Claims /\ SameHost(p, o) THEN OwnerIsGone(p, o) ELSE {FALSE}

-----------------------------------------------------------------------------
(* Processes *)

\* A process starts; the host gives it a pid no live process has.
Start(p) ==
    /\ status[p] = "unborn"
    /\ ~ProcessExists(Host[p], Pid[p])
    /\ status' = [status EXCEPT ![p] = "alive"]
    /\ UNCHANGED <<fsVars, held, claimVars>>

\* A process exits or crashes between any two system calls.
Die(p) ==
    /\ status[p] = "alive"
    /\ status' = [status EXCEPT ![p] = "dead"]
    /\ held' = {c \in held : Proc[c] # p}
    /\ UNCHANGED <<fsVars, claimVars>>

\* A person removes an owner-less lock directory as orphaned.
RemoveOrphan ==
    /\ removals < MaxRemovals
    /\ lock # NoDir
    /\ lock.rec = NoRecord
    /\ lock' = NoDir
    /\ removals' = removals + 1
    /\ UNCHANGED <<quarantine, remnant, nextDir, procVars, claimVars>>

\* The wait budget of a claim runs out.  The loop looks at the clock only at
\* its check, so that is where the passage of time shows.
Expire(c) ==
    /\ Alive(c) /\ pc[c] = "check" /\ ~expired[c]
    /\ expired' = [expired EXCEPT ![c] = TRUE]
    /\ UNCHANGED <<fsVars, procVars, pc, snap, made, claimed, fd, after, diag>>

-----------------------------------------------------------------------------
(* claimLockPath: the claim loop *)

\* newOwner mints the token and the loop is entered.
Begin(c) ==
    /\ Alive(c) /\ pc[c] = "idle"
    /\ Goto(c, "mkdir")
    /\ UNCHANGED <<fsVars, procVars, snap, made, claimed, fd, after, expired, diag>>

\* mkdir(lockPath): the atomic claim, or EEXIST.
Mkdir(c) ==
    /\ Alive(c) /\ pc[c] = "mkdir"
    /\ IF lock = NoDir
       THEN /\ lock' = [dir |-> nextDir, rec |-> NoRecord]
            /\ nextDir' = nextDir + 1
            /\ made' = [made EXCEPT ![c] = nextDir]
            /\ Goto(c, "stat")
       ELSE /\ Goto(c, "read")
            /\ UNCHANGED <<lock, nextDir, made>>
    /\ UNCHANGED <<quarantine, remnant, removals, procVars, snap, claimed, fd, after, expired, diag>>

\* The first readOwner after EEXIST.
Read(c) ==
    /\ Alive(c) /\ pc[c] = "read"
    /\ \E r \in Claims \union {NoRecord} :
          /\ ReadOwner(r)
          /\ snap' = [snap EXCEPT ![c] = r]
          /\ Goto(c, IF r = NoRecord THEN "check" ELSE "judge")
    /\ UNCHANGED <<fsVars, procVars, made, claimed, fd, after, expired, diag>>

\* quarantineStaleLock, its first test.
Judge(c) ==
    /\ Alive(c) /\ pc[c] = "judge"
    /\ \E gone \in DemonstrablyGone(Proc[c], snap[c]) :
          Goto(c, IF gone THEN "verify" ELSE "reread")
    /\ UNCHANGED <<fsVars, procVars, snap, made, claimed, fd, after, expired, diag>>

\* quarantineStaleLock re-reads the path: does it still carry that owner?
Verify(c) ==
    /\ Alive(c) /\ pc[c] = "verify"
    /\ \E r \in Claims \union {NoRecord} :
          /\ ReadOwner(r)
          /\ Goto(c, IF r = snap[c] THEN "rename" ELSE "reread")
    /\ UNCHANGED <<fsVars, procVars, snap, made, claimed, fd, after, expired, diag>>

\* Mutant: every reclaimer renames to a name of its own, so nothing fences it.
RenameUnfenced(c) ==
    /\ Alive(c) /\ pc[c] = "rename"
    /\ IF lock # NoDir
       THEN /\ quarantine' = [quarantine EXCEPT ![snap[c]] = lock]
            /\ lock' = NoDir
            /\ snap' = [snap EXCEPT ![c] = NoRecord]
            /\ Goto(c, "mkdir")
       ELSE /\ Goto(c, "reread")
            /\ UNCHANGED <<lock, quarantine, snap>>
    /\ UNCHANGED <<remnant, nextDir, removals, procVars, made, claimed, fd, after, expired, diag>>

\* rename(lockPath, quarantinePath).  A destination directory that is not
\* empty refuses the rename; whatever is at lockPath by now moves otherwise.
Rename(c) ==
    /\ Alive(c) /\ pc[c] = "rename"
    /\ IF lock # NoDir /\ (quarantine[snap[c]] = NoDir \/ quarantine[snap[c]].rec = NoRecord)
       THEN /\ quarantine' = [quarantine EXCEPT ![snap[c]] = lock]
            /\ lock' = NoDir
            /\ snap' = [snap EXCEPT ![c] = NoRecord]
            /\ Goto(c, "mkdir")
       ELSE /\ Goto(c, "reread")
            /\ UNCHANGED <<lock, quarantine, snap>>
    /\ UNCHANGED <<remnant, nextDir, removals, procVars, made, claimed, fd, after, expired, diag>>

\* After a failed quarantine the owner there now is the one to diagnose.
Reread(c) ==
    /\ Alive(c) /\ pc[c] = "reread"
    /\ \E r \in Claims \union {NoRecord} :
          /\ ReadOwner(r)
          /\ snap' = [snap EXCEPT ![c] = r]
    /\ Goto(c, "check")
    /\ UNCHANGED <<fsVars, procVars, made, claimed, fd, after, expired, diag>>

\* Mutant: an owner-less lock is polled without a look at the clock.
CheckOwnedOnly(c) ==
    /\ Alive(c) /\ pc[c] = "check"
    /\ \/ /\ ~expired[c] \/ snap[c] = NoRecord
          /\ Goto(c, "mkdir")
          /\ snap' = [snap EXCEPT ![c] = NoRecord]
          /\ UNCHANGED diag
       \/ /\ expired[c] /\ snap[c] # NoRecord
          /\ Goto(c, "failed")
          /\ snap' = [snap EXCEPT ![c] = NoRecord]
          /\ diag' = [diag EXCEPT ![c] = [owner |-> snap[c], stale |-> FALSE]]
    /\ UNCHANGED <<fsVars, procVars, made, claimed, fd, after, expired>>

\* The wait budget: poll again, or timeoutError on the snapshot.  A snapshot
\* judged gone is looked up once more before it is named.
Check(c) ==
    /\ Alive(c) /\ pc[c] = "check"
    /\ \/ /\ ~expired[c]
          /\ Goto(c, "mkdir")
          /\ snap' = [snap EXCEPT ![c] = NoRecord]
          /\ UNCHANGED diag
       \/ /\ expired[c]
          /\ \E gone \in DemonstrablyGone(Proc[c], snap[c]) :
                \/ gone /\ Goto(c, "recheck") /\ UNCHANGED <<snap, diag>>
                \/ /\ ~gone
                   /\ Goto(c, "failed")
                   /\ snap' = [snap EXCEPT ![c] = NoRecord]
                   /\ diag' = [diag EXCEPT ![c] = [owner |-> snap[c], stale |-> FALSE]]
    /\ UNCHANGED <<fsVars, procVars, made, claimed, fd, after, expired>>

\* Mutant: the snapshot judged gone is named without the second look.
RecheckBlind(c) ==
    /\ Alive(c) /\ pc[c] = "recheck"
    /\ diag' = [diag EXCEPT ![c] = [owner |-> snap[c], stale |-> TRUE]]
    /\ snap' = [snap EXCEPT ![c] = NoRecord]
    /\ Goto(c, "failed")
    /\ UNCHANGED <<fsVars, procVars, made, claimed, fd, after, expired>>

\* timeoutError's second look at a snapshot it judged gone.
Recheck(c) ==
    /\ Alive(c) /\ pc[c] = "recheck"
    /\ \E r \in Claims \union {NoRecord} :
          /\ ReadOwner(r)
          /\ diag' = [diag EXCEPT ![c] = [owner |-> r, stale |-> r = snap[c]]]
    /\ snap' = [snap EXCEPT ![c] = NoRecord]
    /\ Goto(c, "failed")
    /\ UNCHANGED <<fsVars, procVars, made, claimed, fd, after, expired>>

-----------------------------------------------------------------------------
(* claimLockPath: the owner record *)

\* The directories a claim remembers go out of scope with its attempt.
ForgetDirs(c) ==
    /\ made' = [made EXCEPT ![c] = 0]
    /\ claimed' = [claimed EXCEPT ![c] = 0]
    /\ fd' = [fd EXCEPT ![c] = 0]

\* Mutant: the token is not added to heldTokens.
StatUnheld(c) ==
    /\ Alive(c) /\ pc[c] = "stat"
    /\ claimed' = [claimed EXCEPT ![c] = IF lock = NoDir THEN 0 ELSE lock.dir]
    /\ Goto(c, "open")
    /\ UNCHANGED <<fsVars, procVars, snap, made, fd, after, expired, diag>>

\* lstat(lockPath) after the mkdir, then heldTokens.add.
Stat(c) ==
    /\ Alive(c) /\ pc[c] = "stat"
    /\ \E d \in {IF lock = NoDir THEN 0 ELSE lock.dir} \union (IF ReadFaults THEN {0} ELSE {}) :
          claimed' = [claimed EXCEPT ![c] = d]
    /\ held' = held \union {c}
    /\ Goto(c, "open")
    /\ UNCHANGED <<fsVars, status, snap, made, fd, after, expired, diag>>

\* open(owner.json, wx): EEXIST and ENOENT are a lost claim, anything else
\* is rolled back and thrown.
Open(c) ==
    /\ Alive(c) /\ pc[c] = "open"
    /\ \/ /\ lock # NoDir /\ lock.rec = NoRecord
          /\ lock' = [lock EXCEPT !.rec = Garbled]
          /\ fd' = [fd EXCEPT ![c] = lock.dir]
          /\ Goto(c, "write")
          /\ UNCHANGED <<held, after, made, claimed>>
       \/ /\ lock # NoDir /\ lock.rec # NoRecord
          /\ held' = held \ {c}
          /\ ForgetDirs(c)
          /\ Goto(c, "mkdir")
          /\ UNCHANGED <<lock, after>>
       \/ /\ lock = NoDir
          /\ after' = [after EXCEPT ![c] = "mkdir"]
          /\ Goto(c, "rbread")
          /\ UNCHANGED <<lock, fd, held, made, claimed>>
       \/ /\ WriteFaults
          /\ after' = [after EXCEPT ![c] = "failed"]
          /\ Goto(c, "rbread")
          /\ UNCHANGED <<lock, fd, held, made, claimed>>
    /\ UNCHANGED <<quarantine, remnant, nextDir, removals, status, snap, expired, diag>>

\* The bytes of owner.json, through the open descriptor.  A failing write may
\* leave the whole record, or a part of it, behind.
Write(c) ==
    /\ Alive(c) /\ pc[c] = "write"
    /\ \E ok \in {TRUE} \union (IF WriteFaults THEN {FALSE} ELSE {}), landed \in BOOLEAN :
          /\ ok => landed
          /\ lock' = IF landed /\ lock # NoDir /\ lock.dir = fd[c] THEN [lock EXCEPT !.rec = c] ELSE lock
          /\ after' = [after EXCEPT ![c] = "failed"]
          /\ IF ok THEN Goto(c, "held") /\ ForgetDirs(c)
                   ELSE Goto(c, "rbread") /\ UNCHANGED <<made, claimed, fd>>
    /\ UNCHANGED <<quarantine, remnant, nextDir, removals, procVars, snap, expired, diag>>

-----------------------------------------------------------------------------
(* Release *)

\* The holder (or a later caller of release) resolves the record first.
Release(c) ==
    /\ Alive(c) /\ pc[c] \in {"held", "abandoned"}
    /\ Goto(c, "relread")
    /\ UNCHANGED <<fsVars, procVars, snap, made, claimed, fd, after, expired, diag>>

\* Only the claim's own record authorizes the rename; an unreadable or a
\* changed one refuses the release and leaves the lock where it is.
ReleaseRead(c) ==
    /\ Alive(c) /\ pc[c] = "relread"
    /\ \E r \in Claims \union {NoRecord} :
          /\ ReadOwner(r)
          /\ Goto(c, IF r = c THEN "relrename" ELSE "abandoned")
    /\ UNCHANGED <<fsVars, procVars, snap, made, claimed, fd, after, expired, diag>>

\* rename(lockPath, remnant): the lock is free the instant it succeeds.
CanMoveAside(c) == lock # NoDir /\ (remnant[c] = NoDir \/ remnant[c].rec = NoRecord)

MoveAside(c) ==
    /\ remnant' = [remnant EXCEPT ![c] = lock]
    /\ lock' = NoDir

ReleaseRename(c) ==
    /\ Alive(c) /\ pc[c] = "relrename"
    /\ IF CanMoveAside(c)
       THEN MoveAside(c) /\ Goto(c, "relrm")
       ELSE Goto(c, "abandoned") /\ UNCHANGED <<lock, remnant>>
    /\ UNCHANGED <<quarantine, nextDir, removals, procVars, snap, made, claimed, fd, after, expired, diag>>

\* rm(remnant), then heldTokens.delete.  A failing rm is reported and leaves
\* the remnant behind; the lock itself is already free.
ReleaseRemove(c) ==
    /\ Alive(c) /\ pc[c] = "relrm"
    /\ \/ /\ remnant' = [remnant EXCEPT ![c] = NoDir]
          /\ held' = held \ {c}
          /\ Goto(c, "released")
       \/ /\ WriteFaults
          /\ Goto(c, "abandoned")
          /\ UNCHANGED <<remnant, held>>
    /\ UNCHANGED <<lock, quarantine, nextDir, removals, status, snap, made, claimed, fd, after, expired, diag>>

-----------------------------------------------------------------------------
(* rollBackOwnClaim *)

\* The end of the catch block: heldTokens.delete, then retry or throw.
EndRollback(c) ==
    /\ Goto(c, after[c])
    /\ held' = held \ {c}
    /\ ForgetDirs(c)

\* Another claim's record, or one that cannot be read, is left alone.
RollbackRead(c) ==
    /\ Alive(c) /\ pc[c] = "rbread"
    /\ \/ /\ RecordAt = c
          /\ Goto(c, "rbrename")
          /\ UNCHANGED <<held, made, claimed, fd>>
       \/ /\ RecordAt = NoRecord
          /\ Goto(c, "rbstat")
          /\ UNCHANGED <<held, made, claimed, fd>>
       \/ /\ RecordAt \notin {c, NoRecord} \/ ReadFaults
          /\ EndRollback(c)
    /\ UNCHANGED <<fsVars, status, snap, after, expired, diag>>

\* isClaimedDirectory: is it still the directory the lstat saw?
RollbackStat(c) ==
    /\ Alive(c) /\ pc[c] = "rbstat"
    /\ IF claimed[c] # 0 /\ lock # NoDir /\ lock.dir = claimed[c]
       THEN Goto(c, "rbrename") /\ UNCHANGED <<held, made, claimed, fd>>
       ELSE EndRollback(c)
    /\ UNCHANGED <<fsVars, status, snap, after, expired, diag>>

RollbackRename(c) ==
    /\ Alive(c) /\ pc[c] = "rbrename"
    /\ IF CanMoveAside(c)
       THEN MoveAside(c) /\ Goto(c, "rbrm") /\ UNCHANGED <<held, made, claimed, fd>>
       ELSE EndRollback(c) /\ UNCHANGED <<lock, remnant>>
    /\ UNCHANGED <<quarantine, nextDir, removals, status, snap, after, expired, diag>>

RollbackRemove(c) ==
    /\ Alive(c) /\ pc[c] = "rbrm"
    /\ remnant' = [remnant EXCEPT ![c] = NoDir] \/ (WriteFaults /\ remnant' = remnant)
    /\ EndRollback(c)
    /\ UNCHANGED <<lock, quarantine, nextDir, removals, status, snap, after, expired, diag>>

-----------------------------------------------------------------------------
ClaimStep(c) ==
    \/ Mkdir(c) \/ Read(c) \/ Judge(c) \/ Verify(c) \/ Rename(c) \/ Reread(c)
    \/ Check(c) \/ Recheck(c) \/ Stat(c) \/ Open(c) \/ Write(c)
    \/ ReleaseRead(c) \/ ReleaseRename(c) \/ ReleaseRemove(c)
    \/ RollbackRead(c) \/ RollbackStat(c) \/ RollbackRename(c) \/ RollbackRemove(c)

Next ==
    \/ \E p \in Procs : Start(p) \/ Die(p)
    \/ \E c \in Claims : Begin(c) \/ Expire(c) \/ Release(c) \/ ClaimStep(c)
    \/ RemoveOrphan

Spec == Init /\ [][Next]_vars

-----------------------------------------------------------------------------
(* Properties *)

\* No two live processes are between a successful acquire and its release:
\* what every caller of withFilesystemMutationLock relies on.
MutualExclusion ==
    \A c, d \in Claims :
        Alive(c) /\ Alive(d) /\ pc[c] = "held" /\ pc[d] = "held" => c = d

OwnRecordAt(place, c) == place # NoDir /\ place.rec = c

\* A claim that holds the lock, or is releasing it, keeps its own record at
\* lockPath until its own rename: no delayed reclaimer (quarantineStaleLock)
\* and no rollback of another claim takes it away.
HolderKeepsRecord ==
    \A c \in Claims :
        Alive(c) /\ pc[c] \in {"held", "relread", "relrename", "abandoned"} =>
            \/ OwnRecordAt(lock, c)
            \/ pc[c] \in {"relread", "abandoned"} /\ OwnRecordAt(remnant[c], c)

\* The owner of a record that has nothing left to do with the lock.
Ended(o) == ~Alive(o) \/ pc[o] = "failed"

\* A quarantine directory holds the record of the token it is named after,
\* and that claim is over: reclaiming never moves a live lock aside.
EvidenceOfTheDead ==
    \A o \in Claims : quarantine[o] # NoDir => quarantine[o].rec = o /\ Ended(o)

\* rollBackOwnClaim, after a failing write of owner.json, moves only a
\* directory that this very claim made, although its look at the path and its
\* rename are separate system calls and delayed reclaimers rename the path too.
\* It is false where a person removes orphans meanwhile, see README, Known limits.
RollbackMovesOwn ==
    [][\A c \in Claims :
          pc[c] = "rbrename" /\ pc'[c] = "rbrm" => lock.dir = made[c]]_vars

\* A timeout error calls an owner stale only if that claim is over, and a
\* not-stale owner it names is the one recorded now, or one that was not
\* demonstrably gone when it was judged: never a dead snapshot as the holder.
HonestDiagnosis ==
    [][\A c \in Claims :
          pc[c] \in {"check", "recheck"} /\ pc'[c] = "failed" /\ diag'[c].owner \in Claims =>
              LET o == diag'[c].owner
              IN  IF diag'[c].stale THEN Ended(o) /\ RecordAt = o
                  ELSE RecordAt = o \/ FALSE \in DemonstrablyGone(Proc[c], o)]_vars

\* The promise of the lock, without files: see Mutex.
Phase(c) ==
    CASE pc[c] \in {"released", "failed", "relread", "relrename", "relrm", "abandoned"}
         \/ status[Proc[c]] = "dead" -> "done"
      [] pc[c] = "held" /\ status[Proc[c]] # "dead" -> "holding"
      [] OTHER -> "waiting"

Promise == INSTANCE Mutex WITH phase <- [c \in Claims |-> Phase(c)]

\* claimLockPath and release implement Mutex: a claim holds only while no
\* other live claim does, and once done never holds again.
ImplementsMutex == Promise!Spec

-----------------------------------------------------------------------------
(* The inductive invariant behind the safety properties.  The heart of it is *)
(* ReclaimFenced: between a reclaimer's last look at the record and its      *)
(* rename, either the dead owner's record is still there or its quarantine   *)
(* exists already and refuses the rename.                                    *)

\* Live processes of one host have different pids.
PidsUnique ==
    \A p, q \in Procs :
        /\ status[p] = "alive" /\ status[q] = "alive"
        /\ Host[p] = Host[q] /\ Pid[p] = Pid[q]
        => p = q

\* Only a process that has started makes claims.
ClaimantsStarted == \A c \in Claims : pc[c] # "idle" => status[Proc[c]] # "unborn"

\* A claim's token is in heldTokens from its lstat to the end of its attempt.
TokenHeld ==
    \A c \in Claims :
        Alive(c) /\ pc[c] \in {"open", "write", "held", "relread", "relrename", "relrm",
                               "abandoned", "rbread", "rbstat", "rbrename", "rbrm"}
        => c \in held

\* The claims whose record may have reached the disk.
MayHaveWritten(o) ==
    \/ pc[o] \in {"held", "relread", "relrename", "relrm", "abandoned", "released", "failed"}
    \/ pc[o] \in {"rbread", "rbstat", "rbrename", "rbrm"} /\ after[o] = "failed"

Over(o) == status[Proc[o]] = "dead" \/ pc[o] \in {"failed", "released"}

\* Every owner read anywhere is a claim that wrote; one judged gone is over.
SnapshotsSound ==
    \A c \in Claims :
        /\ snap[c] \in Claims => MayHaveWritten(snap[c])
        /\ pc[c] \in {"judge", "verify", "rename", "recheck"} => snap[c] \in Claims
        /\ pc[c] \in {"verify", "rename", "recheck"} => Over(snap[c])

\* A record at lockPath belongs to a claim that wrote it and did not move it.
RecordSound ==
    lock # NoDir /\ lock.rec \in Claims =>
        MayHaveWritten(lock.rec) /\ (Alive(lock.rec) => pc[lock.rec] \notin {"relrm", "released", "rbrm"})

ReclaimFenced ==
    \A c \in Claims :
        Alive(c) /\ pc[c] = "rename" =>
            OwnRecordAt(lock, snap[c]) \/ quarantine[snap[c]] # NoDir

QuarantineSound ==
    \A o \in Claims : quarantine[o] # NoDir =>
        quarantine[o].rec = o /\ (status[Proc[o]] = "dead" \/ pc[o] = "failed")

\* Directories are numbered as they are made.
DirsFresh ==
    /\ lock # NoDir => lock.dir < nextDir
    /\ \A c \in Claims : claimed[c] < nextDir

\* The opener of owner.json still has the directory, and nobody else does.
WriterAlone ==
    /\ \A c \in Claims : Alive(c) /\ pc[c] = "write" =>
          lock # NoDir /\ lock.dir = fd[c] /\ lock.rec = Garbled
    /\ \A c, d \in Claims :
          Alive(c) /\ Alive(d) /\ pc[c] = "write" /\ pc[d] = "write" => c = d

Claiming == {"stat", "open", "write", "rbread", "rbstat", "rbrename"}

\* As long as nobody removes orphans, a claim owns what its mkdir made.
ClaimOwnsDir ==
    MaxRemovals = 0 =>
        /\ \A c \in Claims : Alive(c) /\ pc[c] \in Claiming =>
              /\ lock # NoDir /\ lock.dir = made[c]
              /\ lock.rec \in {NoRecord, Garbled, c}
              /\ pc[c] \in {"stat", "open"} => lock.rec = NoRecord
        /\ \A c, d \in Claims :
              Alive(c) /\ Alive(d) /\ pc[c] \in Claiming /\ pc[d] \in Claiming => c = d

\* Without write faults a rollback follows only a lost directory, finds none
\* of its own and moves nothing.
LostClaimMovesNothing ==
    ~WriteFaults =>
        \A c \in Claims : Alive(c) =>
            /\ pc[c] \notin {"rbrename", "rbrm"}
            /\ pc[c] \in {"rbread", "rbstat"} =>
                  after[c] = "mkdir" /\ (lock # NoDir => lock.dir # claimed[c])

RemnantSound == \A c \in Claims : Alive(c) /\ pc[c] = "relrm" => OwnRecordAt(remnant[c], c)

LockInv ==
    /\ TypeOK
    /\ PidsUnique /\ ClaimantsStarted /\ TokenHeld /\ SnapshotsSound
    /\ RecordSound /\ ReclaimFenced /\ QuarantineSound /\ DirsFresh
    /\ WriterAlone /\ ClaimOwnsDir /\ LostClaimMovesNothing /\ RemnantSound
    /\ HolderKeepsRecord
=============================================================================
