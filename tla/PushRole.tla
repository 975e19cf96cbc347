------------------------------ MODULE PushRole ------------------------------
(***************************************************************************)
(* The Node push role of packages/core/src/filesystem-push-role.ts over the *)
(* lock of FsLock: request() acquires the role's lock, runs the callback    *)
(* under it, or decides what a timed-out acquisition means.  A request is   *)
(* one claim; the one retry of acquireSettled keeps the claim, because a    *)
(* claim that timed out never wrote a record and its token was never seen.  *)
(***************************************************************************)
EXTENDS FsLock

CONSTANTS
    IfAvailable,   \* [Claims -> BOOLEAN]: the option of each request
    SubSecond      \* may a pid be reused within START_TIME_RESOLUTION_MS of a claim?

ASSUME RoleAssumption ==
    /\ IfAvailable \in [Claims -> BOOLEAN] /\ SubSecond \in BOOLEAN
    /\ ~WriteFaults          \* request passes a failed write of the record through

VARIABLES
    role,      \* how far each request is, and its answer
    attempt,   \* acquireSettled's attempt counter
    oldDir,    \* the directory at lockPath known to be older than claimGraceMs
    gone,      \* history: the owner on record when the request began, if dead by then
    seen       \* history: the processes there had been when the host said when
               \* the one with the holder's pid started; none when it did not say

roleVars == <<role, attempt, oldDir, gone, seen>>
allVars == <<vars, roleVars>>

Answers == {"ran", "skipped", "staleOwner", "rejected"}

RoleTypeOK ==
    /\ role \in [Claims -> {"acquire", "confirm", "answer"} \union Answers]
    /\ attempt \in [Claims -> 0..1]
    /\ oldDir \in Nat
    /\ gone \in [Claims -> Claims \union {NoRecord}]
    /\ seen \in [Claims -> SUBSET Procs]

RoleInit ==
    /\ Init
    /\ role = [c \in Claims |-> "acquire"]
    /\ attempt = [c \in Claims |-> 0]
    /\ oldDir = 0
    /\ gone = [c \in Claims |-> NoRecord]
    /\ seen = [c \in Claims |-> {}]

Becomes(c, a) == role' = [role EXCEPT ![c] = a]

\* The request's acquisition has thrown a FilesystemMutationLockError.
TimedOut(c) == Alive(c) /\ role[c] = "acquire" /\ pc[c] = "failed"

\* timeoutError calls a lock malformed when it names no owner.
Malformed(c) == diag[c].owner = NoRecord

\* An owner-less directory grows older than the grace.  A claimer writes its
\* record within milliseconds of its mkdir, so one that is still at it keeps
\* its directory young.
Age ==
    /\ lock # NoDir /\ oldDir # lock.dir
    /\ ~\E c \in Claims : Alive(c) /\ pc[c] \in Claiming /\ made[c] = lock.dir
    /\ oldDir' = lock.dir
    /\ UNCHANGED <<vars, role, attempt, gone, seen>>

\* acquireSettled on a malformed timeout: lockAgeMs.  A lock that is gone is
\* claimed once more; a young one is a live holder without a name; an old one
\* is the orphan it looks like.
LookAtAge(c) ==
    /\ TimedOut(c) /\ Malformed(c)
    /\ \/ /\ lock = NoDir /\ attempt[c] = 0
          /\ attempt' = [attempt EXCEPT ![c] = 1]
          /\ Goto(c, "mkdir")
          /\ expired' = [expired EXCEPT ![c] = FALSE]
          /\ UNCHANGED role
       \/ /\ lock = NoDir => attempt[c] = 1
          /\ lock # NoDir => lock.dir # oldDir
          /\ Becomes(c, "answer")
          /\ UNCHANGED <<pc, expired, attempt>>
       \/ /\ lock # NoDir /\ lock.dir = oldDir
          /\ Becomes(c, "rejected")
          /\ UNCHANGED <<pc, expired, attempt>>
    /\ UNCHANGED <<fsVars, procVars, snap, made, claimed, fd, after, diag, oldDir, gone, seen>>

\* A stale lock is one the caller must see.
RejectStale(c) ==
    /\ TimedOut(c) /\ ~Malformed(c) /\ diag[c].stale
    /\ Becomes(c, "rejected")
    /\ UNCHANGED <<vars, attempt, oldDir, gone, seen>>

\* What a start time from processStartedAt says of the pid of o: is the process
\* that carries it now younger than o's claim?  FALSE also stands for the null
\* of a pid nobody carries; a ps that does not answer is a case of AskStart.
StartedAfterClaim(p, o) ==
    IF \E q \in Procs : status[q] = "alive" /\ Host[q] = Host[p] /\ Pid[q] = Pid[Proc[o]] /\ q # Proc[o]
    THEN {TRUE} \union (IF SubSecond THEN {FALSE} ELSE {})
    ELSE IF ClockSteps THEN BOOLEAN ELSE {FALSE}

\* Mutant: a pid that answers is taken for the holder, as the lock takes it.
NeverAsked(c) ==
    /\ TimedOut(c) /\ ~Malformed(c) /\ ~diag[c].stale
    /\ Becomes(c, "answer")
    /\ seen' = [seen EXCEPT ![c] = {q \in Procs : status[q] # "unborn"}]
    /\ UNCHANGED <<vars, attempt, oldDir, gone>>

\* A live claim by a named owner: ask about its pid, unless it is foreign or
\* this process's own.  No ps, or one that fails or takes longer than two
\* seconds, gives null, and the owner then passes for a live one.
AskStart(c) ==
    /\ TimedOut(c) /\ ~Malformed(c) /\ ~diag[c].stale
    /\ LET o == diag[c].owner
           asked == SameHost(Proc[c], o) /\ Pid[Proc[o]] # Pid[Proc[c]]
       IN  \/ /\ \E younger \in IF asked THEN StartedAfterClaim(Proc[c], o) ELSE {FALSE} :
                    Becomes(c, IF younger THEN "confirm" ELSE "answer")
              /\ seen' = [seen EXCEPT ![c] = {q \in Procs : status[q] # "unborn"}]
           \/ /\ asked
              /\ Becomes(c, "answer")
              /\ seen' = [seen EXCEPT ![c] = {}]
    /\ UNCHANGED <<vars, attempt, oldDir, gone>>

\* Mutant: the younger process convicts the snapshot without a second look.
ConfirmBlind(c) ==
    /\ Alive(c) /\ role[c] = "confirm"
    /\ Becomes(c, "staleOwner")
    /\ UNCHANGED <<vars, attempt, oldDir, gone, seen>>

\* lockHeldBy: the owner is blamed only while the lock carries its record.
Confirm(c) ==
    /\ Alive(c) /\ role[c] = "confirm"
    /\ \/ RecordAt = diag[c].owner /\ Becomes(c, "staleOwner")
       \/ (RecordAt # diag[c].owner \/ ReadFaults) /\ Becomes(c, "answer")
    /\ UNCHANGED <<vars, attempt, oldDir, gone, seen>>

\* Held elsewhere: null for ifAvailable, unless the holder is on another host.
AnswerHeld(c) ==
    /\ Alive(c) /\ role[c] = "answer"
    /\ LET foreign == ~Malformed(c) /\ ~SameHost(Proc[c], diag[c].owner)
       IN  Becomes(c, IF IfAvailable[c] /\ ~foreign THEN "skipped" ELSE "rejected")
    /\ UNCHANGED <<vars, attempt, oldDir, gone, seen>>

\* The callback ran under the role and the release has settled; a failing
\* release rejects, but the work is done.
Settle(c) ==
    /\ Alive(c) /\ role[c] = "acquire" /\ pc[c] \in {"released", "abandoned"}
    /\ Becomes(c, "ran")
    /\ UNCHANGED <<vars, attempt, oldDir, gone, seen>>

RoleStep(c) ==
    \/ LookAtAge(c) \/ RejectStale(c) \/ AskStart(c) \/ Confirm(c)
    \/ AnswerHeld(c) \/ Settle(c)

\* request releases once, when its callback has settled.
LockStep ==
    /\ Next
    /\ \A c \in Claims : pc[c] = "abandoned" => pc'[c] = "abandoned"
    /\ gone' = [c \in Claims |->
                   IF pc[c] = "idle" /\ pc'[c] # "idle" /\ RecordAt # NoRecord /\ ~Alive(RecordAt)
                   THEN RecordAt ELSE gone[c]]
    /\ UNCHANGED <<role, attempt, oldDir, seen>>

RoleNext == LockStep \/ Age \/ \E c \in Claims : RoleStep(c)

\* A live process keeps running, and a claim that keeps looking at its clock
\* finds its budget spent (see FsLock).  Callbacks and deaths are unconstrained.
RoleSpec ==
    /\ RoleInit /\ [][RoleNext]_allVars
    /\ \A c \in Claims :
          /\ WF_allVars((ClaimStep(c) /\ UNCHANGED roleVars) \/ RoleStep(c))
          /\ SF_allVars(Expire(c) /\ UNCHANGED roleVars)

-----------------------------------------------------------------------------
(* Properties *)

\* PushRoleStaleOwnerError tells a person to remove the lock: it is thrown
\* only while the lock carries the record of the owner it names and the
\* process that claimed it is dead, never for a live replacement.
BlamedHolderIsDead ==
    [][\A c \in Claims :
          role[c] # "staleOwner" /\ role'[c] = "staleOwner" =>
              RecordAt = diag[c].owner /\ status[Proc[diag[c].owner]] = "dead"]_allVars

\* A request that began after the recorded holder of its host had died, and
\* whose host answered when asked for a start time, does not skip the sync in
\* silence and leave that lock to skip every later one: it reclaims or reports
\* it, or another process has reclaimed it, or the pid, reused for a while, has
\* become free again, so that the next request reclaims, unless the pid was
\* reused once more after this request had asked.  On a host where ps does not
\* answer (seen is empty) a reused pid does let requests skip in silence.
DeadHolderNeverSkipped ==
    \A c \in Claims :
        LET o == gone[c]
        IN  /\ Alive(c) /\ role[c] = "skipped"
            /\ o # NoRecord /\ diag[c].owner = o /\ OwnRecordAt(lock, o)
            => ~\E q \in seen[c] : status[q] = "alive" /\ Host[q] = Host[Proc[o]]
                                                     /\ Pid[q] = Pid[Proc[o]]

\* A restarted process, whose pid is the dead holder's, reclaims: with exact
\* clocks its own pid is no proof of the holder.  Only when a record could not
\* be read in between does it report the holder, and then as stale.
RestartReclaims ==
    \A c \in Claims :
        LET o == gone[c]
        IN  /\ o # NoRecord /\ SameHost(Proc[c], o) /\ Pid[Proc[o]] = Pid[Proc[c]]
            /\ diag[c].owner = o
            => ReadFaults /\ diag[c].stale

\* No request waits for ever: in the end each one has its answer, runs its
\* callback or died with its process.  The lock's own wait ends whatever the
\* holder does, and acquireSettled's retry adds at most one more.
RequestSettles ==
    <>[](\A c \in Claims :
            ~Alive(c) \/ pc[c] \in {"idle", "held"} \/ role[c] \in Answers)

-----------------------------------------------------------------------------
(* The inductive invariant behind the safety properties, on top of LockInv. *)
(* A claim that timed out is claimed again under the same token: that is    *)
(* sound because nothing anywhere names a claim that has not acquired.      *)

\* The claims whose record has been at lockPath.
HasAcquired(o) ==
    pc[o] \in {"held", "relread", "relrename", "relrm", "abandoned", "released"}

NamesAcquired ==
    /\ lock # NoDir /\ lock.rec \in Claims => HasAcquired(lock.rec)
    /\ \A o \in Claims : quarantine[o] # NoDir => HasAcquired(o)
    /\ \A c \in Claims : /\ snap[c] \in Claims => HasAcquired(snap[c])
                         /\ diag[c].owner \in Claims => HasAcquired(diag[c].owner)

\* A record that was put into quarantine does not come back to lockPath.
RecordMovedOnce == \A o \in Claims : quarantine[o] # NoDir => RecordAt # o

\* A request has an answer only after its acquisition has settled.
AnswerSettled ==
    \A c \in Claims :
        /\ role[c] \in {"confirm", "answer", "skipped", "staleOwner", "rejected"} => pc[c] = "failed"
        /\ role[c] = "ran" => pc[c] \in {"released", "abandoned"}
        /\ pc[c] = "idle" => gone[c] = NoRecord /\ diag[c].owner = NoRecord /\ snap[c] = NoRecord

\* The owner that was dead when the request began stays dead, and once its
\* record has given way to another, it is gone for good.
GoneForGood ==
    \A c \in Claims :
        LET o == gone[c]
        IN  o # NoRecord =>
               /\ HasAcquired(o) /\ status[Proc[o]] = "dead"
               /\ snap[c] \in Claims /\ snap[c] # o => RecordAt # o

\* Under its own pid, a request that still reads the dead owner's record
\* reclaims it, as long as it can read.
OwnPidKnown ==
    \A c \in Claims :
        LET o == gone[c]
        IN  ~ClockSteps /\ o # NoRecord /\ SameHost(Proc[c], o) /\ Pid[Proc[o]] = Pid[Proc[c]] =>
               /\ diag[c].owner = o => ReadFaults /\ diag[c].stale
               /\ ~ReadFaults /\ Alive(c) /\ pc[c] \in {"reread", "check", "recheck"} =>
                     RecordAt # o /\ (pc[c] # "reread" => snap[c] # o)

\* An owner is suspected only when another process has its pid.
SuspectDead ==
    \A c \in Claims : role[c] \in {"confirm", "staleOwner"} =>
        diag[c].owner \in Claims /\ (~ClockSteps => status[Proc[diag[c].owner]] = "dead")

\* A request that found the dead owner's lock held had no process to suspect.
NobodyToSuspect ==
    /\ \A c \in Claims : \A q \in seen[c] : status[q] # "unborn"
    /\ ~ReadFaults /\ ~ClockSteps /\ ~SubSecond =>
          \A c \in Claims :
              LET o == gone[c]
              IN  /\ role[c] \in {"answer", "skipped"}
                  /\ o # NoRecord /\ diag[c].owner = o /\ RecordAt = o
                  => /\ role[c] = "skipped" => SameHost(Proc[c], o)
                     /\ SameHost(Proc[c], o) =>
                           ~\E q \in seen[c] : /\ status[q] = "alive" /\ Host[q] = Host[Proc[o]]
                                              /\ Pid[q] = Pid[Proc[o]]

RoleInv ==
    /\ RoleTypeOK /\ LockInv
    /\ NamesAcquired /\ RecordMovedOnce /\ AnswerSettled /\ GoneForGood
    /\ OwnPidKnown /\ SuspectDead /\ NobodyToSuspect
=============================================================================
