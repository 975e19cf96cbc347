---------------------------- MODULE FsLockProofs ----------------------------
(* Machine-checked proofs about FsLock, for every set of claims and processes *)
EXTENDS FsLock, TLAPS

\* Types are preserved by every step, whatever faults are allowed.
LEMMA TypeStep == TypeOK /\ [Next]_vars => TypeOK'
<1> SUFFICES ASSUME TypeOK, [Next]_vars PROVE TypeOK'
  OBVIOUS
<1> USE ClaimAssumption DEF TypeOK, Dir, Records, PCs
<1>1. CASE UNCHANGED vars
  BY <1>1 DEF vars, fsVars, procVars, claimVars
<1>2. ASSUME NEW p \in Procs, Start(p) PROVE TypeOK'
  BY <1>2 DEF Start, fsVars, claimVars
<1>3. ASSUME NEW p \in Procs, Die(p) PROVE TypeOK'
  BY <1>3 DEF Die, fsVars, claimVars
<1>4. CASE RemoveOrphan
  BY <1>4 DEF RemoveOrphan, procVars, claimVars
<1>5. ASSUME NEW c \in Claims, Begin(c) PROVE TypeOK'
  BY <1>5 DEF Begin, Goto, fsVars, procVars
<1>6. ASSUME NEW c \in Claims, Expire(c) PROVE TypeOK'
  BY <1>6 DEF Expire, Goto, fsVars, procVars
<1>7. ASSUME NEW c \in Claims, Release(c) PROVE TypeOK'
  BY <1>7 DEF Release, Goto, fsVars, procVars
<1>8. ASSUME NEW c \in Claims, Mkdir(c) PROVE TypeOK'
  BY <1>8 DEF Mkdir, Goto, fsVars, procVars
<1>9. ASSUME NEW c \in Claims, Read(c) PROVE TypeOK'
  BY <1>9 DEF Read, Goto, fsVars, procVars, ReadOwner
<1>10. ASSUME NEW c \in Claims, Judge(c) PROVE TypeOK'
  BY <1>10 DEF Judge, Goto, fsVars, procVars
<1>11. ASSUME NEW c \in Claims, Verify(c) PROVE TypeOK'
  BY <1>11 DEF Verify, Goto, fsVars, procVars, ReadOwner
<1>12. ASSUME NEW c \in Claims, Rename(c) PROVE TypeOK'
  <2>1. pc' \in [Claims -> PCs]
    BY <1>12 DEF Rename, Goto
  <2>2. lock' \in Dir \union {NoDir}
    BY <1>12 DEF Rename
  <2>3. quarantine' \in [Claims -> Dir \union {NoDir}]
    <3>1. CASE quarantine' = quarantine
      BY <3>1
    <3>2. CASE quarantine' = [quarantine EXCEPT ![snap[c]] = lock]
      <4> HIDE DEF Dir
      <4>1. QED
        BY <3>2
    <3>3. QED
      BY <1>12, <3>1, <3>2 DEF Rename
  <2>4. snap' \in [Claims -> Claims \union {NoRecord}]
    BY <1>12 DEF Rename
  <2>5. QED
    BY <1>12, <2>1, <2>2, <2>3, <2>4 DEF Rename, procVars
<1>13. ASSUME NEW c \in Claims, Reread(c) PROVE TypeOK'
  BY <1>13 DEF Reread, Goto, fsVars, procVars, ReadOwner
<1>14. ASSUME NEW c \in Claims, Check(c) PROVE TypeOK'
  <2>1. pc' \in [Claims -> PCs]
    BY <1>14 DEF Check, Goto
  <2>2. snap' \in [Claims -> Claims \union {NoRecord}]
    BY <1>14 DEF Check
  <2>3. diag' = diag \/ diag' = [diag EXCEPT ![c] = [owner |-> snap[c], stale |-> FALSE]]
    BY <1>14 DEF Check
  <2>4. [owner |-> snap[c], stale |-> FALSE] \in [owner : Claims \union {NoRecord}, stale : BOOLEAN]
    OBVIOUS
  <2>5. diag' \in [Claims -> [owner : Claims \union {NoRecord}, stale : BOOLEAN]]
    <3> DEFINE D == [owner : Claims \union {NoRecord}, stale : BOOLEAN]
    <3>1. diag \in [Claims -> D]
      OBVIOUS
    <3> SUFFICES diag' \in [Claims -> D]
      OBVIOUS
    <3> HIDE DEF D, TypeOK
    <3>2. CASE diag' = diag
      BY <3>1, <3>2
    <3>3. CASE diag' = [diag EXCEPT ![c] = [owner |-> snap[c], stale |-> FALSE]]
      <4>1. [owner |-> snap[c], stale |-> FALSE] \in D
        BY <2>4 DEF D
      <4>2. QED
        BY <3>1, <3>3, <4>1
    <3>4. QED
      BY <2>3, <3>2, <3>3
  <2>6. QED
    BY <1>14, <2>1, <2>2, <2>5 DEF Check, fsVars, procVars
<1>15. ASSUME NEW c \in Claims, Recheck(c) PROVE TypeOK'
  BY <1>15 DEF Recheck, Goto, fsVars, procVars, ReadOwner
<1>16. ASSUME NEW c \in Claims, Stat(c) PROVE TypeOK'
  BY <1>16 DEF Stat, Goto, fsVars, procVars
<1>17. ASSUME NEW c \in Claims, Open(c) PROVE TypeOK'
  <2>1. pc' \in [Claims -> PCs]
    BY <1>17 DEF Open, Goto
  <2>2. lock' \in Dir \union {NoDir}
    BY <1>17 DEF Open
  <2>3. made' \in [Claims -> Nat] /\ claimed' \in [Claims -> Nat] /\ fd' \in [Claims -> Nat]
    BY <1>17 DEF Open, ForgetDirs
  <2>4. held' \in SUBSET Claims /\ after' \in [Claims -> {"mkdir", "failed"}]
    BY <1>17 DEF Open
  <2>5. QED
    BY <1>17, <2>1, <2>2, <2>3, <2>4 DEF Open
<1>18. ASSUME NEW c \in Claims, Write(c) PROVE TypeOK'
  <2>1. pc' \in [Claims -> PCs]
    BY <1>18 DEF Write, Goto
  <2>2. lock' \in Dir \union {NoDir}
    BY <1>18 DEF Write
  <2>3. made' \in [Claims -> Nat] /\ claimed' \in [Claims -> Nat] /\ fd' \in [Claims -> Nat]
    BY <1>18 DEF Write, ForgetDirs
  <2>4. after' \in [Claims -> {"mkdir", "failed"}]
    BY <1>18 DEF Write
  <2>5. QED
    BY <1>18, <2>1, <2>2, <2>3, <2>4 DEF Write, procVars
<1>19. ASSUME NEW c \in Claims, ReleaseRead(c) PROVE TypeOK'
  BY <1>19 DEF ReleaseRead, Goto, fsVars, procVars, ReadOwner
<1>20. ASSUME NEW c \in Claims, ReleaseRename(c) PROVE TypeOK'
  BY <1>20 DEF ReleaseRename, Goto, fsVars, procVars, CanMoveAside, MoveAside
<1>21. ASSUME NEW c \in Claims, ReleaseRemove(c) PROVE TypeOK'
  BY <1>21 DEF ReleaseRemove, Goto, fsVars, procVars
<1>22. ASSUME NEW c \in Claims, RollbackRead(c) PROVE TypeOK'
  <2>0. \E l \in {"rbrename", "rbstat", after[c]} : pc' = [pc EXCEPT ![c] = l]
    BY <1>22 DEF RollbackRead, Goto, EndRollback
  <2>1. pc' \in [Claims -> PCs]
    BY <2>0
  <2>2a. UNCHANGED <<made, claimed, fd>> \/ ForgetDirs(c)
    BY <1>22 DEF RollbackRead, EndRollback
  <2>2. made' \in [Claims -> Nat] /\ claimed' \in [Claims -> Nat] /\ fd' \in [Claims -> Nat]
    BY <2>2a DEF ForgetDirs
  <2>3. held' \in SUBSET Claims
    BY <1>22 DEF RollbackRead, EndRollback
  <2>4. QED
    BY <1>22, <2>1, <2>2, <2>3 DEF RollbackRead, fsVars
<1>23. ASSUME NEW c \in Claims, RollbackStat(c) PROVE TypeOK'
  BY <1>23 DEF RollbackStat, Goto, fsVars, procVars, EndRollback, ForgetDirs
<1>24. ASSUME NEW c \in Claims, RollbackRename(c) PROVE TypeOK'
  <2>1. pc' \in [Claims -> PCs]
    BY <1>24 DEF RollbackRename, Goto, EndRollback
  <2>2. made' \in [Claims -> Nat] /\ claimed' \in [Claims -> Nat] /\ fd' \in [Claims -> Nat]
    BY <1>24 DEF RollbackRename, EndRollback, ForgetDirs
  <2>3. held' \in SUBSET Claims
    BY <1>24 DEF RollbackRename, EndRollback
  <2>4. QED
    BY <1>24, <2>1, <2>2, <2>3 DEF RollbackRename, fsVars, CanMoveAside, MoveAside
<1>25. ASSUME NEW c \in Claims, RollbackRemove(c) PROVE TypeOK'
  BY <1>25 DEF RollbackRemove, Goto, fsVars, procVars, EndRollback, ForgetDirs
<1>26. QED
  BY <1>1, <1>2, <1>3, <1>4, <1>5, <1>6, <1>7, <1>8, <1>9, <1>10, <1>11, <1>12, <1>13, <1>14, <1>15, <1>16, <1>17, <1>18, <1>19, <1>20, <1>21, <1>22, <1>23, <1>24, <1>25 DEF Next, ClaimStep

\* Type correctness of the lock for every set of claims and processes.
THEOREM TypeCorrect == Spec => []TypeOK
<1>1. Init => TypeOK
  BY ClaimAssumption DEF Init, TypeOK, Dir, Records, PCs
<1>2. QED
  BY <1>1, TypeStep, PTL DEF Spec

\* What a claim may conclude from ownerIsGone: the owner's claim is over.
LEMMA GoneIsOver ==
    ASSUME LockInv, NEW c \in Claims, Alive(c), NEW o \in Claims, MayHaveWritten(o),
           NEW gone \in DemonstrablyGone(Proc[c], o), gone
    PROVE  Over(o)
<1> USE ClaimAssumption DEF LockInv, TypeOK, Alive
<1>1. SameHost(Proc[c], o) /\ gone \in OwnerIsGone(Proc[c], o)
  BY DEF DemonstrablyGone
<1>2. status[Proc[o]] \in {"alive", "dead"}
  BY DEF ClaimantsStarted, MayHaveWritten
<1>3. CASE Pid[Proc[o]] # Pid[Proc[c]]
  <2>1. ~ProcessExists(Host[Proc[c]], Pid[Proc[o]])
    BY <1>1, <1>3 DEF OwnerIsGone
  <2>2. QED
    BY <1>1, <1>2, <2>1 DEF ProcessExists, SameHost, Over
<1>4. CASE Pid[Proc[o]] = Pid[Proc[c]] /\ Proc[o] # Proc[c]
  BY <1>1, <1>2, <1>4 DEF PidsUnique, SameHost, Over
<1>5. CASE Proc[o] = Proc[c]
  <2>1. o \notin held
    BY <1>1, <1>5 DEF OwnerIsGone
  <2>2. QED
    BY <1>5, <2>1 DEF TokenHeld, MayHaveWritten, Over
<1>6. QED
  BY <1>3, <1>4, <1>5

\* The three ways out of the wait budget check.
LEMMA CheckCases ==
    ASSUME LockInv, NEW c \in Claims, Check(c)
    PROVE  /\ UNCHANGED <<lock, quarantine, remnant, nextDir, removals, status, held,
                          made, claimed, fd, after>>
           /\ Alive(c) /\ pc[c] = "check"
           /\ \/ /\ pc' = [pc EXCEPT ![c] = "mkdir"] \/ pc' = [pc EXCEPT ![c] = "failed"]
                 /\ snap' = [snap EXCEPT ![c] = NoRecord]
              \/ /\ pc' = [pc EXCEPT ![c] = "recheck"]
                 /\ snap' = snap
                 /\ snap[c] \in Claims /\ Over(snap[c])
<1>1. UNCHANGED <<lock, quarantine, remnant, nextDir, removals, status, held, made, claimed, fd, after>>
  BY DEF Check, fsVars, procVars
<1>2. Alive(c) /\ pc[c] = "check"
  BY DEF Check
<1>3. CASE ~expired[c]
  BY <1>1, <1>2, <1>3 DEF Check, Goto
<1>4. CASE expired[c]
  <2>1. PICK gone \in DemonstrablyGone(Proc[c], snap[c]) :
            \/ gone /\ Goto(c, "recheck") /\ UNCHANGED <<snap, diag>>
            \/ ~gone /\ Goto(c, "failed") /\ snap' = [snap EXCEPT ![c] = NoRecord]
    BY <1>4 DEF Check
  <2>2. CASE gone
    <3>1. snap[c] \in Claims
      BY <2>2 DEF DemonstrablyGone
    <3>2. MayHaveWritten(snap[c])
      BY <3>1 DEF LockInv, SnapshotsSound
    <3>3. Over(snap[c])
      BY <1>2, <2>2, <3>1, <3>2, GoneIsOver
    <3>4. QED
      BY <1>1, <1>2, <2>1, <2>2, <3>1, <3>3 DEF Goto
  <2>3. CASE ~gone
    BY <1>1, <1>2, <2>1, <2>3 DEF Goto
  <2>4. QED
    BY <2>2, <2>3
<1>5. QED
  BY <1>3, <1>4

\* A quarantine rename moves the record of an owner that is over, or nothing.
LEMMA RenameCases ==
    ASSUME LockInv, NEW c \in Claims, Rename(c)
    PROVE  /\ UNCHANGED <<remnant, nextDir, removals, status, held, made, claimed, fd, after>>
           /\ Alive(c) /\ pc[c] = "rename" /\ snap[c] \in Claims
           /\ \/ /\ UNCHANGED <<lock, quarantine, snap>>
                 /\ pc' = [pc EXCEPT ![c] = "reread"]
              \/ /\ lock # NoDir /\ lock.rec = snap[c]
                 /\ status[Proc[snap[c]]] = "dead" \/ pc[snap[c]] = "failed"
                 /\ quarantine' = [quarantine EXCEPT ![snap[c]] = lock]
                 /\ lock' = NoDir
                 /\ snap' = [snap EXCEPT ![c] = NoRecord]
                 /\ pc' = [pc EXCEPT ![c] = "mkdir"]
<1> USE ClaimAssumption DEF LockInv, TypeOK, Dir
<1>1. snap[c] \in Claims /\ Over(snap[c]) /\ MayHaveWritten(snap[c])
  BY DEF Rename, SnapshotsSound
<1>2. Alive(c) /\ pc[c] = "rename"
  BY DEF Rename
<1>3. UNCHANGED <<remnant, nextDir, removals, status, held, made, claimed, fd, after>>
  BY DEF Rename, procVars
<1>4. CASE lock # NoDir /\ (quarantine[snap[c]] = NoDir \/ quarantine[snap[c]].rec = NoRecord)
  <2>1. quarantine[snap[c]] = NoDir
    BY <1>1, <1>4 DEF QuarantineSound
  <2>2. lock.rec = snap[c]
    BY <1>2, <2>1 DEF ReclaimFenced, OwnRecordAt
  <2>3. status[Proc[snap[c]]] = "dead" \/ pc[snap[c]] = "failed"
    BY <1>1, <1>4, <2>2 DEF RecordSound, Over, Alive, MayHaveWritten, ClaimantsStarted
  <2>4. QED
    BY <1>1, <1>2, <1>3, <1>4, <2>2, <2>3 DEF Rename, Goto
<1>5. CASE ~(lock # NoDir /\ (quarantine[snap[c]] = NoDir \/ quarantine[snap[c]].rec = NoRecord))
  BY <1>1, <1>2, <1>3, <1>5 DEF Rename, Goto
<1>6. QED
  BY <1>4, <1>5

\* A release renames the directory with the claim's own record.
LEMMA ReleaseMovesOwn ==
    ASSUME LockInv, NEW c \in Claims, ReleaseRename(c)
    PROVE  lock # NoDir /\ lock.rec = c
  BY DEF ReleaseRename, LockInv, HolderKeepsRecord, OwnRecordAt

\* Orphan removal and write faults do not come together.
Mode == ~(WriteFaults /\ MaxRemovals > 0)

\* A rollback that reaches its rename has its own directory before it.
LEMMA RollbackOwns ==
    ASSUME LockInv, Mode, NEW c \in Claims, RollbackRename(c)
    PROVE  /\ MaxRemovals = 0
           /\ lock # NoDir /\ lock.dir = made[c]
           /\ lock.rec \in {NoRecord, Garbled, c}
<1>1. Alive(c) /\ pc[c] = "rbrename"
  BY DEF RollbackRename
<1>2. WriteFaults
  BY <1>1 DEF LockInv, LostClaimMovesNothing
<1>3. MaxRemovals = 0
  BY <1>2, ClaimAssumption DEF Mode
<1>4. QED
  BY <1>1, <1>3 DEF LockInv, ClaimOwnsDir, Claiming

\* The two outcomes of a rollback's rename.
LEMMA RollbackRenameCases ==
    ASSUME LockInv, Mode, NEW c \in Claims, RollbackRename(c)
    PROVE  /\ UNCHANGED <<quarantine, nextDir, removals, status, snap, after>>
           /\ Alive(c) /\ pc[c] = "rbrename"
           /\ lock # NoDir /\ lock.rec \in {NoRecord, Garbled, c}
           /\ \/ /\ lock' = NoDir /\ remnant' = [remnant EXCEPT ![c] = lock]
                 /\ pc' = [pc EXCEPT ![c] = "rbrm"]
                 /\ UNCHANGED <<held, made, claimed, fd>>
              \/ /\ UNCHANGED <<lock, remnant>>
                 /\ pc' = [pc EXCEPT ![c] = after[c]]
                 /\ held' = held \ {c}
<1>1. UNCHANGED <<quarantine, nextDir, removals, status, snap, after>> /\ Alive(c) /\ pc[c] = "rbrename"
  BY DEF RollbackRename
<1>2. CASE CanMoveAside(c)
  BY <1>1, <1>2, RollbackOwns DEF RollbackRename, MoveAside, Goto
<1>3. CASE ~CanMoveAside(c)
  BY <1>1, <1>3, RollbackOwns DEF RollbackRename, EndRollback, Goto
<1>4. QED
  BY <1>2, <1>3

\* A process starts only under a pid that no live process of its host has.
LEMMA PidsUniqueStep ==
    ASSUME Mode, LockInv, Next, TypeOK'
    PROVE  PidsUnique'
<1> USE ClaimAssumption, NoDirAssumption DEF Alive, Goto, TypeOK, Dir, Records, PCs, fsVars, procVars, claimVars, LockInv, PidsUnique, ProcessExists
<1>1. ASSUME NEW p \in Procs, Start(p) PROVE PidsUnique'
  BY <1>1 DEF Start
<1>2. ASSUME NEW p \in Procs, Die(p) PROVE PidsUnique'
  BY <1>2 DEF Die
<1>3. CASE RemoveOrphan
  BY <1>3 DEF RemoveOrphan
<1>4. ASSUME NEW c \in Claims, Begin(c) PROVE PidsUnique'
  BY <1>4 DEF Begin
<1>5. ASSUME NEW c \in Claims, Expire(c) PROVE PidsUnique'
  BY <1>5 DEF Expire
<1>6. ASSUME NEW c \in Claims, Release(c) PROVE PidsUnique'
  BY <1>6 DEF Release
<1>7. ASSUME NEW c \in Claims, Mkdir(c) PROVE PidsUnique'
  BY <1>7 DEF Mkdir
<1>8. ASSUME NEW c \in Claims, Read(c) PROVE PidsUnique'
  BY <1>8 DEF Read, ReadOwner, RecordAt
<1>9. ASSUME NEW c \in Claims, Judge(c) PROVE PidsUnique'
  BY <1>9 DEF Judge, DemonstrablyGone
<1>10. ASSUME NEW c \in Claims, Verify(c) PROVE PidsUnique'
  BY <1>10 DEF Verify, ReadOwner, RecordAt
<1>11. ASSUME NEW c \in Claims, Rename(c) PROVE PidsUnique'
  BY <1>11, RenameCases
<1>12. ASSUME NEW c \in Claims, Reread(c) PROVE PidsUnique'
  BY <1>12 DEF Reread, ReadOwner, RecordAt
<1>13. ASSUME NEW c \in Claims, Check(c) PROVE PidsUnique'
  BY <1>13, CheckCases
<1>14. ASSUME NEW c \in Claims, Recheck(c) PROVE PidsUnique'
  BY <1>14 DEF Recheck, ReadOwner, RecordAt
<1>15. ASSUME NEW c \in Claims, Stat(c) PROVE PidsUnique'
  BY <1>15 DEF Stat
<1>16. ASSUME NEW c \in Claims, Open(c) PROVE PidsUnique'
  BY <1>16 DEF Open, ForgetDirs
<1>17. ASSUME NEW c \in Claims, Write(c) PROVE PidsUnique'
  BY <1>17 DEF Write, ForgetDirs
<1>18. ASSUME NEW c \in Claims, ReleaseRead(c) PROVE PidsUnique'
  BY <1>18 DEF ReleaseRead, ReadOwner, RecordAt
<1>19. ASSUME NEW c \in Claims, ReleaseRename(c) PROVE PidsUnique'
  BY <1>19, ReleaseMovesOwn DEF ReleaseRename, CanMoveAside, MoveAside
<1>20. ASSUME NEW c \in Claims, ReleaseRemove(c) PROVE PidsUnique'
  BY <1>20 DEF ReleaseRemove
<1>21. ASSUME NEW c \in Claims, RollbackRead(c) PROVE PidsUnique'
  BY <1>21 DEF RollbackRead, RecordAt, EndRollback, ForgetDirs
<1>22. ASSUME NEW c \in Claims, RollbackStat(c) PROVE PidsUnique'
  BY <1>22 DEF RollbackStat, EndRollback, ForgetDirs
<1>23. ASSUME NEW c \in Claims, RollbackRename(c) PROVE PidsUnique'
  BY <1>23, RollbackOwns DEF RollbackRename, CanMoveAside, MoveAside, EndRollback, ForgetDirs
<1>24. ASSUME NEW c \in Claims, RollbackRemove(c) PROVE PidsUnique'
  BY <1>24 DEF RollbackRemove, EndRollback, ForgetDirs
<1>25. QED
  BY <1>1, <1>2, <1>3, <1>4, <1>5, <1>6, <1>7, <1>8, <1>9, <1>10, <1>11, <1>12, <1>13, <1>14, <1>15, <1>16, <1>17, <1>18, <1>19, <1>20, <1>21, <1>22, <1>23, <1>24 DEF Next, ClaimStep

\* Claims are made by processes that have started.
LEMMA ClaimantsStartedStep ==
    ASSUME Mode, LockInv, Next, TypeOK'
    PROVE  ClaimantsStarted'
<1> USE ClaimAssumption, NoDirAssumption DEF Alive, Goto, TypeOK, Dir, Records, PCs, fsVars, procVars, claimVars, LockInv, ClaimantsStarted
<1>1. ASSUME NEW p \in Procs, Start(p) PROVE ClaimantsStarted'
  BY <1>1 DEF Start
<1>2. ASSUME NEW p \in Procs, Die(p) PROVE ClaimantsStarted'
  BY <1>2 DEF Die
<1>3. CASE RemoveOrphan
  BY <1>3 DEF RemoveOrphan
<1>4. ASSUME NEW c \in Claims, Begin(c) PROVE ClaimantsStarted'
  BY <1>4 DEF Begin
<1>5. ASSUME NEW c \in Claims, Expire(c) PROVE ClaimantsStarted'
  BY <1>5 DEF Expire
<1>6. ASSUME NEW c \in Claims, Release(c) PROVE ClaimantsStarted'
  BY <1>6 DEF Release
<1>7. ASSUME NEW c \in Claims, Mkdir(c) PROVE ClaimantsStarted'
  BY <1>7 DEF Mkdir
<1>8. ASSUME NEW c \in Claims, Read(c) PROVE ClaimantsStarted'
  BY <1>8 DEF Read, ReadOwner, RecordAt
<1>9. ASSUME NEW c \in Claims, Judge(c) PROVE ClaimantsStarted'
  BY <1>9 DEF Judge, DemonstrablyGone
<1>10. ASSUME NEW c \in Claims, Verify(c) PROVE ClaimantsStarted'
  BY <1>10 DEF Verify, ReadOwner, RecordAt
<1>11. ASSUME NEW c \in Claims, Rename(c) PROVE ClaimantsStarted'
  BY <1>11, RenameCases
<1>12. ASSUME NEW c \in Claims, Reread(c) PROVE ClaimantsStarted'
  BY <1>12 DEF Reread, ReadOwner, RecordAt
<1>13. ASSUME NEW c \in Claims, Check(c) PROVE ClaimantsStarted'
  BY <1>13, CheckCases
<1>14. ASSUME NEW c \in Claims, Recheck(c) PROVE ClaimantsStarted'
  BY <1>14 DEF Recheck, ReadOwner, RecordAt
<1>15. ASSUME NEW c \in Claims, Stat(c) PROVE ClaimantsStarted'
  BY <1>15 DEF Stat
<1>16. ASSUME NEW c \in Claims, Open(c) PROVE ClaimantsStarted'
  BY <1>16 DEF Open, ForgetDirs
<1>17. ASSUME NEW c \in Claims, Write(c) PROVE ClaimantsStarted'
  BY <1>17 DEF Write, ForgetDirs
<1>18. ASSUME NEW c \in Claims, ReleaseRead(c) PROVE ClaimantsStarted'
  BY <1>18 DEF ReleaseRead, ReadOwner, RecordAt
<1>19. ASSUME NEW c \in Claims, ReleaseRename(c) PROVE ClaimantsStarted'
  BY <1>19, ReleaseMovesOwn DEF ReleaseRename, CanMoveAside, MoveAside
<1>20. ASSUME NEW c \in Claims, ReleaseRemove(c) PROVE ClaimantsStarted'
  BY <1>20 DEF ReleaseRemove
<1>21. ASSUME NEW c \in Claims, RollbackRead(c) PROVE ClaimantsStarted'
  BY <1>21 DEF RollbackRead, RecordAt, EndRollback, ForgetDirs
<1>22. ASSUME NEW c \in Claims, RollbackStat(c) PROVE ClaimantsStarted'
  BY <1>22 DEF RollbackStat, EndRollback, ForgetDirs
<1>23. ASSUME NEW c \in Claims, RollbackRename(c) PROVE ClaimantsStarted'
  BY <1>23, RollbackOwns DEF RollbackRename, CanMoveAside, MoveAside, EndRollback, ForgetDirs
<1>24. ASSUME NEW c \in Claims, RollbackRemove(c) PROVE ClaimantsStarted'
  BY <1>24 DEF RollbackRemove, EndRollback, ForgetDirs
<1>25. QED
  BY <1>1, <1>2, <1>3, <1>4, <1>5, <1>6, <1>7, <1>8, <1>9, <1>10, <1>11, <1>12, <1>13, <1>14, <1>15, <1>16, <1>17, <1>18, <1>19, <1>20, <1>21, <1>22, <1>23, <1>24 DEF Next, ClaimStep

\* heldTokens covers a claim from its lstat to the end of its attempt.
LEMMA TokenHeldStep ==
    ASSUME Mode, LockInv, Next, TypeOK'
    PROVE  TokenHeld'
<1> USE ClaimAssumption, NoDirAssumption DEF Alive, Goto, TypeOK, Dir, Records, PCs, fsVars, procVars, claimVars, LockInv, TokenHeld, ClaimantsStarted
<1>1. ASSUME NEW p \in Procs, Start(p) PROVE TokenHeld'
  BY <1>1 DEF Start
<1>2. ASSUME NEW p \in Procs, Die(p) PROVE TokenHeld'
  BY <1>2 DEF Die
<1>3. CASE RemoveOrphan
  BY <1>3 DEF RemoveOrphan
<1>4. ASSUME NEW c \in Claims, Begin(c) PROVE TokenHeld'
  BY <1>4 DEF Begin
<1>5. ASSUME NEW c \in Claims, Expire(c) PROVE TokenHeld'
  BY <1>5 DEF Expire
<1>6. ASSUME NEW c \in Claims, Release(c) PROVE TokenHeld'
  BY <1>6 DEF Release
<1>7. ASSUME NEW c \in Claims, Mkdir(c) PROVE TokenHeld'
  BY <1>7 DEF Mkdir
<1>8. ASSUME NEW c \in Claims, Read(c) PROVE TokenHeld'
  BY <1>8 DEF Read, ReadOwner, RecordAt
<1>9. ASSUME NEW c \in Claims, Judge(c) PROVE TokenHeld'
  BY <1>9 DEF Judge, DemonstrablyGone
<1>10. ASSUME NEW c \in Claims, Verify(c) PROVE TokenHeld'
  BY <1>10 DEF Verify, ReadOwner, RecordAt
<1>11. ASSUME NEW c \in Claims, Rename(c) PROVE TokenHeld'
  BY <1>11, RenameCases
<1>12. ASSUME NEW c \in Claims, Reread(c) PROVE TokenHeld'
  BY <1>12 DEF Reread, ReadOwner, RecordAt
<1>13. ASSUME NEW c \in Claims, Check(c) PROVE TokenHeld'
  BY <1>13, CheckCases
<1>14. ASSUME NEW c \in Claims, Recheck(c) PROVE TokenHeld'
  BY <1>14 DEF Recheck, ReadOwner, RecordAt
<1>15. ASSUME NEW c \in Claims, Stat(c) PROVE TokenHeld'
  BY <1>15 DEF Stat
<1>16. ASSUME NEW c \in Claims, Open(c) PROVE TokenHeld'
  BY <1>16 DEF Open, ForgetDirs
<1>17. ASSUME NEW c \in Claims, Write(c) PROVE TokenHeld'
  BY <1>17 DEF Write, ForgetDirs
<1>18. ASSUME NEW c \in Claims, ReleaseRead(c) PROVE TokenHeld'
  BY <1>18 DEF ReleaseRead, ReadOwner, RecordAt
<1>19. ASSUME NEW c \in Claims, ReleaseRename(c) PROVE TokenHeld'
  BY <1>19, ReleaseMovesOwn DEF ReleaseRename, CanMoveAside, MoveAside
<1>20. ASSUME NEW c \in Claims, ReleaseRemove(c) PROVE TokenHeld'
  BY <1>20 DEF ReleaseRemove
<1>21. ASSUME NEW c \in Claims, RollbackRead(c) PROVE TokenHeld'
  BY <1>21 DEF RollbackRead, RecordAt, EndRollback, ForgetDirs
<1>22. ASSUME NEW c \in Claims, RollbackStat(c) PROVE TokenHeld'
  BY <1>22 DEF RollbackStat, EndRollback, ForgetDirs
<1>23. ASSUME NEW c \in Claims, RollbackRename(c) PROVE TokenHeld'
  <2>1. /\ UNCHANGED <<status, after>> /\ Alive(c) /\ pc[c] = "rbrename"
        /\ lock # NoDir /\ lock.rec \in {NoRecord, Garbled, c} /\ after[c] \in {"mkdir", "failed"}
    BY <1>23, RollbackRenameCases
  <2>2. CASE /\ lock' = NoDir /\ remnant' = [remnant EXCEPT ![c] = lock]
             /\ pc' = [pc EXCEPT ![c] = "rbrm"] /\ UNCHANGED held
    BY <2>1, <2>2
  <2>3. CASE /\ UNCHANGED <<lock, remnant>>
             /\ pc' = [pc EXCEPT ![c] = after[c]] /\ held' = held \ {c}
    BY <2>1, <2>3
  <2>4. QED
    BY <1>23, <2>2, <2>3, RollbackRenameCases
<1>24. ASSUME NEW c \in Claims, RollbackRemove(c) PROVE TokenHeld'
  BY <1>24 DEF RollbackRemove, EndRollback, ForgetDirs
<1>25. QED
  BY <1>1, <1>2, <1>3, <1>4, <1>5, <1>6, <1>7, <1>8, <1>9, <1>10, <1>11, <1>12, <1>13, <1>14, <1>15, <1>16, <1>17, <1>18, <1>19, <1>20, <1>21, <1>22, <1>23, <1>24 DEF Next, ClaimStep

\* Owners that were read once wrote a record; those judged gone are over.
LEMMA SnapshotsSoundStep ==
    ASSUME Mode, LockInv, Next, TypeOK'
    PROVE  SnapshotsSound'
<1> USE ClaimAssumption, NoDirAssumption DEF Alive, Goto, TypeOK, Dir, Records, PCs, fsVars, procVars, claimVars, LockInv, SnapshotsSound, MayHaveWritten, Over, RecordSound
<1>1. ASSUME NEW p \in Procs, Start(p) PROVE SnapshotsSound'
  BY <1>1 DEF Start
<1>2. ASSUME NEW p \in Procs, Die(p) PROVE SnapshotsSound'
  BY <1>2 DEF Die
<1>3. CASE RemoveOrphan
  BY <1>3 DEF RemoveOrphan
<1>4. ASSUME NEW c \in Claims, Begin(c) PROVE SnapshotsSound'
  BY <1>4 DEF Begin
<1>5. ASSUME NEW c \in Claims, Expire(c) PROVE SnapshotsSound'
  BY <1>5 DEF Expire
<1>6. ASSUME NEW c \in Claims, Release(c) PROVE SnapshotsSound'
  BY <1>6 DEF Release
<1>7. ASSUME NEW c \in Claims, Mkdir(c) PROVE SnapshotsSound'
  BY <1>7 DEF Mkdir
<1>8. ASSUME NEW c \in Claims, Read(c) PROVE SnapshotsSound'
  BY <1>8 DEF Read, ReadOwner, RecordAt
<1>9. ASSUME NEW c \in Claims, Judge(c) PROVE SnapshotsSound'
  <2>1. PICK gone \in DemonstrablyGone(Proc[c], snap[c]) :
            pc' = [pc EXCEPT ![c] = IF gone THEN "verify" ELSE "reread"]
    BY <1>9 DEF Judge
  <2>2. Alive(c) /\ pc[c] = "judge" /\ UNCHANGED <<snap, after, status>>
    BY <1>9 DEF Judge
  <2>3. snap[c] \in Claims /\ MayHaveWritten(snap[c])
    BY <2>2
  <2>4. CASE gone
    <3>1. Over(snap[c])
      BY <2>2, <2>3, <2>4, GoneIsOver
    <3>2. QED
      BY <2>1, <2>2, <2>3, <2>4, <3>1
  <2>5. CASE ~gone
    BY <2>1, <2>2, <2>3, <2>5
  <2>6. QED
    BY <2>4, <2>5
<1>10. ASSUME NEW c \in Claims, Verify(c) PROVE SnapshotsSound'
  BY <1>10 DEF Verify, ReadOwner, RecordAt
<1>11. ASSUME NEW c \in Claims, Rename(c) PROVE SnapshotsSound'
  <2>1. /\ UNCHANGED <<remnant, nextDir, status, held, made, claimed, fd, after>>
        /\ Alive(c) /\ pc[c] = "rename" /\ snap[c] \in Claims
    BY <1>11, RenameCases
  <2>2. CASE UNCHANGED <<lock, quarantine, snap>> /\ pc' = [pc EXCEPT ![c] = "reread"]
    BY <2>1, <2>2
  <2>3. CASE /\ lock # NoDir /\ lock.rec = snap[c]
             /\ status[Proc[snap[c]]] = "dead" \/ pc[snap[c]] = "failed"
             /\ quarantine' = [quarantine EXCEPT ![snap[c]] = lock]
             /\ lock' = NoDir
             /\ snap' = [snap EXCEPT ![c] = NoRecord]
             /\ pc' = [pc EXCEPT ![c] = "mkdir"]
    BY <2>1, <2>3
  <2>4. QED
    BY <1>11, <2>2, <2>3, RenameCases
<1>12. ASSUME NEW c \in Claims, Reread(c) PROVE SnapshotsSound'
  BY <1>12 DEF Reread, ReadOwner, RecordAt
<1>13. ASSUME NEW c \in Claims, Check(c) PROVE SnapshotsSound'
  <2>1. /\ UNCHANGED <<lock, quarantine, remnant, nextDir, status, made, claimed, fd, after>>
        /\ Alive(c) /\ pc[c] = "check"
    BY <1>13, CheckCases
  <2>2. CASE pc' = [pc EXCEPT ![c] = "mkdir"] /\ snap' = [snap EXCEPT ![c] = NoRecord]
    BY <2>1, <2>2
  <2>3. CASE pc' = [pc EXCEPT ![c] = "failed"] /\ snap' = [snap EXCEPT ![c] = NoRecord]
    BY <2>1, <2>3
  <2>4. CASE /\ pc' = [pc EXCEPT ![c] = "recheck"] /\ snap' = snap
             /\ snap[c] \in Claims /\ Over(snap[c])
    BY <2>1, <2>4
  <2>5. QED
    BY <1>13, <2>2, <2>3, <2>4, CheckCases
<1>14. ASSUME NEW c \in Claims, Recheck(c) PROVE SnapshotsSound'
  BY <1>14 DEF Recheck, ReadOwner, RecordAt
<1>15. ASSUME NEW c \in Claims, Stat(c) PROVE SnapshotsSound'
  BY <1>15 DEF Stat
<1>16. ASSUME NEW c \in Claims, Open(c) PROVE SnapshotsSound'
  <2>1. UNCHANGED <<snap, status>> /\ pc[c] = "open"
    BY <1>16 DEF Open
  <2>2. CASE pc' = [pc EXCEPT ![c] = "write"] \/ pc' = [pc EXCEPT ![c] = "mkdir"]
    <3>1. after' = after
      BY <1>16, <2>2 DEF Open
    <3>2. \A o \in Claims : MayHaveWritten(o)' <=> MayHaveWritten(o)
      BY <2>1, <2>2, <3>1
    <3>3. \A o \in Claims : Over(o) => Over(o)'
      BY <2>1, <2>2
    <3>4. QED
      BY <2>1, <2>2, <3>2, <3>3
  <2>3. CASE pc' = [pc EXCEPT ![c] = "rbread"]
    <3>1. \A d \in Claims : d # c => after'[d] = after[d]
      BY <1>16, <2>3 DEF Open
    <3>2. QED
      BY <2>1, <2>3, <3>1
  <2>4. QED
    BY <1>16, <2>2, <2>3 DEF Open
<1>17. ASSUME NEW c \in Claims, Write(c) PROVE SnapshotsSound'
  BY <1>17 DEF Write, ForgetDirs
<1>18. ASSUME NEW c \in Claims, ReleaseRead(c) PROVE SnapshotsSound'
  BY <1>18 DEF ReleaseRead, ReadOwner, RecordAt
<1>19. ASSUME NEW c \in Claims, ReleaseRename(c) PROVE SnapshotsSound'
  BY <1>19, ReleaseMovesOwn DEF ReleaseRename, CanMoveAside, MoveAside
<1>20. ASSUME NEW c \in Claims, ReleaseRemove(c) PROVE SnapshotsSound'
  BY <1>20 DEF ReleaseRemove
<1>21. ASSUME NEW c \in Claims, RollbackRead(c) PROVE SnapshotsSound'
  <2>1. UNCHANGED <<snap, after, status>> /\ pc[c] = "rbread"
    BY <1>21 DEF RollbackRead
  <2>2. \E l \in {"rbrename", "rbstat", after[c]} : pc' = [pc EXCEPT ![c] = l]
    BY <1>21 DEF RollbackRead, EndRollback
  <2>3. QED
    BY <2>1, <2>2
<1>22. ASSUME NEW c \in Claims, RollbackStat(c) PROVE SnapshotsSound'
  BY <1>22 DEF RollbackStat, EndRollback, ForgetDirs
<1>23. ASSUME NEW c \in Claims, RollbackRename(c) PROVE SnapshotsSound'
  BY <1>23, RollbackOwns DEF RollbackRename, CanMoveAside, MoveAside, EndRollback, ForgetDirs
<1>24. ASSUME NEW c \in Claims, RollbackRemove(c) PROVE SnapshotsSound'
  BY <1>24 DEF RollbackRemove, EndRollback, ForgetDirs
<1>25. QED
  BY <1>1, <1>2, <1>3, <1>4, <1>5, <1>6, <1>7, <1>8, <1>9, <1>10, <1>11, <1>12, <1>13, <1>14, <1>15, <1>16, <1>17, <1>18, <1>19, <1>20, <1>21, <1>22, <1>23, <1>24 DEF Next, ClaimStep

\* The record at lockPath belongs to a claim that wrote it and has not moved it.
LEMMA RecordSoundStep ==
    ASSUME Mode, LockInv, Next, TypeOK'
    PROVE  RecordSound'
<1> USE ClaimAssumption, NoDirAssumption DEF Alive, Goto, TypeOK, Dir, Records, PCs, fsVars, procVars, claimVars, LockInv, RecordSound, MayHaveWritten, WriterAlone, ClaimantsStarted
<1>1. ASSUME NEW p \in Procs, Start(p) PROVE RecordSound'
  BY <1>1 DEF Start
<1>2. ASSUME NEW p \in Procs, Die(p) PROVE RecordSound'
  BY <1>2 DEF Die
<1>3. CASE RemoveOrphan
  BY <1>3 DEF RemoveOrphan
<1>4. ASSUME NEW c \in Claims, Begin(c) PROVE RecordSound'
  BY <1>4 DEF Begin
<1>5. ASSUME NEW c \in Claims, Expire(c) PROVE RecordSound'
  BY <1>5 DEF Expire
<1>6. ASSUME NEW c \in Claims, Release(c) PROVE RecordSound'
  BY <1>6 DEF Release
<1>7. ASSUME NEW c \in Claims, Mkdir(c) PROVE RecordSound'
  BY <1>7 DEF Mkdir
<1>8. ASSUME NEW c \in Claims, Read(c) PROVE RecordSound'
  BY <1>8 DEF Read, ReadOwner, RecordAt
<1>9. ASSUME NEW c \in Claims, Judge(c) PROVE RecordSound'
  BY <1>9 DEF Judge, DemonstrablyGone
<1>10. ASSUME NEW c \in Claims, Verify(c) PROVE RecordSound'
  BY <1>10 DEF Verify, ReadOwner, RecordAt
<1>11. ASSUME NEW c \in Claims, Rename(c) PROVE RecordSound'
  BY <1>11, RenameCases
<1>12. ASSUME NEW c \in Claims, Reread(c) PROVE RecordSound'
  BY <1>12 DEF Reread, ReadOwner, RecordAt
<1>13. ASSUME NEW c \in Claims, Check(c) PROVE RecordSound'
  <2>1. UNCHANGED <<lock, remnant, status, after>> /\ pc[c] = "check"
    BY <1>13, CheckCases
  <2>2. PICK l \in {"mkdir", "failed", "recheck"} : pc' = [pc EXCEPT ![c] = l]
    BY <1>13, CheckCases
  <2>3. QED
    BY <2>1, <2>2
<1>14. ASSUME NEW c \in Claims, Recheck(c) PROVE RecordSound'
  BY <1>14 DEF Recheck, ReadOwner, RecordAt
<1>15. ASSUME NEW c \in Claims, Stat(c) PROVE RecordSound'
  BY <1>15 DEF Stat
<1>16. ASSUME NEW c \in Claims, Open(c) PROVE RecordSound'
  BY <1>16 DEF Open, ForgetDirs
<1>17. ASSUME NEW c \in Claims, Write(c) PROVE RecordSound'
  BY <1>17 DEF Write, ForgetDirs
<1>18. ASSUME NEW c \in Claims, ReleaseRead(c) PROVE RecordSound'
  BY <1>18 DEF ReleaseRead, ReadOwner, RecordAt
<1>19. ASSUME NEW c \in Claims, ReleaseRename(c) PROVE RecordSound'
  BY <1>19, ReleaseMovesOwn DEF ReleaseRename, CanMoveAside, MoveAside
<1>20. ASSUME NEW c \in Claims, ReleaseRemove(c) PROVE RecordSound'
  BY <1>20 DEF ReleaseRemove
<1>21. ASSUME NEW c \in Claims, RollbackRead(c) PROVE RecordSound'
  BY <1>21 DEF RollbackRead, RecordAt, EndRollback, ForgetDirs
<1>22. ASSUME NEW c \in Claims, RollbackStat(c) PROVE RecordSound'
  BY <1>22 DEF RollbackStat, EndRollback, ForgetDirs
<1>23. ASSUME NEW c \in Claims, RollbackRename(c) PROVE RecordSound'
  BY <1>23, RollbackOwns DEF RollbackRename, CanMoveAside, MoveAside, EndRollback, ForgetDirs
<1>24. ASSUME NEW c \in Claims, RollbackRemove(c) PROVE RecordSound'
  BY <1>24 DEF RollbackRemove, EndRollback, ForgetDirs
<1>25. QED
  BY <1>1, <1>2, <1>3, <1>4, <1>5, <1>6, <1>7, <1>8, <1>9, <1>10, <1>11, <1>12, <1>13, <1>14, <1>15, <1>16, <1>17, <1>18, <1>19, <1>20, <1>21, <1>22, <1>23, <1>24 DEF Next, ClaimStep

\* A delayed reclaimer finds the dead record it verified, or its quarantine.
LEMMA ReclaimFencedStep ==
    ASSUME Mode, LockInv, Next, TypeOK'
    PROVE  ReclaimFenced'
<1> USE ClaimAssumption, NoDirAssumption DEF Alive, Goto, TypeOK, Dir, Records, PCs, fsVars, procVars, claimVars, LockInv, ReclaimFenced, OwnRecordAt, SnapshotsSound, Over, ClaimantsStarted
<1>1. ASSUME NEW p \in Procs, Start(p) PROVE ReclaimFenced'
  BY <1>1 DEF Start
<1>2. ASSUME NEW p \in Procs, Die(p) PROVE ReclaimFenced'
  BY <1>2 DEF Die
<1>3. CASE RemoveOrphan
  BY <1>3 DEF RemoveOrphan
<1>4. ASSUME NEW c \in Claims, Begin(c) PROVE ReclaimFenced'
  BY <1>4 DEF Begin
<1>5. ASSUME NEW c \in Claims, Expire(c) PROVE ReclaimFenced'
  BY <1>5 DEF Expire
<1>6. ASSUME NEW c \in Claims, Release(c) PROVE ReclaimFenced'
  BY <1>6 DEF Release
<1>7. ASSUME NEW c \in Claims, Mkdir(c) PROVE ReclaimFenced'
  BY <1>7 DEF Mkdir
<1>8. ASSUME NEW c \in Claims, Read(c) PROVE ReclaimFenced'
  BY <1>8 DEF Read, ReadOwner, RecordAt
<1>9. ASSUME NEW c \in Claims, Judge(c) PROVE ReclaimFenced'
  BY <1>9 DEF Judge, DemonstrablyGone
<1>10. ASSUME NEW c \in Claims, Verify(c) PROVE ReclaimFenced'
  BY <1>10 DEF Verify, ReadOwner, RecordAt
<1>11. ASSUME NEW c \in Claims, Rename(c) PROVE ReclaimFenced'
  BY <1>11, RenameCases
<1>12. ASSUME NEW c \in Claims, Reread(c) PROVE ReclaimFenced'
  BY <1>12 DEF Reread, ReadOwner, RecordAt
<1>13. ASSUME NEW c \in Claims, Check(c) PROVE ReclaimFenced'
  BY <1>13, CheckCases
<1>14. ASSUME NEW c \in Claims, Recheck(c) PROVE ReclaimFenced'
  BY <1>14 DEF Recheck, ReadOwner, RecordAt
<1>15. ASSUME NEW c \in Claims, Stat(c) PROVE ReclaimFenced'
  BY <1>15 DEF Stat
<1>16. ASSUME NEW c \in Claims, Open(c) PROVE ReclaimFenced'
  BY <1>16 DEF Open, ForgetDirs
<1>17. ASSUME NEW c \in Claims, Write(c) PROVE ReclaimFenced'
  <2>1. /\ Alive(c) /\ pc[c] = "write"
        /\ UNCHANGED <<quarantine, nextDir, status, snap>>
    BY <1>17 DEF Write
  <2>2. /\ lock # NoDir /\ lock.rec = Garbled
        /\ \A d \in Claims : Alive(d) /\ pc[d] = "write" => d = c
    BY <2>1 DEF WriterAlone
  <2>3. lock' = lock \/ lock' = [lock EXCEPT !.rec = c]
    BY <1>17 DEF Write
  <2>4. /\ pc' = [pc EXCEPT ![c] = "held"] \/ pc' = [pc EXCEPT ![c] = "rbread"]
        /\ claimed' = claimed \/ claimed' = [claimed EXCEPT ![c] = 0]
        /\ fd' = fd \/ fd' = [fd EXCEPT ![c] = 0]
    BY <1>17 DEF Write, ForgetDirs
  <2>5. QED
    BY <2>1, <2>2, <2>3, <2>4
<1>18. ASSUME NEW c \in Claims, ReleaseRead(c) PROVE ReclaimFenced'
  BY <1>18 DEF ReleaseRead, ReadOwner, RecordAt
<1>19. ASSUME NEW c \in Claims, ReleaseRename(c) PROVE ReclaimFenced'
  BY <1>19, ReleaseMovesOwn DEF ReleaseRename, CanMoveAside, MoveAside
<1>20. ASSUME NEW c \in Claims, ReleaseRemove(c) PROVE ReclaimFenced'
  BY <1>20 DEF ReleaseRemove
<1>21. ASSUME NEW c \in Claims, RollbackRead(c) PROVE ReclaimFenced'
  BY <1>21 DEF RollbackRead, RecordAt, EndRollback, ForgetDirs
<1>22. ASSUME NEW c \in Claims, RollbackStat(c) PROVE ReclaimFenced'
  BY <1>22 DEF RollbackStat, EndRollback, ForgetDirs
<1>23. ASSUME NEW c \in Claims, RollbackRename(c) PROVE ReclaimFenced'
  <2>1. /\ Alive(c) /\ pc[c] = "rbrename"
        /\ UNCHANGED <<quarantine, status, snap, after>>
    BY <1>23 DEF RollbackRename
  <2>2. /\ MaxRemovals = 0 /\ lock # NoDir /\ lock.dir = made[c]
        /\ lock.rec \in {NoRecord, Garbled, c}
    BY <1>23, RollbackOwns
  <2>3. \A d \in Claims : Alive(d) /\ pc[d] \in Claiming => d = c
    BY <2>1, <2>2 DEF ClaimOwnsDir, Claiming
  <2>4. \/ lock' = NoDir /\ pc' = [pc EXCEPT ![c] = "rbrm"] /\ UNCHANGED <<made, fd>>
        \/ /\ lock' = lock
           /\ pc' = [pc EXCEPT ![c] = after[c]]
           /\ made' = [made EXCEPT ![c] = 0] /\ fd' = [fd EXCEPT ![c] = 0]
    BY <1>23 DEF RollbackRename, MoveAside, EndRollback, ForgetDirs
  <2>5. after[c] \in {"mkdir", "failed"}
    OBVIOUS
  <2>6. QED
    BY <2>1, <2>2, <2>3, <2>4, <2>5 DEF Claiming
<1>24. ASSUME NEW c \in Claims, RollbackRemove(c) PROVE ReclaimFenced'
  BY <1>24 DEF RollbackRemove, EndRollback, ForgetDirs
<1>25. QED
  BY <1>1, <1>2, <1>3, <1>4, <1>5, <1>6, <1>7, <1>8, <1>9, <1>10, <1>11, <1>12, <1>13, <1>14, <1>15, <1>16, <1>17, <1>18, <1>19, <1>20, <1>21, <1>22, <1>23, <1>24 DEF Next, ClaimStep

\* Quarantines hold the records of claims that are over.
LEMMA QuarantineSoundStep ==
    ASSUME Mode, LockInv, Next, TypeOK'
    PROVE  QuarantineSound'
<1> USE ClaimAssumption, NoDirAssumption DEF Alive, Goto, TypeOK, Dir, Records, PCs, fsVars, procVars, claimVars, LockInv, QuarantineSound, ClaimantsStarted
<1>1. ASSUME NEW p \in Procs, Start(p) PROVE QuarantineSound'
  BY <1>1 DEF Start
<1>2. ASSUME NEW p \in Procs, Die(p) PROVE QuarantineSound'
  BY <1>2 DEF Die
<1>3. CASE RemoveOrphan
  BY <1>3 DEF RemoveOrphan
<1>4. ASSUME NEW c \in Claims, Begin(c) PROVE QuarantineSound'
  BY <1>4 DEF Begin
<1>5. ASSUME NEW c \in Claims, Expire(c) PROVE QuarantineSound'
  BY <1>5 DEF Expire
<1>6. ASSUME NEW c \in Claims, Release(c) PROVE QuarantineSound'
  BY <1>6 DEF Release
<1>7. ASSUME NEW c \in Claims, Mkdir(c) PROVE QuarantineSound'
  BY <1>7 DEF Mkdir
<1>8. ASSUME NEW c \in Claims, Read(c) PROVE QuarantineSound'
  BY <1>8 DEF Read, ReadOwner, RecordAt
<1>9. ASSUME NEW c \in Claims, Judge(c) PROVE QuarantineSound'
  BY <1>9 DEF Judge, DemonstrablyGone
<1>10. ASSUME NEW c \in Claims, Verify(c) PROVE QuarantineSound'
  BY <1>10 DEF Verify, ReadOwner, RecordAt
<1>11. ASSUME NEW c \in Claims, Rename(c) PROVE QuarantineSound'
  BY <1>11, RenameCases
<1>12. ASSUME NEW c \in Claims, Reread(c) PROVE QuarantineSound'
  BY <1>12 DEF Reread, ReadOwner, RecordAt
<1>13. ASSUME NEW c \in Claims, Check(c) PROVE QuarantineSound'
  BY <1>13, CheckCases
<1>14. ASSUME NEW c \in Claims, Recheck(c) PROVE QuarantineSound'
  BY <1>14 DEF Recheck, ReadOwner, RecordAt
<1>15. ASSUME NEW c \in Claims, Stat(c) PROVE QuarantineSound'
  BY <1>15 DEF Stat
<1>16. ASSUME NEW c \in Claims, Open(c) PROVE QuarantineSound'
  BY <1>16 DEF Open, ForgetDirs
<1>17. ASSUME NEW c \in Claims, Write(c) PROVE QuarantineSound'
  BY <1>17 DEF Write, ForgetDirs
<1>18. ASSUME NEW c \in Claims, ReleaseRead(c) PROVE QuarantineSound'
  BY <1>18 DEF ReleaseRead, ReadOwner, RecordAt
<1>19. ASSUME NEW c \in Claims, ReleaseRename(c) PROVE QuarantineSound'
  BY <1>19, ReleaseMovesOwn DEF ReleaseRename, CanMoveAside, MoveAside
<1>20. ASSUME NEW c \in Claims, ReleaseRemove(c) PROVE QuarantineSound'
  BY <1>20 DEF ReleaseRemove
<1>21. ASSUME NEW c \in Claims, RollbackRead(c) PROVE QuarantineSound'
  BY <1>21 DEF RollbackRead, RecordAt, EndRollback, ForgetDirs
<1>22. ASSUME NEW c \in Claims, RollbackStat(c) PROVE QuarantineSound'
  BY <1>22 DEF RollbackStat, EndRollback, ForgetDirs
<1>23. ASSUME NEW c \in Claims, RollbackRename(c) PROVE QuarantineSound'
  BY <1>23, RollbackOwns DEF RollbackRename, CanMoveAside, MoveAside, EndRollback, ForgetDirs
<1>24. ASSUME NEW c \in Claims, RollbackRemove(c) PROVE QuarantineSound'
  BY <1>24 DEF RollbackRemove, EndRollback, ForgetDirs
<1>25. QED
  BY <1>1, <1>2, <1>3, <1>4, <1>5, <1>6, <1>7, <1>8, <1>9, <1>10, <1>11, <1>12, <1>13, <1>14, <1>15, <1>16, <1>17, <1>18, <1>19, <1>20, <1>21, <1>22, <1>23, <1>24 DEF Next, ClaimStep

\* Every mkdir makes a directory no claim has seen before.
LEMMA DirsFreshStep ==
    ASSUME Mode, LockInv, Next, TypeOK'
    PROVE  DirsFresh'
<1> USE ClaimAssumption, NoDirAssumption DEF Alive, Goto, TypeOK, Dir, Records, PCs, fsVars, procVars, claimVars, LockInv, DirsFresh
<1>1. ASSUME NEW p \in Procs, Start(p) PROVE DirsFresh'
  BY <1>1 DEF Start
<1>2. ASSUME NEW p \in Procs, Die(p) PROVE DirsFresh'
  BY <1>2 DEF Die
<1>3. CASE RemoveOrphan
  BY <1>3 DEF RemoveOrphan
<1>4. ASSUME NEW c \in Claims, Begin(c) PROVE DirsFresh'
  BY <1>4 DEF Begin
<1>5. ASSUME NEW c \in Claims, Expire(c) PROVE DirsFresh'
  BY <1>5 DEF Expire
<1>6. ASSUME NEW c \in Claims, Release(c) PROVE DirsFresh'
  BY <1>6 DEF Release
<1>7. ASSUME NEW c \in Claims, Mkdir(c) PROVE DirsFresh'
  BY <1>7 DEF Mkdir
<1>8. ASSUME NEW c \in Claims, Read(c) PROVE DirsFresh'
  BY <1>8 DEF Read, ReadOwner, RecordAt
<1>9. ASSUME NEW c \in Claims, Judge(c) PROVE DirsFresh'
  BY <1>9 DEF Judge, DemonstrablyGone
<1>10. ASSUME NEW c \in Claims, Verify(c) PROVE DirsFresh'
  BY <1>10 DEF Verify, ReadOwner, RecordAt
<1>11. ASSUME NEW c \in Claims, Rename(c) PROVE DirsFresh'
  BY <1>11, RenameCases
<1>12. ASSUME NEW c \in Claims, Reread(c) PROVE DirsFresh'
  BY <1>12 DEF Reread, ReadOwner, RecordAt
<1>13. ASSUME NEW c \in Claims, Check(c) PROVE DirsFresh'
  BY <1>13, CheckCases
<1>14. ASSUME NEW c \in Claims, Recheck(c) PROVE DirsFresh'
  BY <1>14 DEF Recheck, ReadOwner, RecordAt
<1>15. ASSUME NEW c \in Claims, Stat(c) PROVE DirsFresh'
  BY <1>15 DEF Stat
<1>16. ASSUME NEW c \in Claims, Open(c) PROVE DirsFresh'
  BY <1>16 DEF Open, ForgetDirs
<1>17. ASSUME NEW c \in Claims, Write(c) PROVE DirsFresh'
  <2>1. /\ Alive(c) /\ pc[c] = "write"
        /\ UNCHANGED <<quarantine, nextDir, status, snap>>
    BY <1>17 DEF Write
  <2>2. /\ lock # NoDir /\ lock.rec = Garbled
        /\ \A d \in Claims : Alive(d) /\ pc[d] = "write" => d = c
    BY <2>1 DEF WriterAlone
  <2>3. lock' = lock \/ lock' = [lock EXCEPT !.rec = c]
    BY <1>17 DEF Write
  <2>4. /\ pc' = [pc EXCEPT ![c] = "held"] \/ pc' = [pc EXCEPT ![c] = "rbread"]
        /\ claimed' = claimed \/ claimed' = [claimed EXCEPT ![c] = 0]
        /\ fd' = fd \/ fd' = [fd EXCEPT ![c] = 0]
    BY <1>17 DEF Write, ForgetDirs
  <2>5. QED
    BY <2>1, <2>2, <2>3, <2>4
<1>18. ASSUME NEW c \in Claims, ReleaseRead(c) PROVE DirsFresh'
  BY <1>18 DEF ReleaseRead, ReadOwner, RecordAt
<1>19. ASSUME NEW c \in Claims, ReleaseRename(c) PROVE DirsFresh'
  BY <1>19, ReleaseMovesOwn DEF ReleaseRename, CanMoveAside, MoveAside
<1>20. ASSUME NEW c \in Claims, ReleaseRemove(c) PROVE DirsFresh'
  BY <1>20 DEF ReleaseRemove
<1>21. ASSUME NEW c \in Claims, RollbackRead(c) PROVE DirsFresh'
  BY <1>21 DEF RollbackRead, RecordAt, EndRollback, ForgetDirs
<1>22. ASSUME NEW c \in Claims, RollbackStat(c) PROVE DirsFresh'
  BY <1>22 DEF RollbackStat, EndRollback, ForgetDirs
<1>23. ASSUME NEW c \in Claims, RollbackRename(c) PROVE DirsFresh'
  BY <1>23, RollbackOwns DEF RollbackRename, CanMoveAside, MoveAside, EndRollback, ForgetDirs
<1>24. ASSUME NEW c \in Claims, RollbackRemove(c) PROVE DirsFresh'
  BY <1>24 DEF RollbackRemove, EndRollback, ForgetDirs
<1>25. QED
  BY <1>1, <1>2, <1>3, <1>4, <1>5, <1>6, <1>7, <1>8, <1>9, <1>10, <1>11, <1>12, <1>13, <1>14, <1>15, <1>16, <1>17, <1>18, <1>19, <1>20, <1>21, <1>22, <1>23, <1>24 DEF Next, ClaimStep

\* An opened owner.json stays in place until its only opener writes it.
LEMMA WriterAloneStep ==
    ASSUME Mode, LockInv, Next, TypeOK'
    PROVE  WriterAlone'
<1> USE ClaimAssumption, NoDirAssumption DEF Alive, Goto, TypeOK, Dir, Records, PCs, fsVars, procVars, claimVars, LockInv, WriterAlone, ClaimantsStarted
<1>1. ASSUME NEW p \in Procs, Start(p) PROVE WriterAlone'
  BY <1>1 DEF Start
<1>2. ASSUME NEW p \in Procs, Die(p) PROVE WriterAlone'
  BY <1>2 DEF Die
<1>3. CASE RemoveOrphan
  BY <1>3 DEF RemoveOrphan
<1>4. ASSUME NEW c \in Claims, Begin(c) PROVE WriterAlone'
  BY <1>4 DEF Begin
<1>5. ASSUME NEW c \in Claims, Expire(c) PROVE WriterAlone'
  BY <1>5 DEF Expire
<1>6. ASSUME NEW c \in Claims, Release(c) PROVE WriterAlone'
  BY <1>6 DEF Release
<1>7. ASSUME NEW c \in Claims, Mkdir(c) PROVE WriterAlone'
  BY <1>7 DEF Mkdir
<1>8. ASSUME NEW c \in Claims, Read(c) PROVE WriterAlone'
  BY <1>8 DEF Read, ReadOwner, RecordAt
<1>9. ASSUME NEW c \in Claims, Judge(c) PROVE WriterAlone'
  BY <1>9 DEF Judge, DemonstrablyGone
<1>10. ASSUME NEW c \in Claims, Verify(c) PROVE WriterAlone'
  BY <1>10 DEF Verify, ReadOwner, RecordAt
<1>11. ASSUME NEW c \in Claims, Rename(c) PROVE WriterAlone'
  BY <1>11, RenameCases
<1>12. ASSUME NEW c \in Claims, Reread(c) PROVE WriterAlone'
  BY <1>12 DEF Reread, ReadOwner, RecordAt
<1>13. ASSUME NEW c \in Claims, Check(c) PROVE WriterAlone'
  <2>1. /\ UNCHANGED <<lock, quarantine, remnant, nextDir, status, made, claimed, fd, after>>
        /\ Alive(c) /\ pc[c] = "check"
    BY <1>13, CheckCases
  <2>2. CASE pc' = [pc EXCEPT ![c] = "mkdir"] /\ snap' = [snap EXCEPT ![c] = NoRecord]
    BY <2>1, <2>2
  <2>3. CASE pc' = [pc EXCEPT ![c] = "failed"] /\ snap' = [snap EXCEPT ![c] = NoRecord]
    BY <2>1, <2>3
  <2>4. CASE /\ pc' = [pc EXCEPT ![c] = "recheck"] /\ snap' = snap
             /\ snap[c] \in Claims /\ Over(snap[c])
    BY <2>1, <2>4
  <2>5. QED
    BY <1>13, <2>2, <2>3, <2>4, CheckCases
<1>14. ASSUME NEW c \in Claims, Recheck(c) PROVE WriterAlone'
  BY <1>14 DEF Recheck, ReadOwner, RecordAt
<1>15. ASSUME NEW c \in Claims, Stat(c) PROVE WriterAlone'
  BY <1>15 DEF Stat
<1>16. ASSUME NEW c \in Claims, Open(c) PROVE WriterAlone'
  BY <1>16 DEF Open, ForgetDirs
<1>17. ASSUME NEW c \in Claims, Write(c) PROVE WriterAlone'
  <2>1. /\ Alive(c) /\ pc[c] = "write"
        /\ UNCHANGED <<quarantine, nextDir, status, snap>>
    BY <1>17 DEF Write
  <2>2. /\ lock # NoDir /\ lock.rec = Garbled
        /\ \A d \in Claims : Alive(d) /\ pc[d] = "write" => d = c
    BY <2>1 DEF WriterAlone
  <2>3. lock' = lock \/ lock' = [lock EXCEPT !.rec = c]
    BY <1>17 DEF Write
  <2>4. /\ pc' = [pc EXCEPT ![c] = "held"] \/ pc' = [pc EXCEPT ![c] = "rbread"]
        /\ claimed' = claimed \/ claimed' = [claimed EXCEPT ![c] = 0]
        /\ fd' = fd \/ fd' = [fd EXCEPT ![c] = 0]
    BY <1>17 DEF Write, ForgetDirs
  <2>5. \A d \in Claims : Alive(d)' => pc'[d] # "write"
    BY <2>1, <2>2, <2>4
  <2>6. QED
    BY <2>5
<1>18. ASSUME NEW c \in Claims, ReleaseRead(c) PROVE WriterAlone'
  BY <1>18 DEF ReleaseRead, ReadOwner, RecordAt
<1>19. ASSUME NEW c \in Claims, ReleaseRename(c) PROVE WriterAlone'
  <2>1. lock # NoDir /\ lock.rec = c /\ c # Garbled
    BY <1>19, ReleaseMovesOwn
  <2>2. \A d \in Claims : ~(Alive(d) /\ pc[d] = "write")
    BY <2>1
  <2>3. status' = status /\ (pc' = [pc EXCEPT ![c] = "relrm"] \/ pc' = [pc EXCEPT ![c] = "abandoned"])
    BY <1>19 DEF ReleaseRename
  <2>4. QED
    BY <2>2, <2>3
<1>20. ASSUME NEW c \in Claims, ReleaseRemove(c) PROVE WriterAlone'
  BY <1>20 DEF ReleaseRemove
<1>21. ASSUME NEW c \in Claims, RollbackRead(c) PROVE WriterAlone'
  BY <1>21 DEF RollbackRead, RecordAt, EndRollback, ForgetDirs
<1>22. ASSUME NEW c \in Claims, RollbackStat(c) PROVE WriterAlone'
  BY <1>22 DEF RollbackStat, EndRollback, ForgetDirs
<1>23. ASSUME NEW c \in Claims, RollbackRename(c) PROVE WriterAlone'
  <2>1. /\ Alive(c) /\ pc[c] = "rbrename"
        /\ UNCHANGED <<quarantine, status, snap, after>>
    BY <1>23 DEF RollbackRename
  <2>2. /\ MaxRemovals = 0 /\ lock # NoDir /\ lock.dir = made[c]
        /\ lock.rec \in {NoRecord, Garbled, c}
    BY <1>23, RollbackOwns
  <2>3. \A d \in Claims : Alive(d) /\ pc[d] \in Claiming => d = c
    BY <2>1, <2>2 DEF ClaimOwnsDir, Claiming
  <2>4. \/ lock' = NoDir /\ pc' = [pc EXCEPT ![c] = "rbrm"] /\ UNCHANGED <<made, fd>>
        \/ /\ lock' = lock
           /\ pc' = [pc EXCEPT ![c] = after[c]]
           /\ made' = [made EXCEPT ![c] = 0] /\ fd' = [fd EXCEPT ![c] = 0]
    BY <1>23 DEF RollbackRename, MoveAside, EndRollback, ForgetDirs
  <2>5. after[c] \in {"mkdir", "failed"}
    OBVIOUS
  <2>6. QED
    BY <2>1, <2>2, <2>3, <2>4, <2>5 DEF Claiming
<1>24. ASSUME NEW c \in Claims, RollbackRemove(c) PROVE WriterAlone'
  BY <1>24 DEF RollbackRemove, EndRollback, ForgetDirs
<1>25. QED
  BY <1>1, <1>2, <1>3, <1>4, <1>5, <1>6, <1>7, <1>8, <1>9, <1>10, <1>11, <1>12, <1>13, <1>14, <1>15, <1>16, <1>17, <1>18, <1>19, <1>20, <1>21, <1>22, <1>23, <1>24 DEF Next, ClaimStep

\* Without orphan removal, a claim in progress owns the directory it made.
LEMMA ClaimOwnsDirStep ==
    ASSUME Mode, LockInv, Next, TypeOK'
    PROVE  ClaimOwnsDir'
<1> USE ClaimAssumption, NoDirAssumption DEF Alive, Goto, TypeOK, Dir, Records, PCs, fsVars, procVars, claimVars, LockInv, ClaimOwnsDir, Claiming, ClaimantsStarted
<1>1. ASSUME NEW p \in Procs, Start(p) PROVE ClaimOwnsDir'
  BY <1>1 DEF Start
<1>2. ASSUME NEW p \in Procs, Die(p) PROVE ClaimOwnsDir'
  BY <1>2 DEF Die
<1>3. CASE RemoveOrphan
  BY <1>3 DEF RemoveOrphan
<1>4. ASSUME NEW c \in Claims, Begin(c) PROVE ClaimOwnsDir'
  BY <1>4 DEF Begin
<1>5. ASSUME NEW c \in Claims, Expire(c) PROVE ClaimOwnsDir'
  BY <1>5 DEF Expire
<1>6. ASSUME NEW c \in Claims, Release(c) PROVE ClaimOwnsDir'
  BY <1>6 DEF Release
<1>7. ASSUME NEW c \in Claims, Mkdir(c) PROVE ClaimOwnsDir'
  BY <1>7 DEF Mkdir
<1>8. ASSUME NEW c \in Claims, Read(c) PROVE ClaimOwnsDir'
  BY <1>8 DEF Read, ReadOwner, RecordAt
<1>9. ASSUME NEW c \in Claims, Judge(c) PROVE ClaimOwnsDir'
  BY <1>9 DEF Judge, DemonstrablyGone
<1>10. ASSUME NEW c \in Claims, Verify(c) PROVE ClaimOwnsDir'
  BY <1>10 DEF Verify, ReadOwner, RecordAt
<1>11. ASSUME NEW c \in Claims, Rename(c) PROVE ClaimOwnsDir'
  <2>1. /\ UNCHANGED <<remnant, nextDir, status, held, made, claimed, fd, after>>
        /\ Alive(c) /\ pc[c] = "rename" /\ snap[c] \in Claims
    BY <1>11, RenameCases
  <2>2. CASE UNCHANGED <<lock, quarantine, snap>> /\ pc' = [pc EXCEPT ![c] = "reread"]
    BY <2>1, <2>2
  <2>3. CASE /\ lock # NoDir /\ lock.rec = snap[c]
             /\ status[Proc[snap[c]]] = "dead" \/ pc[snap[c]] = "failed"
             /\ quarantine' = [quarantine EXCEPT ![snap[c]] = lock]
             /\ lock' = NoDir
             /\ snap' = [snap EXCEPT ![c] = NoRecord]
             /\ pc' = [pc EXCEPT ![c] = "mkdir"]
    BY <2>1, <2>3
  <2>4. QED
    BY <1>11, <2>2, <2>3, RenameCases
<1>12. ASSUME NEW c \in Claims, Reread(c) PROVE ClaimOwnsDir'
  BY <1>12 DEF Reread, ReadOwner, RecordAt
<1>13. ASSUME NEW c \in Claims, Check(c) PROVE ClaimOwnsDir'
  <2>1. /\ UNCHANGED <<lock, quarantine, remnant, nextDir, status, made, claimed, fd, after>>
        /\ Alive(c) /\ pc[c] = "check"
    BY <1>13, CheckCases
  <2>2. CASE pc' = [pc EXCEPT ![c] = "mkdir"] /\ snap' = [snap EXCEPT ![c] = NoRecord]
    BY <2>1, <2>2
  <2>3. CASE pc' = [pc EXCEPT ![c] = "failed"] /\ snap' = [snap EXCEPT ![c] = NoRecord]
    BY <2>1, <2>3
  <2>4. CASE /\ pc' = [pc EXCEPT ![c] = "recheck"] /\ snap' = snap
             /\ snap[c] \in Claims /\ Over(snap[c])
    BY <2>1, <2>4
  <2>5. QED
    BY <1>13, <2>2, <2>3, <2>4, CheckCases
<1>14. ASSUME NEW c \in Claims, Recheck(c) PROVE ClaimOwnsDir'
  BY <1>14 DEF Recheck, ReadOwner, RecordAt
<1>15. ASSUME NEW c \in Claims, Stat(c) PROVE ClaimOwnsDir'
  BY <1>15 DEF Stat
<1>16. ASSUME NEW c \in Claims, Open(c) PROVE ClaimOwnsDir'
  BY <1>16 DEF Open, ForgetDirs
<1>17. ASSUME NEW c \in Claims, Write(c) PROVE ClaimOwnsDir'
  <2>1. Alive(c) /\ pc[c] = "write" /\ status' = status
    BY <1>17 DEF Write
  <2>2. lock' = lock \/ (lock # NoDir /\ lock' = [lock EXCEPT !.rec = c])
    BY <1>17 DEF Write
  <2>3. CASE MaxRemovals = 0
    <3>1. lock # NoDir /\ lock.dir = made[c] /\ lock.rec \in {NoRecord, Garbled, c}
      BY <2>1, <2>3
    <3>2. lock' # NoDir /\ lock'.dir = lock.dir /\ lock'.rec \in {NoRecord, Garbled, c}
      BY <2>2, <3>1
    <3>3. \A d \in Claims : Alive(d) /\ pc[d] \in Claiming => d = c
      BY <2>1, <2>3
    <3>4. CASE pc' = [pc EXCEPT ![c] = "held"]
      BY <2>1, <3>3, <3>4
    <3>5. CASE pc' = [pc EXCEPT ![c] = "rbread"] /\ made' = made
      BY <2>1, <3>1, <3>2, <3>3, <3>5
    <3>6. QED
      BY <1>17, <3>4, <3>5 DEF Write
  <2>4. QED
    BY <2>3
<1>18. ASSUME NEW c \in Claims, ReleaseRead(c) PROVE ClaimOwnsDir'
  BY <1>18 DEF ReleaseRead, ReadOwner, RecordAt
<1>19. ASSUME NEW c \in Claims, ReleaseRename(c) PROVE ClaimOwnsDir'
  <2>1. lock # NoDir /\ lock.rec = c /\ Alive(c) /\ pc[c] = "relrename"
    BY <1>19, ReleaseMovesOwn DEF ReleaseRename
  <2>2. MaxRemovals = 0 => \A d \in Claims : d # c => ~(Alive(d) /\ pc[d] \in Claiming)
    BY <2>1
  <2>3. \/ pc' = [pc EXCEPT ![c] = "relrm"] \/ pc' = [pc EXCEPT ![c] = "abandoned"]
    BY <1>19 DEF ReleaseRename
  <2>4. QED
    BY <1>19, <2>1, <2>2, <2>3 DEF ReleaseRename
<1>20. ASSUME NEW c \in Claims, ReleaseRemove(c) PROVE ClaimOwnsDir'
  BY <1>20 DEF ReleaseRemove
<1>21. ASSUME NEW c \in Claims, RollbackRead(c) PROVE ClaimOwnsDir'
  BY <1>21 DEF RollbackRead, RecordAt, EndRollback, ForgetDirs
<1>22. ASSUME NEW c \in Claims, RollbackStat(c) PROVE ClaimOwnsDir'
  BY <1>22 DEF RollbackStat, EndRollback, ForgetDirs
<1>23. ASSUME NEW c \in Claims, RollbackRename(c) PROVE ClaimOwnsDir'
  <2>1. /\ Alive(c) /\ pc[c] = "rbrename"
        /\ UNCHANGED <<quarantine, status, snap, after>>
    BY <1>23 DEF RollbackRename
  <2>2. /\ MaxRemovals = 0 /\ lock # NoDir /\ lock.dir = made[c]
        /\ lock.rec \in {NoRecord, Garbled, c}
    BY <1>23, RollbackOwns
  <2>3. \A d \in Claims : Alive(d) /\ pc[d] \in Claiming => d = c
    BY <2>1, <2>2 DEF ClaimOwnsDir, Claiming
  <2>4. \/ lock' = NoDir /\ pc' = [pc EXCEPT ![c] = "rbrm"] /\ UNCHANGED <<made, fd>>
        \/ /\ lock' = lock
           /\ pc' = [pc EXCEPT ![c] = after[c]]
           /\ made' = [made EXCEPT ![c] = 0] /\ fd' = [fd EXCEPT ![c] = 0]
    BY <1>23 DEF RollbackRename, MoveAside, EndRollback, ForgetDirs
  <2>5. after[c] \in {"mkdir", "failed"}
    OBVIOUS
  <2>6. \A d \in Claims : Alive(d)' => pc'[d] \notin Claiming
    BY <2>1, <2>3, <2>4, <2>5
  <2>7. QED
    BY <2>6
<1>24. ASSUME NEW c \in Claims, RollbackRemove(c) PROVE ClaimOwnsDir'
  BY <1>24 DEF RollbackRemove, EndRollback, ForgetDirs
<1>25. QED
  BY <1>1, <1>2, <1>3, <1>4, <1>5, <1>6, <1>7, <1>8, <1>9, <1>10, <1>11, <1>12, <1>13, <1>14, <1>15, <1>16, <1>17, <1>18, <1>19, <1>20, <1>21, <1>22, <1>23, <1>24 DEF Next, ClaimStep

\* Without write faults, a rollback moves nothing.
LEMMA LostClaimMovesNothingStep ==
    ASSUME Mode, LockInv, Next, TypeOK'
    PROVE  LostClaimMovesNothing'
<1> USE ClaimAssumption, NoDirAssumption DEF Alive, Goto, TypeOK, Dir, Records, PCs, fsVars, procVars, claimVars, LockInv, LostClaimMovesNothing, ClaimantsStarted, DirsFresh, RecordSound, MayHaveWritten
<1>1. ASSUME NEW p \in Procs, Start(p) PROVE LostClaimMovesNothing'
  BY <1>1 DEF Start
<1>2. ASSUME NEW p \in Procs, Die(p) PROVE LostClaimMovesNothing'
  BY <1>2 DEF Die
<1>3. CASE RemoveOrphan
  BY <1>3 DEF RemoveOrphan
<1>4. ASSUME NEW c \in Claims, Begin(c) PROVE LostClaimMovesNothing'
  BY <1>4 DEF Begin
<1>5. ASSUME NEW c \in Claims, Expire(c) PROVE LostClaimMovesNothing'
  BY <1>5 DEF Expire
<1>6. ASSUME NEW c \in Claims, Release(c) PROVE LostClaimMovesNothing'
  BY <1>6 DEF Release
<1>7. ASSUME NEW c \in Claims, Mkdir(c) PROVE LostClaimMovesNothing'
  BY <1>7 DEF Mkdir
<1>8. ASSUME NEW c \in Claims, Read(c) PROVE LostClaimMovesNothing'
  BY <1>8 DEF Read, ReadOwner, RecordAt
<1>9. ASSUME NEW c \in Claims, Judge(c) PROVE LostClaimMovesNothing'
  BY <1>9 DEF Judge, DemonstrablyGone
<1>10. ASSUME NEW c \in Claims, Verify(c) PROVE LostClaimMovesNothing'
  BY <1>10 DEF Verify, ReadOwner, RecordAt
<1>11. ASSUME NEW c \in Claims, Rename(c) PROVE LostClaimMovesNothing'
  BY <1>11, RenameCases
<1>12. ASSUME NEW c \in Claims, Reread(c) PROVE LostClaimMovesNothing'
  BY <1>12 DEF Reread, ReadOwner, RecordAt
<1>13. ASSUME NEW c \in Claims, Check(c) PROVE LostClaimMovesNothing'
  BY <1>13, CheckCases
<1>14. ASSUME NEW c \in Claims, Recheck(c) PROVE LostClaimMovesNothing'
  BY <1>14 DEF Recheck, ReadOwner, RecordAt
<1>15. ASSUME NEW c \in Claims, Stat(c) PROVE LostClaimMovesNothing'
  BY <1>15 DEF Stat
<1>16. ASSUME NEW c \in Claims, Open(c) PROVE LostClaimMovesNothing'
  BY <1>16 DEF Open, ForgetDirs
<1>17. ASSUME NEW c \in Claims, Write(c) PROVE LostClaimMovesNothing'
  BY <1>17 DEF Write, ForgetDirs
<1>18. ASSUME NEW c \in Claims, ReleaseRead(c) PROVE LostClaimMovesNothing'
  BY <1>18 DEF ReleaseRead, ReadOwner, RecordAt
<1>19. ASSUME NEW c \in Claims, ReleaseRename(c) PROVE LostClaimMovesNothing'
  BY <1>19, ReleaseMovesOwn DEF ReleaseRename, CanMoveAside, MoveAside
<1>20. ASSUME NEW c \in Claims, ReleaseRemove(c) PROVE LostClaimMovesNothing'
  BY <1>20 DEF ReleaseRemove
<1>21. ASSUME NEW c \in Claims, RollbackRead(c) PROVE LostClaimMovesNothing'
  BY <1>21 DEF RollbackRead, RecordAt, EndRollback, ForgetDirs
<1>22. ASSUME NEW c \in Claims, RollbackStat(c) PROVE LostClaimMovesNothing'
  BY <1>22 DEF RollbackStat, EndRollback, ForgetDirs
<1>23. ASSUME NEW c \in Claims, RollbackRename(c) PROVE LostClaimMovesNothing'
  BY <1>23, RollbackOwns DEF RollbackRename, CanMoveAside, MoveAside, EndRollback, ForgetDirs
<1>24. ASSUME NEW c \in Claims, RollbackRemove(c) PROVE LostClaimMovesNothing'
  BY <1>24 DEF RollbackRemove, EndRollback, ForgetDirs
<1>25. QED
  BY <1>1, <1>2, <1>3, <1>4, <1>5, <1>6, <1>7, <1>8, <1>9, <1>10, <1>11, <1>12, <1>13, <1>14, <1>15, <1>16, <1>17, <1>18, <1>19, <1>20, <1>21, <1>22, <1>23, <1>24 DEF Next, ClaimStep

\* A released directory is at its remnant path until it is removed.
LEMMA RemnantSoundStep ==
    ASSUME Mode, LockInv, Next, TypeOK'
    PROVE  RemnantSound'
<1> USE ClaimAssumption, NoDirAssumption DEF Alive, Goto, TypeOK, Dir, Records, PCs, fsVars, procVars, claimVars, LockInv, RemnantSound, OwnRecordAt, HolderKeepsRecord, ClaimantsStarted
<1>1. ASSUME NEW p \in Procs, Start(p) PROVE RemnantSound'
  BY <1>1 DEF Start
<1>2. ASSUME NEW p \in Procs, Die(p) PROVE RemnantSound'
  BY <1>2 DEF Die
<1>3. CASE RemoveOrphan
  BY <1>3 DEF RemoveOrphan
<1>4. ASSUME NEW c \in Claims, Begin(c) PROVE RemnantSound'
  BY <1>4 DEF Begin
<1>5. ASSUME NEW c \in Claims, Expire(c) PROVE RemnantSound'
  BY <1>5 DEF Expire
<1>6. ASSUME NEW c \in Claims, Release(c) PROVE RemnantSound'
  BY <1>6 DEF Release
<1>7. ASSUME NEW c \in Claims, Mkdir(c) PROVE RemnantSound'
  BY <1>7 DEF Mkdir
<1>8. ASSUME NEW c \in Claims, Read(c) PROVE RemnantSound'
  BY <1>8 DEF Read, ReadOwner, RecordAt
<1>9. ASSUME NEW c \in Claims, Judge(c) PROVE RemnantSound'
  BY <1>9 DEF Judge, DemonstrablyGone
<1>10. ASSUME NEW c \in Claims, Verify(c) PROVE RemnantSound'
  BY <1>10 DEF Verify, ReadOwner, RecordAt
<1>11. ASSUME NEW c \in Claims, Rename(c) PROVE RemnantSound'
  BY <1>11, RenameCases
<1>12. ASSUME NEW c \in Claims, Reread(c) PROVE RemnantSound'
  BY <1>12 DEF Reread, ReadOwner, RecordAt
<1>13. ASSUME NEW c \in Claims, Check(c) PROVE RemnantSound'
  BY <1>13, CheckCases
<1>14. ASSUME NEW c \in Claims, Recheck(c) PROVE RemnantSound'
  BY <1>14 DEF Recheck, ReadOwner, RecordAt
<1>15. ASSUME NEW c \in Claims, Stat(c) PROVE RemnantSound'
  BY <1>15 DEF Stat
<1>16. ASSUME NEW c \in Claims, Open(c) PROVE RemnantSound'
  BY <1>16 DEF Open, ForgetDirs
<1>17. ASSUME NEW c \in Claims, Write(c) PROVE RemnantSound'
  BY <1>17 DEF Write, ForgetDirs
<1>18. ASSUME NEW c \in Claims, ReleaseRead(c) PROVE RemnantSound'
  BY <1>18 DEF ReleaseRead, ReadOwner, RecordAt
<1>19. ASSUME NEW c \in Claims, ReleaseRename(c) PROVE RemnantSound'
  BY <1>19, ReleaseMovesOwn DEF ReleaseRename, CanMoveAside, MoveAside
<1>20. ASSUME NEW c \in Claims, ReleaseRemove(c) PROVE RemnantSound'
  BY <1>20 DEF ReleaseRemove
<1>21. ASSUME NEW c \in Claims, RollbackRead(c) PROVE RemnantSound'
  BY <1>21 DEF RollbackRead, RecordAt, EndRollback, ForgetDirs
<1>22. ASSUME NEW c \in Claims, RollbackStat(c) PROVE RemnantSound'
  BY <1>22 DEF RollbackStat, EndRollback, ForgetDirs
<1>23. ASSUME NEW c \in Claims, RollbackRename(c) PROVE RemnantSound'
  <2>1. /\ UNCHANGED <<status, after>> /\ Alive(c) /\ pc[c] = "rbrename"
        /\ lock # NoDir /\ lock.rec \in {NoRecord, Garbled, c} /\ after[c] \in {"mkdir", "failed"}
    BY <1>23, RollbackRenameCases
  <2>2. CASE /\ lock' = NoDir /\ remnant' = [remnant EXCEPT ![c] = lock]
             /\ pc' = [pc EXCEPT ![c] = "rbrm"] /\ UNCHANGED held
    BY <2>1, <2>2
  <2>3. CASE /\ UNCHANGED <<lock, remnant>>
             /\ pc' = [pc EXCEPT ![c] = after[c]] /\ held' = held \ {c}
    BY <2>1, <2>3
  <2>4. QED
    BY <1>23, <2>2, <2>3, RollbackRenameCases
<1>24. ASSUME NEW c \in Claims, RollbackRemove(c) PROVE RemnantSound'
  BY <1>24 DEF RollbackRemove, EndRollback, ForgetDirs
<1>25. QED
  BY <1>1, <1>2, <1>3, <1>4, <1>5, <1>6, <1>7, <1>8, <1>9, <1>10, <1>11, <1>12, <1>13, <1>14, <1>15, <1>16, <1>17, <1>18, <1>19, <1>20, <1>21, <1>22, <1>23, <1>24 DEF Next, ClaimStep

\* A holder's record stays at lockPath until the holder moves it.
LEMMA HolderKeepsRecordStep ==
    ASSUME Mode, LockInv, Next, TypeOK'
    PROVE  HolderKeepsRecord'
<1> USE ClaimAssumption, NoDirAssumption DEF Alive, Goto, TypeOK, Dir, Records, PCs, fsVars, procVars, claimVars, LockInv, HolderKeepsRecord, OwnRecordAt, WriterAlone, ClaimantsStarted, RemnantSound
<1>1. ASSUME NEW p \in Procs, Start(p) PROVE HolderKeepsRecord'
  BY <1>1 DEF Start
<1>2. ASSUME NEW p \in Procs, Die(p) PROVE HolderKeepsRecord'
  BY <1>2 DEF Die
<1>3. CASE RemoveOrphan
  BY <1>3 DEF RemoveOrphan
<1>4. ASSUME NEW c \in Claims, Begin(c) PROVE HolderKeepsRecord'
  BY <1>4 DEF Begin
<1>5. ASSUME NEW c \in Claims, Expire(c) PROVE HolderKeepsRecord'
  BY <1>5 DEF Expire
<1>6. ASSUME NEW c \in Claims, Release(c) PROVE HolderKeepsRecord'
  BY <1>6 DEF Release
<1>7. ASSUME NEW c \in Claims, Mkdir(c) PROVE HolderKeepsRecord'
  BY <1>7 DEF Mkdir
<1>8. ASSUME NEW c \in Claims, Read(c) PROVE HolderKeepsRecord'
  BY <1>8 DEF Read, ReadOwner, RecordAt
<1>9. ASSUME NEW c \in Claims, Judge(c) PROVE HolderKeepsRecord'
  BY <1>9 DEF Judge, DemonstrablyGone
<1>10. ASSUME NEW c \in Claims, Verify(c) PROVE HolderKeepsRecord'
  BY <1>10 DEF Verify, ReadOwner, RecordAt
<1>11. ASSUME NEW c \in Claims, Rename(c) PROVE HolderKeepsRecord'
  BY <1>11, RenameCases
<1>12. ASSUME NEW c \in Claims, Reread(c) PROVE HolderKeepsRecord'
  BY <1>12 DEF Reread, ReadOwner, RecordAt
<1>13. ASSUME NEW c \in Claims, Check(c) PROVE HolderKeepsRecord'
  <2>1. UNCHANGED <<lock, remnant, status, after>> /\ pc[c] = "check"
    BY <1>13, CheckCases
  <2>2. PICK l \in {"mkdir", "failed", "recheck"} : pc' = [pc EXCEPT ![c] = l]
    BY <1>13, CheckCases
  <2>3. QED
    BY <2>1, <2>2
<1>14. ASSUME NEW c \in Claims, Recheck(c) PROVE HolderKeepsRecord'
  BY <1>14 DEF Recheck, ReadOwner, RecordAt
<1>15. ASSUME NEW c \in Claims, Stat(c) PROVE HolderKeepsRecord'
  BY <1>15 DEF Stat
<1>16. ASSUME NEW c \in Claims, Open(c) PROVE HolderKeepsRecord'
  BY <1>16 DEF Open, ForgetDirs
<1>17. ASSUME NEW c \in Claims, Write(c) PROVE HolderKeepsRecord'
  BY <1>17 DEF Write, ForgetDirs
<1>18. ASSUME NEW c \in Claims, ReleaseRead(c) PROVE HolderKeepsRecord'
  BY <1>18 DEF ReleaseRead, ReadOwner, RecordAt
<1>19. ASSUME NEW c \in Claims, ReleaseRename(c) PROVE HolderKeepsRecord'
  BY <1>19, ReleaseMovesOwn DEF ReleaseRename, CanMoveAside, MoveAside
<1>20. ASSUME NEW c \in Claims, ReleaseRemove(c) PROVE HolderKeepsRecord'
  BY <1>20 DEF ReleaseRemove
<1>21. ASSUME NEW c \in Claims, RollbackRead(c) PROVE HolderKeepsRecord'
  BY <1>21 DEF RollbackRead, RecordAt, EndRollback, ForgetDirs
<1>22. ASSUME NEW c \in Claims, RollbackStat(c) PROVE HolderKeepsRecord'
  BY <1>22 DEF RollbackStat, EndRollback, ForgetDirs
<1>23. ASSUME NEW c \in Claims, RollbackRename(c) PROVE HolderKeepsRecord'
  <2>1. /\ UNCHANGED <<status, after>> /\ Alive(c) /\ pc[c] = "rbrename"
        /\ lock # NoDir /\ lock.rec \in {NoRecord, Garbled, c} /\ after[c] \in {"mkdir", "failed"}
    BY <1>23, RollbackRenameCases
  <2>2. CASE /\ lock' = NoDir /\ remnant' = [remnant EXCEPT ![c] = lock]
             /\ pc' = [pc EXCEPT ![c] = "rbrm"] /\ UNCHANGED held
    BY <2>1, <2>2
  <2>3. CASE /\ UNCHANGED <<lock, remnant>>
             /\ pc' = [pc EXCEPT ![c] = after[c]] /\ held' = held \ {c}
    BY <2>1, <2>3
  <2>4. QED
    BY <1>23, <2>2, <2>3, RollbackRenameCases
<1>24. ASSUME NEW c \in Claims, RollbackRemove(c) PROVE HolderKeepsRecord'
  BY <1>24 DEF RollbackRemove, EndRollback, ForgetDirs
<1>25. QED
  BY <1>1, <1>2, <1>3, <1>4, <1>5, <1>6, <1>7, <1>8, <1>9, <1>10, <1>11, <1>12, <1>13, <1>14, <1>15, <1>16, <1>17, <1>18, <1>19, <1>20, <1>21, <1>22, <1>23, <1>24 DEF Next, ClaimStep

\* LockInv is inductive, unless orphan removal and write faults come together.
LEMMA InvariantStep == Mode /\ LockInv /\ [Next]_vars => LockInv'
<1> SUFFICES ASSUME Mode, LockInv, [Next]_vars PROVE LockInv'
  OBVIOUS
<1>1. CASE Next
  <2>1. TypeOK'
    BY TypeStep DEF LockInv
  <2>2. QED
    BY <1>1, <2>1, PidsUniqueStep, ClaimantsStartedStep, TokenHeldStep, SnapshotsSoundStep, RecordSoundStep, ReclaimFencedStep, QuarantineSoundStep, DirsFreshStep, WriterAloneStep, ClaimOwnsDirStep, LostClaimMovesNothingStep, RemnantSoundStep, HolderKeepsRecordStep DEF LockInv
<1>2. CASE UNCHANGED vars
  BY <1>2 DEF vars, fsVars, procVars, claimVars, LockInv, TypeOK, Alive, PidsUnique, ProcessExists, ClaimantsStarted, TokenHeld, SnapshotsSound, MayHaveWritten, Over, RecordSound, WriterAlone, ReclaimFenced, OwnRecordAt, QuarantineSound, DirsFresh, ClaimOwnsDir, Claiming, LostClaimMovesNothing, RemnantSound, HolderKeepsRecord
<1>3. QED
  BY <1>1, <1>2

\* No claim has begun: every part of LockInv holds of an empty lock path.
LEMMA InvariantInit == Init => LockInv
<1> SUFFICES ASSUME Init PROVE LockInv
  OBVIOUS
<1>1. TypeOK
  BY ClaimAssumption DEF Init, TypeOK, Dir, Records, PCs
<1>2. \A c \in Claims : ~Alive(c)
  BY ClaimAssumption DEF Init, Alive
<1>3. PidsUnique /\ QuarantineSound /\ DirsFresh /\ RecordSound
  BY DEF Init, PidsUnique, QuarantineSound, DirsFresh, RecordSound
<1>4. ClaimantsStarted /\ SnapshotsSound
  BY ClaimAssumption DEF Init, ClaimantsStarted, SnapshotsSound
<1>5. QED
  BY <1>1, <1>2, <1>3, <1>4 DEF LockInv, TokenHeld, ReclaimFenced, WriterAlone, ClaimOwnsDir, LostClaimMovesNothing, RemnantSound, HolderKeepsRecord


\* The invariant holds for every number of claims, processes and crashes.
THEOREM Invariance ==
    ASSUME Mode
    PROVE  Spec => []LockInv
<1>1. LockInv /\ [Next]_vars => LockInv'
  BY InvariantStep
<1>2. QED
  BY <1>1, InvariantInit, PTL DEF Spec

\* The lock excludes: no two live processes hold it at once, whatever crashes,
\* pid reuse, clock steps, unreadable records and delayed reclaimers do.
THEOREM Exclusion ==
    ASSUME Mode
    PROVE  Spec => []MutualExclusion
<1>1. LockInv => MutualExclusion
  BY DEF LockInv, HolderKeepsRecord, OwnRecordAt, MutualExclusion
<1>2. QED
  BY <1>1, Invariance, PTL

\* Only the record of a claim that is over is ever put into quarantine.
THEOREM QuarantineIsOfTheDead ==
    ASSUME Mode
    PROVE  Spec => []EvidenceOfTheDead
<1>1. LockInv => EvidenceOfTheDead
  BY DEF LockInv, QuarantineSound, EvidenceOfTheDead, Ended, Alive
<1>2. QED
  BY <1>1, Invariance, PTL

\* A holder's record stays where releases and contenders look for it.
THEOREM RecordStays ==
    ASSUME Mode
    PROVE  Spec => []HolderKeepsRecord
<1>1. LockInv => HolderKeepsRecord
  BY DEF LockInv
<1>2. QED
  BY <1>1, Invariance, PTL

\* A step of a claim moves the program counter of that claim.
LEMMA StepMovesOne ==
    ASSUME TypeOK, NEW d \in Claims, ClaimStep(d)
    PROVE  \E l \in PCs : pc' = [pc EXCEPT ![d] = l]
<1> USE DEF TypeOK, PCs, Goto
<1>1. CASE Mkdir(d) \/ Read(d) \/ Judge(d) \/ Verify(d) \/ Rename(d) \/ Reread(d)
  BY <1>1 DEF Mkdir, Read, Judge, Verify, Rename, Reread
<1>2. CASE Check(d) \/ Recheck(d) \/ Stat(d) \/ Open(d) \/ Write(d)
  BY <1>2 DEF Check, Recheck, Stat, Open, Write
<1>3. CASE ReleaseRead(d) \/ ReleaseRename(d) \/ ReleaseRemove(d)
  BY <1>3 DEF ReleaseRead, ReleaseRename, ReleaseRemove
<1>4. CASE RollbackRead(d) \/ RollbackStat(d) \/ RollbackRename(d) \/ RollbackRemove(d)
  <2>1. \/ \E l \in {"rbrename", "rbstat", "rbrm"} : pc' = [pc EXCEPT ![d] = l]
        \/ pc' = [pc EXCEPT ![d] = after[d]]
    BY <1>4 DEF RollbackRead, RollbackStat, RollbackRename, RollbackRemove, EndRollback
  <2>2. after[d] \in PCs
    OBVIOUS
  <2>3. QED
    BY <2>1, <2>2
<1>5. QED
  BY <1>1, <1>2, <1>3, <1>4 DEF ClaimStep

\* A rollback renames the directory its own mkdir made, never another.
THEOREM RollbackIsOwn ==
    ASSUME Mode
    PROVE  Spec => RollbackMovesOwn
<1> DEFINE Own(c) == pc[c] = "rbrename" /\ pc'[c] = "rbrm" => lock.dir = made[c]
<1>1. ASSUME LockInv, [Next]_vars, NEW c \in Claims, pc[c] = "rbrename", pc'[c] = "rbrm"
      PROVE  lock.dir = made[c]
  <2> USE <1>1, ClaimAssumption DEF LockInv, TypeOK, Goto
  <2>1. RollbackRename(c)
    <3>1. ASSUME NEW d \in Claims, d # c, ClaimStep(d) PROVE FALSE
      <4>1. \E l \in PCs : pc' = [pc EXCEPT ![d] = l]
        BY <3>1, StepMovesOne
      <4>2. QED
        BY <3>1, <4>1
    <3>2. ASSUME NEW d \in Claims, Begin(d) \/ Expire(d) \/ Release(d) PROVE FALSE
      BY <3>2 DEF Begin, Expire, Release
    <3>3. ASSUME NEW p \in Procs, Start(p) \/ Die(p) PROVE FALSE
      BY <3>3 DEF Start, Die, claimVars
    <3>4. CASE RemoveOrphan \/ UNCHANGED vars
      BY <3>4 DEF RemoveOrphan, claimVars, vars
    <3>5. CASE ClaimStep(c)
      BY <3>5 DEF ClaimStep, Mkdir, Read, Judge, Verify, Rename, Reread, Check, Recheck, Stat, Open, Write, ReleaseRead, ReleaseRename, ReleaseRemove, RollbackRead, RollbackStat, RollbackRemove
    <3>6. QED
      BY <3>1, <3>2, <3>3, <3>4, <3>5 DEF Next
  <2>2. QED
    BY <2>1, RollbackOwns
<1>2. LockInv /\ [Next]_vars => [\A c \in Claims : Own(c)]_vars
  BY <1>1
<1>3. QED
  BY <1>2, Invariance, PTL DEF Spec, RollbackMovesOwn

\* What a timeout error says of the owner it names is true: a stale owner is
\* over and still on record, any other is on record or was not provably gone.
THEOREM DiagnosisIsHonest ==
    ASSUME Mode
    PROVE  Spec => HonestDiagnosis
<1> DEFINE Honest(c) ==
             pc[c] \in {"check", "recheck"} /\ pc'[c] = "failed" /\ diag'[c].owner \in Claims =>
                 LET o == diag'[c].owner
                 IN  IF diag'[c].stale THEN Ended(o) /\ RecordAt = o
                     ELSE RecordAt = o \/ FALSE \in DemonstrablyGone(Proc[c], o)
<1>1. ASSUME LockInv, [Next]_vars, NEW c \in Claims,
             pc[c] \in {"check", "recheck"}, pc'[c] = "failed", diag'[c].owner \in Claims
      PROVE  LET o == diag'[c].owner
             IN  IF diag'[c].stale THEN Ended(o) /\ RecordAt = o
                 ELSE RecordAt = o \/ FALSE \in DemonstrablyGone(Proc[c], o)
  <2>types. TypeOK /\ SnapshotsSound /\ RecordSound
    BY <1>1 DEF LockInv
  <2>1. Check(c) \/ Recheck(c)
    <3> USE <1>1, <2>types, ClaimAssumption DEF TypeOK, Goto
    <3>1. ASSUME NEW d \in Claims, d # c, ClaimStep(d) PROVE FALSE
      <4>1. \E l \in PCs : pc' = [pc EXCEPT ![d] = l]
        BY <3>1, StepMovesOne
      <4>2. QED
        BY <3>1, <4>1
    <3>2. ASSUME NEW d \in Claims, Begin(d) \/ Expire(d) \/ Release(d) PROVE FALSE
      BY <3>2 DEF Begin, Expire, Release
    <3>3. ASSUME NEW p \in Procs, Start(p) \/ Die(p) PROVE FALSE
      BY <3>3 DEF Start, Die, claimVars
    <3>4. CASE RemoveOrphan \/ UNCHANGED vars
      BY <3>4 DEF RemoveOrphan, claimVars, vars
    <3>5. CASE ClaimStep(c)
      BY <3>5 DEF ClaimStep, Mkdir, Read, Judge, Verify, Rename, Reread, Stat, Open, Write, ReleaseRead, ReleaseRename, ReleaseRemove, RollbackRead, RollbackStat, RollbackRename, RollbackRemove
    <3>6. QED
      BY <3>1, <3>2, <3>3, <3>4, <3>5 DEF Next
  <2>2. CASE Check(c)
    <3>1. /\ diag'[c] = [owner |-> snap[c], stale |-> FALSE]
          /\ FALSE \in DemonstrablyGone(Proc[c], snap[c])
      <4>1. \E gone \in DemonstrablyGone(Proc[c], snap[c]) :
                ~gone /\ diag' = [diag EXCEPT ![c] = [owner |-> snap[c], stale |-> FALSE]]
        <5>1. pc' # [pc EXCEPT ![c] = "mkdir"] /\ pc' # [pc EXCEPT ![c] = "recheck"]
          BY <1>1, <2>types DEF TypeOK
        <5>2. QED
          BY <2>2, <5>1 DEF Check, Goto
      <4>2. \A gone \in DemonstrablyGone(Proc[c], snap[c]) : gone \in BOOLEAN
        BY DEF DemonstrablyGone, OwnerIsGone, ProcessExists
      <4>3. QED
        BY <2>types, <4>1, <4>2 DEF TypeOK
    <3>2. diag'[c].owner = snap[c] /\ diag'[c].stale = FALSE
      BY <3>1
    <3>3. QED
      BY <3>1, <3>2
  <2>3. CASE Recheck(c)
    <3>1. PICK r \in Claims \union {NoRecord} :
             ReadOwner(r) /\ diag' = [diag EXCEPT ![c] = [owner |-> r, stale |-> r = snap[c]]]
      BY <2>3 DEF Recheck
    <3>2. diag'[c] = [owner |-> r, stale |-> r = snap[c]]
      BY <2>types, <3>1 DEF TypeOK
    <3>3. r \in Claims /\ r = RecordAt
      BY <1>1, <3>1, <3>2, ClaimAssumption DEF ReadOwner
    <3>4. r = snap[c] => Ended(r)
      BY <2>types, <2>3, <3>3, ClaimAssumption
      DEF SnapshotsSound, RecordSound, RecordAt, Recheck, Over, Ended, Alive
    <3>5. diag'[c].owner = r /\ diag'[c].stale = (r = snap[c])
      BY <3>2
    <3>6. QED
      BY <3>3, <3>4, <3>5
  <2>4. QED
    BY <2>1, <2>2, <2>3
<1>2. LockInv /\ [Next]_vars => [\A c \in Claims : Honest(c)]_vars
  BY <1>1
<1>3. QED
  BY <1>2, Invariance, PTL DEF Spec, HonestDiagnosis

\* Apart from a successful write of owner.json, claims only become done.
LEMMA PhaseStep ==
    ASSUME Mode, LockInv, [Next]_vars
    PROVE  \/ \E c \in Claims : Write(c) /\ pc'[c] = "held"
           \/ \A d \in Claims : Phase(d)' \in {Phase(d), "done"}
<1> DEFINE Quiet == \A d \in Claims : Phase(d)' \in {Phase(d), "done"}
<1> USE ClaimAssumption DEF LockInv, TypeOK, Goto, Phase, Alive, fsVars, procVars, claimVars
<1>1. ASSUME NEW p \in Procs, Start(p) PROVE Quiet
  BY <1>1 DEF Start
<1>2. ASSUME NEW p \in Procs, Die(p) PROVE Quiet
  BY <1>2 DEF Die
<1>3. CASE RemoveOrphan \/ UNCHANGED vars
  BY <1>3 DEF RemoveOrphan, vars
<1>4. ASSUME NEW c \in Claims, Begin(c) \/ Expire(c) \/ Release(c) PROVE Quiet
  BY <1>4 DEF Begin, Expire, Release
<1>5. ASSUME NEW c \in Claims, Mkdir(c) \/ Read(c) \/ Judge(c) \/ Verify(c) PROVE Quiet
  BY <1>5 DEF Mkdir, Read, Judge, Verify
<1>6. ASSUME NEW c \in Claims, Reread(c) \/ Recheck(c) \/ Stat(c) PROVE Quiet
  BY <1>6 DEF Reread, Recheck, Stat
<1>7. ASSUME NEW c \in Claims, Rename(c) PROVE Quiet
  BY <1>7, RenameCases
<1>8. ASSUME NEW c \in Claims, Check(c) PROVE Quiet
  BY <1>8, CheckCases
<1>9. ASSUME NEW c \in Claims, Open(c) PROVE Quiet
  BY <1>9 DEF Open
<1>10. ASSUME NEW c \in Claims, Write(c), pc'[c] # "held" PROVE Quiet
  BY <1>10 DEF Write
<1>11. ASSUME NEW c \in Claims, ReleaseRead(c) \/ ReleaseRename(c) \/ ReleaseRemove(c) PROVE Quiet
  BY <1>11 DEF ReleaseRead, ReleaseRename, ReleaseRemove
<1>12. ASSUME NEW c \in Claims, RollbackRead(c) PROVE Quiet
  BY <1>12 DEF RollbackRead, EndRollback
<1>13. ASSUME NEW c \in Claims, RollbackStat(c) \/ RollbackRename(c) \/ RollbackRemove(c) PROVE Quiet
  BY <1>13 DEF RollbackStat, RollbackRename, RollbackRemove, EndRollback
<1>14. QED
  BY <1>1, <1>2, <1>3, <1>4, <1>5, <1>6, <1>7, <1>8, <1>9, <1>10, <1>11, <1>12, <1>13 DEF Next, ClaimStep

\* The lock implements the abstract mutex.
THEOREM Refinement ==
    ASSUME Mode
    PROVE  Spec => ImplementsMutex
<1>1. Init => Promise!Init
  BY ClaimAssumption DEF Init, Promise!Init, Phase
<1>2. LockInv /\ [Next]_vars => [Promise!Next]_([c \in Claims |-> Phase(c)])
  <2> SUFFICES ASSUME LockInv, [Next]_vars
               PROVE  [Promise!Next]_([c \in Claims |-> Phase(c)])
    OBVIOUS
  <2>1. ASSUME NEW c \in Claims, Write(c), pc'[c] = "held" PROVE Promise!Acquire(c)
    <3> USE ClaimAssumption DEF LockInv, TypeOK
    <3>1. Alive(c) /\ pc[c] = "write" /\ status' = status
      BY <2>1 DEF Write, procVars
    <3>2. lock # NoDir /\ lock.rec = Garbled
      BY <3>1 DEF WriterAlone
    <3>3. \A d \in Claims : Phase(d) # "holding"
      BY <3>2 DEF Phase, HolderKeepsRecord, OwnRecordAt, Alive, ClaimantsStarted
    <3>4. pc' = [pc EXCEPT ![c] = "held"]
      BY <2>1 DEF Write, Goto
    <3>5. Phase(c) = "waiting" /\ Phase(c)' = "holding"
      BY <3>1, <3>4 DEF Phase, Alive
    <3>6. \A d \in Claims : d # c => Phase(d)' = Phase(d)
      BY <3>1, <3>4 DEF Phase
    <3>7. QED
      BY <3>3, <3>5, <3>6 DEF Promise!Acquire
  <2>2. ASSUME \A d \in Claims : Phase(d)' \in {Phase(d), "done"}
        PROVE  \E S \in SUBSET Claims : Promise!Finish(S)
    <3> DEFINE S == {d \in Claims : Phase(d)' = "done"}
    <3>1. Promise!Finish(S)
      BY <2>2 DEF Promise!Finish
    <3>2. QED
      BY <3>1
  <2>3. QED
    BY <2>1, <2>2, PhaseStep DEF Promise!Next
<1>3. QED
  BY <1>1, <1>2, Invariance, PTL DEF Spec, ImplementsMutex, Promise!Spec
=============================================================================
