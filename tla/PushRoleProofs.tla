--------------------------- MODULE PushRoleProofs ---------------------------
(***************************************************************************)
(* Theorems about PushRole, for every set of requests and processes.  The  *)
(* lock's own invariant is carried over from FsLockProofs: the one step    *)
(* the role adds to it claims again under the token of a claim that timed  *)
(* out, and NamesAcquired says that nothing names such a claim.            *)
(***************************************************************************)
EXTENDS PushRole, FsLockProofs

-----------------------------------------------------------------------------
(* What a step of the lock changes, as far as names go.                    *)

\* No write of a record fails under the role (RoleAssumption).
LEMMA NoWriteFaults == ~WriteFaults /\ Mode
BY RoleAssumption DEF Mode

\* A rollback moves nothing then.
LEMMA NoRollbackMove ==
    ASSUME LockInv, NEW c \in Claims
    PROVE  ~RollbackRename(c) /\ ~RollbackRemove(c)
BY NoWriteFaults DEF LockInv, LostClaimMovesNothing, RollbackRename, RollbackRemove

\* A rollback that ends retries.
LEMMA RollbackRetries ==
    ASSUME LockInv, NEW c \in Claims, Alive(c), pc[c] \in {"rbread", "rbstat"}
    PROVE  after[c] = "mkdir"
BY NoWriteFaults DEF LockInv, LostClaimMovesNothing

\* A process starts or dies, or stays as it is.
LEMMA StatusMoves ==
    ASSUME LockInv, [Next]_vars
    PROVE  \A p \in Procs : \/ status'[p] = status[p]
                            \/ status[p] = "unborn" /\ status'[p] = "alive"
                            \/ status[p] = "alive" /\ status'[p] = "dead"
<1> DEFINE Moves == \A p \in Procs : \/ status'[p] = status[p]
                                     \/ status[p] = "unborn" /\ status'[p] = "alive"
                                     \/ status[p] = "alive" /\ status'[p] = "dead"
<1>1. status' = status => Moves
  OBVIOUS
<1>2. ASSUME NEW p \in Procs, Start(p) PROVE Moves
  BY <1>2 DEF Start, LockInv, TypeOK
<1>3. ASSUME NEW p \in Procs, Die(p) PROVE Moves
  BY <1>3 DEF Die, LockInv, TypeOK
<1>4. ASSUME RemoveOrphan PROVE Moves
  BY <1>4, <1>1 DEF RemoveOrphan, procVars
<1>5. ASSUME NEW c \in Claims, Begin(c) PROVE Moves
  BY <1>5, <1>1 DEF Begin, procVars
<1>6. ASSUME NEW c \in Claims, Expire(c) PROVE Moves
  BY <1>6, <1>1 DEF Expire, procVars
<1>7. ASSUME NEW c \in Claims, Release(c) PROVE Moves
  BY <1>7, <1>1 DEF Release, procVars
<1>8. ASSUME NEW c \in Claims, Mkdir(c) PROVE Moves
  BY <1>8, <1>1 DEF Mkdir, procVars
<1>9. ASSUME NEW c \in Claims, Read(c) PROVE Moves
  BY <1>9, <1>1 DEF Read, procVars
<1>10. ASSUME NEW c \in Claims, Judge(c) PROVE Moves
  BY <1>10, <1>1 DEF Judge, procVars
<1>11. ASSUME NEW c \in Claims, Verify(c) PROVE Moves
  BY <1>11, <1>1 DEF Verify, procVars
<1>12. ASSUME NEW c \in Claims, Rename(c) PROVE Moves
  BY <1>12, <1>1 DEF Rename, procVars
<1>13. ASSUME NEW c \in Claims, Reread(c) PROVE Moves
  BY <1>13, <1>1 DEF Reread, procVars
<1>14. ASSUME NEW c \in Claims, Check(c) PROVE Moves
  BY <1>14, <1>1 DEF Check, procVars
<1>15. ASSUME NEW c \in Claims, Recheck(c) PROVE Moves
  BY <1>15, <1>1 DEF Recheck, procVars
<1>16. ASSUME NEW c \in Claims, Stat(c) PROVE Moves
  BY <1>16, <1>1 DEF Stat, procVars
<1>17. ASSUME NEW c \in Claims, Open(c) PROVE Moves
  BY <1>17, <1>1 DEF Open, procVars
<1>18. ASSUME NEW c \in Claims, Write(c) PROVE Moves
  BY <1>18, <1>1 DEF Write, procVars
<1>19. ASSUME NEW c \in Claims, ReleaseRead(c) PROVE Moves
  BY <1>19, <1>1 DEF ReleaseRead, procVars
<1>20. ASSUME NEW c \in Claims, ReleaseRename(c) PROVE Moves
  BY <1>20, <1>1 DEF ReleaseRename, procVars
<1>21. ASSUME NEW c \in Claims, ReleaseRemove(c) PROVE Moves
  BY <1>21, <1>1 DEF ReleaseRemove, procVars
<1>22. ASSUME NEW c \in Claims, RollbackRead(c) PROVE Moves
  BY <1>22, <1>1 DEF RollbackRead, procVars
<1>23. ASSUME NEW c \in Claims, RollbackStat(c) PROVE Moves
  BY <1>23, <1>1 DEF RollbackStat, procVars
<1>24. ASSUME NEW c \in Claims, RollbackRename(c) PROVE Moves
  BY <1>24, <1>1 DEF RollbackRename, procVars
<1>25. ASSUME NEW c \in Claims, RollbackRemove(c) PROVE Moves
  BY <1>25, <1>1 DEF RollbackRemove, procVars
<1>26. ASSUME UNCHANGED vars PROVE Moves
  BY <1>26, <1>1 DEF vars, procVars
<1>27. Moves
  BY <1>2, <1>3, <1>4, <1>5, <1>6, <1>7, <1>8, <1>9, <1>10, <1>11, <1>12, <1>13, <1>14, <1>15, <1>16, <1>17, <1>18, <1>19, <1>20, <1>21, <1>22, <1>23, <1>24, <1>25, <1>26 DEF Next, ClaimStep
<1>28. QED
  BY <1>27 DEF Moves

\* A claim that timed out, or that released, makes no step; one that acquired
\* stays so, and none becomes idle again.
LEMMA CounterMoves ==
    ASSUME LockInv, [Next]_vars
    PROVE  \A d \in Claims : /\ pc[d] \in {"failed", "released"} => pc'[d] = pc[d]
                             /\ HasAcquired(d) => HasAcquired(d)'
                             /\ pc'[d] = "idle" => pc[d] = "idle"
<1> DEFINE Moves == \A d \in Claims : /\ pc[d] \in {"failed", "released"} => pc'[d] = pc[d]
                                      /\ HasAcquired(d) => HasAcquired(d)'
                                      /\ pc'[d] = "idle" => pc[d] = "idle"
<1>1. pc \in [Claims -> PCs]
  BY DEF LockInv, TypeOK
<1>2. pc' = pc => Moves
  BY DEF HasAcquired
<1>3. ASSUME NEW c \in Claims, NEW l, pc' = [pc EXCEPT ![c] = l],
             pc[c] \notin {"failed", "released"}, l # "idle",
             HasAcquired(c) => l \in {"held", "relread", "relrename", "relrm", "abandoned", "released"}
      PROVE  Moves
  BY <1>1, <1>3 DEF HasAcquired
<1> HIDE DEF Moves
<1>4. ASSUME NEW p \in Procs, Start(p) PROVE Moves
  BY <1>4, <1>2 DEF Start, claimVars
<1>5. ASSUME NEW p \in Procs, Die(p) PROVE Moves
  BY <1>5, <1>2 DEF Die, claimVars
<1>6. ASSUME RemoveOrphan PROVE Moves
  BY <1>6, <1>2 DEF RemoveOrphan, claimVars
<1>7. ASSUME NEW c \in Claims, Begin(c) PROVE Moves
  BY <1>7, <1>3 DEF Begin, Goto, HasAcquired
<1>8. ASSUME NEW c \in Claims, Expire(c) PROVE Moves
  BY <1>8, <1>2 DEF Expire
<1>9. ASSUME NEW c \in Claims, Release(c) PROVE Moves
  BY <1>9, <1>3 DEF Release, Goto, HasAcquired
<1>10. ASSUME NEW c \in Claims, Mkdir(c) PROVE Moves
  BY <1>10, <1>3 DEF Mkdir, Goto, HasAcquired
<1>11. ASSUME NEW c \in Claims, Read(c) PROVE Moves
  BY <1>11, <1>3 DEF Read, Goto, HasAcquired
<1>12. ASSUME NEW c \in Claims, Judge(c) PROVE Moves
  BY <1>12, <1>3 DEF Judge, Goto, HasAcquired
<1>13. ASSUME NEW c \in Claims, Verify(c) PROVE Moves
  BY <1>13, <1>3 DEF Verify, Goto, HasAcquired
<1>14. ASSUME NEW c \in Claims, Rename(c) PROVE Moves
  BY <1>14, <1>3, RenameCases DEF HasAcquired
<1>15. ASSUME NEW c \in Claims, Reread(c) PROVE Moves
  BY <1>15, <1>3 DEF Reread, Goto, HasAcquired
<1>16. ASSUME NEW c \in Claims, Check(c) PROVE Moves
  BY <1>16, <1>3, CheckCases DEF HasAcquired
<1>17. ASSUME NEW c \in Claims, Recheck(c) PROVE Moves
  BY <1>17, <1>3 DEF Recheck, Goto, HasAcquired
<1>18. ASSUME NEW c \in Claims, Stat(c) PROVE Moves
  BY <1>18, <1>3 DEF Stat, Goto, HasAcquired
<1>19. ASSUME NEW c \in Claims, Open(c) PROVE Moves
  BY <1>19, <1>3 DEF Open, Goto, HasAcquired
<1>20. ASSUME NEW c \in Claims, Write(c) PROVE Moves
  BY <1>20, <1>3 DEF Write, Goto, HasAcquired
<1>21. ASSUME NEW c \in Claims, ReleaseRead(c) PROVE Moves
  BY <1>21, <1>3 DEF ReleaseRead, Goto, HasAcquired
<1>22. ASSUME NEW c \in Claims, ReleaseRename(c) PROVE Moves
  BY <1>22, <1>3 DEF ReleaseRename, Goto, HasAcquired
<1>23. ASSUME NEW c \in Claims, ReleaseRemove(c) PROVE Moves
  BY <1>23, <1>3 DEF ReleaseRemove, Goto, HasAcquired
<1>24. ASSUME NEW c \in Claims, RollbackRead(c) PROVE Moves
  BY <1>24, <1>3, RollbackRetries DEF RollbackRead, EndRollback, Goto, HasAcquired
<1>25. ASSUME NEW c \in Claims, RollbackStat(c) PROVE Moves
  BY <1>25, <1>3, RollbackRetries DEF RollbackStat, EndRollback, Goto, HasAcquired
<1>26. ASSUME NEW c \in Claims, RollbackRename(c) PROVE Moves
  BY <1>26, NoRollbackMove
<1>27. ASSUME NEW c \in Claims, RollbackRemove(c) PROVE Moves
  BY <1>27, NoRollbackMove
<1>28. ASSUME UNCHANGED vars PROVE Moves
  BY <1>28, <1>2 DEF vars, claimVars
<1>29. Moves
  BY <1>4, <1>5, <1>6, <1>7, <1>8, <1>9, <1>10, <1>11, <1>12, <1>13, <1>14, <1>15, <1>16, <1>17, <1>18, <1>19, <1>20, <1>21, <1>22, <1>23, <1>24, <1>25, <1>26, <1>27, <1>28 DEF Next, ClaimStep
<1>30. QED
  BY <1>29 DEF Moves

\* A record leaves lockPath, or the claim that writes its own acquires.
LEMMA RecordMoves ==
    ASSUME LockInv, [Next]_vars
    PROVE  \/ RecordAt' \in {RecordAt, NoRecord}
           \/ \E o \in Claims : RecordAt' = o /\ Alive(o) /\ pc[o] = "write" /\ pc'[o] = "held"
<1> DEFINE Moves == \/ RecordAt' \in {RecordAt, NoRecord}
                    \/ \E o \in Claims : RecordAt' = o /\ Alive(o) /\ pc[o] = "write" /\ pc'[o] = "held"
<1>1. lock' = lock => Moves
  BY DEF RecordAt
<1>2. lock' = NoDir => Moves
  BY DEF RecordAt
<1>3. ASSUME NEW p \in Procs, Start(p) PROVE Moves
  BY <1>3, <1>1 DEF Start, fsVars
<1>4. ASSUME NEW p \in Procs, Die(p) PROVE Moves
  BY <1>4, <1>1 DEF Die, fsVars
<1>5. ASSUME RemoveOrphan PROVE Moves
  BY <1>5, <1>2 DEF RemoveOrphan
<1>6. ASSUME NEW c \in Claims, Begin(c) PROVE Moves
  BY <1>6, <1>1 DEF Begin, fsVars
<1>7. ASSUME NEW c \in Claims, Expire(c) PROVE Moves
  BY <1>7, <1>1 DEF Expire, fsVars
<1>8. ASSUME NEW c \in Claims, Release(c) PROVE Moves
  BY <1>8, <1>1 DEF Release, fsVars
<1>9. ASSUME NEW c \in Claims, Mkdir(c) PROVE Moves
  BY <1>9, <1>1, ClaimAssumption DEF Mkdir, RecordAt
<1>10. ASSUME NEW c \in Claims, Read(c) PROVE Moves
  BY <1>10, <1>1 DEF Read, fsVars
<1>11. ASSUME NEW c \in Claims, Judge(c) PROVE Moves
  BY <1>11, <1>1 DEF Judge, fsVars
<1>12. ASSUME NEW c \in Claims, Verify(c) PROVE Moves
  BY <1>12, <1>1 DEF Verify, fsVars
<1>13. ASSUME NEW c \in Claims, Rename(c) PROVE Moves
  BY <1>13, <1>1, <1>2, RenameCases
<1>14. ASSUME NEW c \in Claims, Reread(c) PROVE Moves
  BY <1>14, <1>1 DEF Reread, fsVars
<1>15. ASSUME NEW c \in Claims, Check(c) PROVE Moves
  BY <1>15, <1>1, CheckCases
<1>16. ASSUME NEW c \in Claims, Recheck(c) PROVE Moves
  BY <1>16, <1>1 DEF Recheck, fsVars
<1>17. ASSUME NEW c \in Claims, Stat(c) PROVE Moves
  BY <1>17, <1>1 DEF Stat, fsVars
<1>18. ASSUME NEW c \in Claims, Open(c) PROVE Moves
  BY <1>18, <1>1, ClaimAssumption DEF Open, RecordAt, LockInv, TypeOK, Dir
<1>19. ASSUME NEW c \in Claims, Write(c) PROVE Moves
  <2>1. Alive(c) /\ pc[c] = "write" /\ lock # NoDir /\ lock.dir = fd[c] /\ lock \in Dir
    BY <1>19 DEF Write, LockInv, WriterAlone, TypeOK
  <2>2. lock' = [lock EXCEPT !.rec = c] /\ Goto(c, "held")
    BY <1>19, <2>1, NoWriteFaults DEF Write
  <2>3. lock' \in Dir /\ lock'.rec = c /\ pc'[c] = "held"
    BY <2>1, <2>2 DEF Dir, Records, Goto, LockInv, TypeOK
  <2>4. lock' # NoDir
    BY <2>3, NoDirAssumption DEF Dir, Records
  <2>5. RecordAt' = c
    BY <2>3, <2>4 DEF RecordAt
  <2>6. QED
    BY <2>1, <2>3, <2>5
<1>20. ASSUME NEW c \in Claims, ReleaseRead(c) PROVE Moves
  BY <1>20, <1>1 DEF ReleaseRead, fsVars
<1>21. ASSUME NEW c \in Claims, ReleaseRename(c) PROVE Moves
  BY <1>21, <1>1, <1>2 DEF ReleaseRename, MoveAside
<1>22. ASSUME NEW c \in Claims, ReleaseRemove(c) PROVE Moves
  BY <1>22, <1>1 DEF ReleaseRemove, fsVars
<1>23. ASSUME NEW c \in Claims, RollbackRead(c) PROVE Moves
  BY <1>23, <1>1 DEF RollbackRead, fsVars
<1>24. ASSUME NEW c \in Claims, RollbackStat(c) PROVE Moves
  BY <1>24, <1>1 DEF RollbackStat, fsVars
<1>25. ASSUME NEW c \in Claims, RollbackRename(c) PROVE Moves
  BY <1>25, NoRollbackMove
<1>26. ASSUME NEW c \in Claims, RollbackRemove(c) PROVE Moves
  BY <1>26, NoRollbackMove
<1>27. ASSUME UNCHANGED vars PROVE Moves
  BY <1>27, <1>1 DEF vars, fsVars
<1>28. Moves
  BY <1>3, <1>4, <1>5, <1>6, <1>7, <1>8, <1>9, <1>10, <1>11, <1>12, <1>13, <1>14, <1>15, <1>16, <1>17, <1>18, <1>19, <1>20, <1>21, <1>22, <1>23, <1>24, <1>25, <1>26, <1>27 DEF Next, ClaimStep
<1>29. QED
  BY <1>28 DEF Moves

\* Only the record at lockPath goes into quarantine.
LEMMA QuarantineMoves ==
    ASSUME LockInv, [Next]_vars
    PROVE  \A o \in Claims : quarantine'[o] # NoDir =>
              quarantine[o] # NoDir \/ (RecordAt = o /\ RecordAt' = NoRecord)
<1> DEFINE Moves == \A o \in Claims : quarantine'[o] # NoDir =>
                       quarantine[o] # NoDir \/ (RecordAt = o /\ RecordAt' = NoRecord)
<1>1. quarantine' = quarantine => Moves
  OBVIOUS
<1>2. ASSUME NEW p \in Procs, Start(p) PROVE Moves
  BY <1>2, <1>1 DEF Start, fsVars
<1>3. ASSUME NEW p \in Procs, Die(p) PROVE Moves
  BY <1>3, <1>1 DEF Die, fsVars
<1>4. ASSUME RemoveOrphan PROVE Moves
  BY <1>4, <1>1 DEF RemoveOrphan, fsVars
<1>5. ASSUME NEW c \in Claims, Begin(c) PROVE Moves
  BY <1>5, <1>1 DEF Begin, fsVars
<1>6. ASSUME NEW c \in Claims, Expire(c) PROVE Moves
  BY <1>6, <1>1 DEF Expire, fsVars
<1>7. ASSUME NEW c \in Claims, Release(c) PROVE Moves
  BY <1>7, <1>1 DEF Release, fsVars
<1>8. ASSUME NEW c \in Claims, Mkdir(c) PROVE Moves
  BY <1>8, <1>1 DEF Mkdir, fsVars
<1>9. ASSUME NEW c \in Claims, Read(c) PROVE Moves
  BY <1>9, <1>1 DEF Read, fsVars
<1>10. ASSUME NEW c \in Claims, Judge(c) PROVE Moves
  BY <1>10, <1>1 DEF Judge, fsVars
<1>11. ASSUME NEW c \in Claims, Verify(c) PROVE Moves
  BY <1>11, <1>1 DEF Verify, fsVars
<1>12. ASSUME NEW c \in Claims, Rename(c) PROVE Moves
  BY <1>12, <1>1, RenameCases DEF RecordAt, LockInv, TypeOK
<1>13. ASSUME NEW c \in Claims, Reread(c) PROVE Moves
  BY <1>13, <1>1 DEF Reread, fsVars
<1>14. ASSUME NEW c \in Claims, Check(c) PROVE Moves
  BY <1>14, <1>1, CheckCases
<1>15. ASSUME NEW c \in Claims, Recheck(c) PROVE Moves
  BY <1>15, <1>1 DEF Recheck, fsVars
<1>16. ASSUME NEW c \in Claims, Stat(c) PROVE Moves
  BY <1>16, <1>1 DEF Stat, fsVars
<1>17. ASSUME NEW c \in Claims, Open(c) PROVE Moves
  BY <1>17, <1>1 DEF Open, fsVars
<1>18. ASSUME NEW c \in Claims, Write(c) PROVE Moves
  BY <1>18, <1>1 DEF Write, fsVars
<1>19. ASSUME NEW c \in Claims, ReleaseRead(c) PROVE Moves
  BY <1>19, <1>1 DEF ReleaseRead, fsVars
<1>20. ASSUME NEW c \in Claims, ReleaseRename(c) PROVE Moves
  BY <1>20, <1>1 DEF ReleaseRename, fsVars
<1>21. ASSUME NEW c \in Claims, ReleaseRemove(c) PROVE Moves
  BY <1>21, <1>1 DEF ReleaseRemove, fsVars
<1>22. ASSUME NEW c \in Claims, RollbackRead(c) PROVE Moves
  BY <1>22, <1>1 DEF RollbackRead, fsVars
<1>23. ASSUME NEW c \in Claims, RollbackStat(c) PROVE Moves
  BY <1>23, <1>1 DEF RollbackStat, fsVars
<1>24. ASSUME NEW c \in Claims, RollbackRename(c) PROVE Moves
  BY <1>24, NoRollbackMove
<1>25. ASSUME NEW c \in Claims, RollbackRemove(c) PROVE Moves
  BY <1>25, NoRollbackMove
<1>26. ASSUME UNCHANGED vars PROVE Moves
  BY <1>26, <1>1 DEF vars, fsVars
<1>27. Moves
  BY <1>2, <1>3, <1>4, <1>5, <1>6, <1>7, <1>8, <1>9, <1>10, <1>11, <1>12, <1>13, <1>14, <1>15, <1>16, <1>17, <1>18, <1>19, <1>20, <1>21, <1>22, <1>23, <1>24, <1>25, <1>26 DEF Next, ClaimStep
<1>28. QED
  BY <1>27 DEF Moves

\* What a claim knows of an owner it has read from lockPath.
LEMMA SnapMoves ==
    ASSUME LockInv, [Next]_vars
    PROVE  \A d \in Claims : \/ snap'[d] \in {snap[d], NoRecord}
                             \/ pc[d] \in {"read", "reread"} /\ snap'[d] = RecordAt /\ lock' = lock
<1> DEFINE Moves == \A d \in Claims : \/ snap'[d] \in {snap[d], NoRecord}
                                      \/ pc[d] \in {"read", "reread"} /\ snap'[d] = RecordAt /\ lock' = lock
<1>0. snap \in [Claims -> Claims \union {NoRecord}]
  BY DEF LockInv, TypeOK
<1>1. snap' = snap => Moves
  OBVIOUS
<1>2. ASSUME NEW p \in Procs, Start(p) PROVE Moves
  BY <1>2, <1>1 DEF Start, claimVars
<1>3. ASSUME NEW p \in Procs, Die(p) PROVE Moves
  BY <1>3, <1>1 DEF Die, claimVars
<1>4. ASSUME RemoveOrphan PROVE Moves
  BY <1>4, <1>1 DEF RemoveOrphan, claimVars
<1>5. ASSUME NEW c \in Claims, Begin(c) PROVE Moves
  BY <1>5, <1>1 DEF Begin, claimVars
<1>6. ASSUME NEW c \in Claims, Expire(c) PROVE Moves
  BY <1>6, <1>1 DEF Expire, claimVars
<1>7. ASSUME NEW c \in Claims, Release(c) PROVE Moves
  BY <1>7, <1>1 DEF Release, claimVars
<1>8. ASSUME NEW c \in Claims, Mkdir(c) PROVE Moves
  BY <1>8, <1>1 DEF Mkdir, claimVars
<1>9. ASSUME NEW c \in Claims, Read(c) PROVE Moves
  BY <1>9, <1>0 DEF Read, ReadOwner, fsVars
<1>10. ASSUME NEW c \in Claims, Judge(c) PROVE Moves
  BY <1>10, <1>1 DEF Judge, claimVars
<1>11. ASSUME NEW c \in Claims, Verify(c) PROVE Moves
  BY <1>11, <1>1 DEF Verify, claimVars
<1>12. ASSUME NEW c \in Claims, Rename(c) PROVE Moves
  BY <1>12, <1>0, <1>1, RenameCases
<1>13. ASSUME NEW c \in Claims, Reread(c) PROVE Moves
  BY <1>13, <1>0 DEF Reread, ReadOwner, fsVars
<1>14. ASSUME NEW c \in Claims, Check(c) PROVE Moves
  BY <1>14, <1>0, <1>1, CheckCases
<1>15. ASSUME NEW c \in Claims, Recheck(c) PROVE Moves
  BY <1>15, <1>0 DEF Recheck
<1>16. ASSUME NEW c \in Claims, Stat(c) PROVE Moves
  BY <1>16, <1>1 DEF Stat, claimVars
<1>17. ASSUME NEW c \in Claims, Open(c) PROVE Moves
  BY <1>17, <1>1 DEF Open, claimVars
<1>18. ASSUME NEW c \in Claims, Write(c) PROVE Moves
  BY <1>18, <1>1 DEF Write, claimVars
<1>19. ASSUME NEW c \in Claims, ReleaseRead(c) PROVE Moves
  BY <1>19, <1>1 DEF ReleaseRead, claimVars
<1>20. ASSUME NEW c \in Claims, ReleaseRename(c) PROVE Moves
  BY <1>20, <1>1 DEF ReleaseRename, claimVars
<1>21. ASSUME NEW c \in Claims, ReleaseRemove(c) PROVE Moves
  BY <1>21, <1>1 DEF ReleaseRemove, claimVars
<1>22. ASSUME NEW c \in Claims, RollbackRead(c) PROVE Moves
  BY <1>22, <1>1 DEF RollbackRead, claimVars
<1>23. ASSUME NEW c \in Claims, RollbackStat(c) PROVE Moves
  BY <1>23, <1>1 DEF RollbackStat, claimVars
<1>24. ASSUME NEW c \in Claims, RollbackRename(c) PROVE Moves
  BY <1>24, <1>1 DEF RollbackRename, claimVars
<1>25. ASSUME NEW c \in Claims, RollbackRemove(c) PROVE Moves
  BY <1>25, <1>1 DEF RollbackRemove, claimVars
<1>26. ASSUME UNCHANGED vars PROVE Moves
  BY <1>26, <1>1 DEF vars, claimVars
<1>27. Moves
  BY <1>2, <1>3, <1>4, <1>5, <1>6, <1>7, <1>8, <1>9, <1>10, <1>11, <1>12, <1>13, <1>14, <1>15, <1>16, <1>17, <1>18, <1>19, <1>20, <1>21, <1>22, <1>23, <1>24, <1>25, <1>26 DEF Next, ClaimStep
<1>28. QED
  BY <1>27 DEF Moves

\* A timeout error names the snapshot that was not gone, or what the second
\* look found.
LEMMA DiagMoves ==
    ASSUME LockInv, [Next]_vars
    PROVE  \A d \in Claims :
              \/ diag'[d] = diag[d]
              \/ /\ Alive(d) /\ pc[d] = "check" /\ diag'[d].owner = snap[d]
                 /\ FALSE \in DemonstrablyGone(Proc[d], snap[d])
              \/ /\ Alive(d) /\ pc[d] = "recheck" /\ lock' = lock
                 /\ diag'[d].owner \in {NoRecord, RecordAt}
                 /\ (diag'[d].stale <=> diag'[d].owner = snap[d])
<1> DEFINE Judged(d) == /\ Alive(d) /\ pc[d] = "check" /\ diag'[d].owner = snap[d]
                        /\ FALSE \in DemonstrablyGone(Proc[d], snap[d])
           Looked(d) == /\ Alive(d) /\ pc[d] = "recheck" /\ lock' = lock
                         /\ diag'[d].owner \in {NoRecord, RecordAt}
                         /\ (diag'[d].stale <=> diag'[d].owner = snap[d])
           Moves == \A d \in Claims : diag'[d] = diag[d] \/ Judged(d) \/ Looked(d)
<1>0. diag \in [Claims -> [owner : Claims \union {NoRecord}, stale : BOOLEAN]]
  BY DEF LockInv, TypeOK
<1>1. diag' = diag => Moves
  OBVIOUS
<1>2. ASSUME NEW p \in Procs, Start(p) PROVE Moves
  BY <1>2, <1>1 DEF Start, claimVars
<1>3. ASSUME NEW p \in Procs, Die(p) PROVE Moves
  BY <1>3, <1>1 DEF Die, claimVars
<1>4. ASSUME RemoveOrphan PROVE Moves
  BY <1>4, <1>1 DEF RemoveOrphan, claimVars
<1>5. ASSUME NEW c \in Claims, Begin(c) PROVE Moves
  BY <1>5, <1>1 DEF Begin, claimVars
<1>6. ASSUME NEW c \in Claims, Expire(c) PROVE Moves
  BY <1>6, <1>1 DEF Expire, claimVars
<1>7. ASSUME NEW c \in Claims, Release(c) PROVE Moves
  BY <1>7, <1>1 DEF Release, claimVars
<1>8. ASSUME NEW c \in Claims, Mkdir(c) PROVE Moves
  BY <1>8, <1>1 DEF Mkdir, claimVars
<1>9. ASSUME NEW c \in Claims, Read(c) PROVE Moves
  BY <1>9, <1>1 DEF Read, claimVars
<1>10. ASSUME NEW c \in Claims, Judge(c) PROVE Moves
  BY <1>10, <1>1 DEF Judge, claimVars
<1>11. ASSUME NEW c \in Claims, Verify(c) PROVE Moves
  BY <1>11, <1>1 DEF Verify, claimVars
<1>12. ASSUME NEW c \in Claims, Rename(c) PROVE Moves
  BY <1>12, <1>1 DEF Rename
<1>13. ASSUME NEW c \in Claims, Reread(c) PROVE Moves
  BY <1>13, <1>1 DEF Reread, claimVars
<1>14. ASSUME NEW c \in Claims, Check(c) PROVE Moves
  <2>1. CASE diag' = diag
    BY <2>1, <1>1
  <2>2. CASE diag' # diag
    <3>1. PICK r \in DemonstrablyGone(Proc[c], snap[c]) :
             ~r /\ diag' = [diag EXCEPT ![c] = [owner |-> snap[c], stale |-> FALSE]]
      BY <1>14, <2>2 DEF Check
    <3>2. r = FALSE
      BY <3>1 DEF DemonstrablyGone, OwnerIsGone
    <3>3. Judged(c)
      BY <1>14, <1>0, <3>1, <3>2 DEF Check
    <3>4. \A d \in Claims : d # c => diag'[d] = diag[d]
      BY <1>0, <3>1
    <3>5. QED
      BY <3>3, <3>4
  <2>3. QED
    BY <2>1, <2>2
<1>15. ASSUME NEW c \in Claims, Recheck(c) PROVE Moves
  <2>1. PICK r \in Claims \union {NoRecord} :
           ReadOwner(r) /\ diag' = [diag EXCEPT ![c] = [owner |-> r, stale |-> r = snap[c]]]
    BY <1>15 DEF Recheck
  <2>2. diag'[c] = [owner |-> r, stale |-> r = snap[c]]
    BY <1>0, <2>1
  <2>3. diag'[c].owner = r /\ (diag'[c].stale <=> r = snap[c])
    <3>1. diag'[c].stale = (r = snap[c])
      BY <2>2
    <3>2. diag'[c].owner = r
      BY <2>2
    <3>3. QED
      BY <3>1, <3>2
  <2>4. Looked(c)
    BY <1>15, <2>1, <2>3 DEF Recheck, ReadOwner, fsVars
  <2>5. \A d \in Claims : d # c => diag'[d] = diag[d]
    BY <1>0, <2>1
  <2>6. QED
    BY <2>4, <2>5
<1>16. ASSUME NEW c \in Claims, Stat(c) PROVE Moves
  BY <1>16, <1>1 DEF Stat, claimVars
<1>17. ASSUME NEW c \in Claims, Open(c) PROVE Moves
  BY <1>17, <1>1 DEF Open, claimVars
<1>18. ASSUME NEW c \in Claims, Write(c) PROVE Moves
  BY <1>18, <1>1 DEF Write, claimVars
<1>19. ASSUME NEW c \in Claims, ReleaseRead(c) PROVE Moves
  BY <1>19, <1>1 DEF ReleaseRead, claimVars
<1>20. ASSUME NEW c \in Claims, ReleaseRename(c) PROVE Moves
  BY <1>20, <1>1 DEF ReleaseRename, claimVars
<1>21. ASSUME NEW c \in Claims, ReleaseRemove(c) PROVE Moves
  BY <1>21, <1>1 DEF ReleaseRemove, claimVars
<1>22. ASSUME NEW c \in Claims, RollbackRead(c) PROVE Moves
  BY <1>22, <1>1 DEF RollbackRead, claimVars
<1>23. ASSUME NEW c \in Claims, RollbackStat(c) PROVE Moves
  BY <1>23, <1>1 DEF RollbackStat, claimVars
<1>24. ASSUME NEW c \in Claims, RollbackRename(c) PROVE Moves
  BY <1>24, <1>1 DEF RollbackRename, claimVars
<1>25. ASSUME NEW c \in Claims, RollbackRemove(c) PROVE Moves
  BY <1>25, <1>1 DEF RollbackRemove, claimVars
<1>26. ASSUME UNCHANGED vars PROVE Moves
  BY <1>26, <1>1 DEF vars, claimVars
<1>27. Moves
  BY <1>2, <1>3, <1>4, <1>5, <1>6, <1>7, <1>8, <1>9, <1>10, <1>11, <1>12, <1>13, <1>14, <1>15, <1>16, <1>17, <1>18, <1>19, <1>20, <1>21, <1>22, <1>23, <1>24, <1>25, <1>26 DEF Next, ClaimStep
<1>28. QED
  BY <1>27 DEF Moves

\* Only Begin takes a claim out of idle.
LEMMA BeginMoves ==
    ASSUME LockInv, [Next]_vars
    PROVE  \A d \in Claims : pc[d] = "idle" => pc'[d] \in {"idle", "mkdir"}
<1> DEFINE Moves == \A d \in Claims : pc[d] = "idle" => pc'[d] \in {"idle", "mkdir"}
<1>1. pc \in [Claims -> PCs]
  BY DEF LockInv, TypeOK
<1>2. pc' = pc => Moves
  OBVIOUS
<1>3. ASSUME NEW c \in Claims, NEW l, pc' = [pc EXCEPT ![c] = l], pc[c] # "idle" \/ l = "mkdir"
      PROVE  Moves
  BY <1>1, <1>3
<1> HIDE DEF Moves
<1>4. ASSUME NEW p \in Procs, Start(p) PROVE Moves
  BY <1>4, <1>2 DEF Start, claimVars
<1>5. ASSUME NEW p \in Procs, Die(p) PROVE Moves
  BY <1>5, <1>2 DEF Die, claimVars
<1>6. ASSUME RemoveOrphan PROVE Moves
  BY <1>6, <1>2 DEF RemoveOrphan, claimVars
<1>7. ASSUME NEW c \in Claims, Begin(c) PROVE Moves
  BY <1>7, <1>3 DEF Begin, Goto
<1>8. ASSUME NEW c \in Claims, Expire(c) PROVE Moves
  BY <1>8, <1>2 DEF Expire
<1>9. ASSUME NEW c \in Claims, Release(c) PROVE Moves
  BY <1>9, <1>3 DEF Release, Goto
<1>10. ASSUME NEW c \in Claims, Mkdir(c) PROVE Moves
  BY <1>10, <1>3 DEF Mkdir, Goto
<1>11. ASSUME NEW c \in Claims, Read(c) PROVE Moves
  BY <1>11, <1>3 DEF Read, Goto
<1>12. ASSUME NEW c \in Claims, Judge(c) PROVE Moves
  BY <1>12, <1>3 DEF Judge, Goto
<1>13. ASSUME NEW c \in Claims, Verify(c) PROVE Moves
  BY <1>13, <1>3 DEF Verify, Goto
<1>14. ASSUME NEW c \in Claims, Rename(c) PROVE Moves
  BY <1>14, <1>3, RenameCases
<1>15. ASSUME NEW c \in Claims, Reread(c) PROVE Moves
  BY <1>15, <1>3 DEF Reread, Goto
<1>16. ASSUME NEW c \in Claims, Check(c) PROVE Moves
  BY <1>16, <1>3, CheckCases
<1>17. ASSUME NEW c \in Claims, Recheck(c) PROVE Moves
  BY <1>17, <1>3 DEF Recheck, Goto
<1>18. ASSUME NEW c \in Claims, Stat(c) PROVE Moves
  BY <1>18, <1>3 DEF Stat, Goto
<1>19. ASSUME NEW c \in Claims, Open(c) PROVE Moves
  BY <1>19, <1>3 DEF Open, Goto
<1>20. ASSUME NEW c \in Claims, Write(c) PROVE Moves
  BY <1>20, <1>3 DEF Write, Goto
<1>21. ASSUME NEW c \in Claims, ReleaseRead(c) PROVE Moves
  BY <1>21, <1>3 DEF ReleaseRead, Goto
<1>22. ASSUME NEW c \in Claims, ReleaseRename(c) PROVE Moves
  BY <1>22, <1>3 DEF ReleaseRename, Goto
<1>23. ASSUME NEW c \in Claims, ReleaseRemove(c) PROVE Moves
  BY <1>23, <1>3 DEF ReleaseRemove, Goto
<1>24. ASSUME NEW c \in Claims, RollbackRead(c) PROVE Moves
  BY <1>24, <1>3 DEF RollbackRead, EndRollback, Goto
<1>25. ASSUME NEW c \in Claims, RollbackStat(c) PROVE Moves
  BY <1>25, <1>3 DEF RollbackStat, EndRollback, Goto
<1>26. ASSUME NEW c \in Claims, RollbackRename(c) PROVE Moves
  BY <1>26, NoRollbackMove
<1>27. ASSUME NEW c \in Claims, RollbackRemove(c) PROVE Moves
  BY <1>27, NoRollbackMove
<1>28. ASSUME UNCHANGED vars PROVE Moves
  BY <1>28, <1>2 DEF vars, claimVars
<1>29. Moves
  BY <1>4, <1>5, <1>6, <1>7, <1>8, <1>9, <1>10, <1>11, <1>12, <1>13, <1>14, <1>15, <1>16, <1>17, <1>18, <1>19, <1>20, <1>21, <1>22, <1>23, <1>24, <1>25, <1>26, <1>27, <1>28 DEF Next, ClaimStep
<1>30. QED
  BY <1>29 DEF Moves

\* How a claim comes to look at its clock, when it can read: it read the
\* record, or saw that it could not be quarantined.
LEMMA LookMoves ==
    ASSUME LockInv, [Next]_vars, ~ReadFaults
    PROVE  \A d \in Claims : pc'[d] \in {"reread", "check", "recheck"} =>
              \/ /\ pc[d] \in {"reread", "check", "recheck"} /\ snap'[d] = snap[d]
                 /\ pc[d] = "reread" <=> pc'[d] = "reread"
              \/ /\ pc[d] \in {"read", "reread"} /\ pc'[d] = "check" /\ Alive(d)
                 /\ snap'[d] = RecordAt /\ lock' = lock
                 /\ pc[d] = "read" => RecordAt = NoRecord
              \/ /\ pc[d] \in {"judge", "verify", "rename"} /\ pc'[d] = "reread" /\ Alive(d) /\ lock' = lock
                 /\ pc[d] = "judge" => FALSE \in DemonstrablyGone(Proc[d], snap[d])
                 /\ pc[d] = "verify" => RecordAt # snap[d]
                 /\ pc[d] = "rename" => lock = NoDir \/ quarantine[snap[d]] # NoDir
<1> DEFINE Stays(d) == /\ pc[d] \in {"reread", "check", "recheck"} /\ snap'[d] = snap[d]
                       /\ pc[d] = "reread" <=> pc'[d] = "reread"
           Reads(d) == /\ pc[d] \in {"read", "reread"} /\ pc'[d] = "check" /\ Alive(d)
                       /\ snap'[d] = RecordAt /\ lock' = lock
                       /\ pc[d] = "read" => RecordAt = NoRecord
           Refused(d) == /\ pc[d] \in {"judge", "verify", "rename"} /\ pc'[d] = "reread" /\ Alive(d) /\ lock' = lock
                         /\ pc[d] = "judge" => FALSE \in DemonstrablyGone(Proc[d], snap[d])
                         /\ pc[d] = "verify" => RecordAt # snap[d]
                         /\ pc[d] = "rename" => lock = NoDir \/ quarantine[snap[d]] # NoDir
           Look == {"reread", "check", "recheck"}
           Moves == \A d \in Claims : pc'[d] \in Look => Stays(d) \/ Reads(d) \/ Refused(d)
<1>1. pc \in [Claims -> PCs] /\ snap \in [Claims -> Claims \union {NoRecord}]
  BY DEF LockInv, TypeOK
<1>2. pc' = pc /\ snap' = snap => Moves
  OBVIOUS
<1>3. ASSUME NEW c \in Claims, NEW l, pc' = [pc EXCEPT ![c] = l], l \notin Look,
             snap' = snap \/ \E r : snap' = [snap EXCEPT ![c] = r]
      PROVE  Moves
  BY <1>1, <1>3
<1>4. ASSUME NEW c \in Claims, NEW l, pc' = [pc EXCEPT ![c] = l],
             snap' = snap \/ \E r : snap' = [snap EXCEPT ![c] = r],
             Stays(c) \/ Reads(c) \/ Refused(c)
      PROVE  Moves
  BY <1>1, <1>4
<1> HIDE DEF Moves
<1>5. ASSUME NEW p \in Procs, Start(p) PROVE Moves
  BY <1>5, <1>2 DEF Start, claimVars
<1>6. ASSUME NEW p \in Procs, Die(p) PROVE Moves
  BY <1>6, <1>2 DEF Die, claimVars
<1>7. ASSUME RemoveOrphan PROVE Moves
  BY <1>7, <1>2 DEF RemoveOrphan, claimVars
<1>8. ASSUME NEW c \in Claims, Begin(c) PROVE Moves
  BY <1>8, <1>3 DEF Begin, Goto
<1>9. ASSUME NEW c \in Claims, Expire(c) PROVE Moves
  BY <1>9, <1>2 DEF Expire
<1>10. ASSUME NEW c \in Claims, Release(c) PROVE Moves
  BY <1>10, <1>3 DEF Release, Goto
<1>11. ASSUME NEW c \in Claims, Mkdir(c) PROVE Moves
  BY <1>11, <1>3 DEF Mkdir, Goto
<1>12. ASSUME NEW c \in Claims, Read(c) PROVE Moves
  <2>1. PICK r \in Claims \union {NoRecord} :
           /\ ReadOwner(r) /\ snap' = [snap EXCEPT ![c] = r]
           /\ Goto(c, IF r = NoRecord THEN "check" ELSE "judge")
    BY <1>12 DEF Read
  <2>2. CASE r = NoRecord
    <3>1. pc' = [pc EXCEPT ![c] = "check"] /\ snap'[c] = r
      BY <1>1, <2>1, <2>2 DEF Goto
    <3>2. Reads(c)
      BY <1>12, <1>1, <2>1, <2>2, <3>1 DEF Read, ReadOwner, fsVars
    <3>3. QED
      BY <1>4, <2>1, <3>1, <3>2
  <2>3. CASE r # NoRecord
    BY <1>3, <2>1, <2>3 DEF Goto
  <2>4. QED
    BY <2>2, <2>3
<1>13. ASSUME NEW c \in Claims, Judge(c) PROVE Moves
  <2>1. PICK g \in DemonstrablyGone(Proc[c], snap[c]) : Goto(c, IF g THEN "verify" ELSE "reread")
    BY <1>13 DEF Judge
  <2>2. snap' = snap /\ lock' = lock /\ Alive(c) /\ pc[c] = "judge"
    BY <1>13 DEF Judge, fsVars
  <2>3. CASE g
    BY <1>3, <2>1, <2>2, <2>3 DEF Goto
  <2>4. CASE ~g
    <3>1. pc' = [pc EXCEPT ![c] = "reread"]
      BY <2>1, <2>4 DEF Goto
    <3>2. g = FALSE
      BY <2>1, <2>4 DEF DemonstrablyGone, OwnerIsGone
    <3>3. Refused(c)
      BY <1>1, <2>1, <2>2, <3>1, <3>2
    <3>4. QED
      BY <1>4, <2>2, <3>1, <3>3
  <2>5. QED
    BY <2>3, <2>4
<1>14. ASSUME NEW c \in Claims, Verify(c) PROVE Moves
  <2>1. PICK r \in Claims \union {NoRecord} : ReadOwner(r) /\ Goto(c, IF r = snap[c] THEN "rename" ELSE "reread")
    BY <1>14 DEF Verify
  <2>2. snap' = snap /\ lock' = lock /\ Alive(c) /\ pc[c] = "verify"
    BY <1>14 DEF Verify, fsVars
  <2>3. CASE r = snap[c]
    BY <1>3, <2>1, <2>2, <2>3 DEF Goto
  <2>4. CASE r # snap[c]
    <3>1. pc' = [pc EXCEPT ![c] = "reread"]
      BY <2>1, <2>4 DEF Goto
    <3>2. Refused(c)
      BY <1>1, <2>1, <2>2, <2>4, <3>1 DEF ReadOwner
    <3>3. QED
      BY <1>4, <2>2, <3>1, <3>2
  <2>5. QED
    BY <2>3, <2>4
<1>15. ASSUME NEW c \in Claims, Rename(c) PROVE Moves
  <2>1. snap[c] \in Claims /\ Alive(c) /\ pc[c] = "rename"
    BY <1>15, RenameCases
  <2>2. CASE lock # NoDir /\ (quarantine[snap[c]] = NoDir \/ quarantine[snap[c]].rec = NoRecord)
    BY <1>15, <1>3, <2>2 DEF Rename, Goto
  <2>3. CASE ~(lock # NoDir /\ (quarantine[snap[c]] = NoDir \/ quarantine[snap[c]].rec = NoRecord))
    <3>1. snap' = snap /\ lock' = lock /\ pc' = [pc EXCEPT ![c] = "reread"]
      BY <1>15, <2>3 DEF Rename, Goto
    <3>2. Refused(c)
      BY <1>1, <2>1, <2>3, <3>1
    <3>3. QED
      BY <1>4, <3>1, <3>2
  <2>4. QED
    BY <2>2, <2>3
<1>16. ASSUME NEW c \in Claims, Reread(c) PROVE Moves
  <2>1. PICK r \in Claims \union {NoRecord} : ReadOwner(r) /\ snap' = [snap EXCEPT ![c] = r]
    BY <1>16 DEF Reread
  <2>2. lock' = lock /\ Alive(c) /\ pc[c] = "reread" /\ pc' = [pc EXCEPT ![c] = "check"]
    BY <1>16 DEF Reread, fsVars, Goto
  <2>3. Reads(c)
    BY <1>1, <2>1, <2>2 DEF ReadOwner
  <2>4. QED
    BY <1>4, <2>1, <2>2, <2>3
<1>17. ASSUME NEW c \in Claims, Check(c) PROVE Moves
  <2>1. pc[c] = "check"
    BY <1>17, CheckCases
  <2>2. CASE (pc' = [pc EXCEPT ![c] = "mkdir"] \/ pc' = [pc EXCEPT ![c] = "failed"]) /\ snap' = [snap EXCEPT ![c] = NoRecord]
    BY <1>3, <2>2
  <2>3. CASE pc' = [pc EXCEPT ![c] = "recheck"] /\ snap' = snap
    <3>1. Stays(c)
      BY <1>1, <2>1, <2>3
    <3>2. QED
      BY <1>4, <2>3, <3>1
  <2>4. QED
    BY <1>17, <2>2, <2>3, CheckCases
<1>18. ASSUME NEW c \in Claims, Recheck(c) PROVE Moves
  BY <1>18, <1>3 DEF Recheck, Goto
<1>19. ASSUME NEW c \in Claims, Stat(c) PROVE Moves
  BY <1>19, <1>3 DEF Stat, Goto
<1>20. ASSUME NEW c \in Claims, Open(c) PROVE Moves
  BY <1>20, <1>3 DEF Open, Goto
<1>21. ASSUME NEW c \in Claims, Write(c) PROVE Moves
  BY <1>21, <1>3 DEF Write, Goto
<1>22. ASSUME NEW c \in Claims, ReleaseRead(c) PROVE Moves
  BY <1>22, <1>3 DEF ReleaseRead, Goto
<1>23. ASSUME NEW c \in Claims, ReleaseRename(c) PROVE Moves
  BY <1>23, <1>3 DEF ReleaseRename, Goto
<1>24. ASSUME NEW c \in Claims, ReleaseRemove(c) PROVE Moves
  BY <1>24, <1>3 DEF ReleaseRemove, Goto
<1>25. ASSUME NEW c \in Claims, RollbackRead(c) PROVE Moves
  BY <1>25, <1>3, RollbackRetries DEF RollbackRead, EndRollback, Goto
<1>26. ASSUME NEW c \in Claims, RollbackStat(c) PROVE Moves
  BY <1>26, <1>3, RollbackRetries DEF RollbackStat, EndRollback, Goto
<1>27. ASSUME NEW c \in Claims, RollbackRename(c) PROVE Moves
  BY <1>27, NoRollbackMove
<1>28. ASSUME NEW c \in Claims, RollbackRemove(c) PROVE Moves
  BY <1>28, NoRollbackMove
<1>29. ASSUME UNCHANGED vars PROVE Moves
  BY <1>29, <1>2 DEF vars, claimVars
<1>30. Moves
  BY <1>5, <1>6, <1>7, <1>8, <1>9, <1>10, <1>11, <1>12, <1>13, <1>14, <1>15, <1>16, <1>17, <1>18, <1>19, <1>20, <1>21, <1>22, <1>23, <1>24, <1>25, <1>26, <1>27, <1>28, <1>29 DEF Next, ClaimStep
<1>31. QED
  BY <1>30 DEF Moves

-----------------------------------------------------------------------------
(* The step of the role that touches the lock: a claim that timed out on a *)
(* lock that has gone is claimed once more.                                *)

Retries(c) ==
    /\ pc[c] = "failed" /\ lock = NoDir
    /\ Goto(c, "mkdir") /\ expired' = [expired EXCEPT ![c] = FALSE]
    /\ UNCHANGED <<fsVars, procVars, snap, made, claimed, fd, after, diag>>
    /\ role[c] = "acquire" /\ UNCHANGED <<role, gone, seen>>

\* Every other step of a request reads the lock and leaves it alone.
LEMMA RoleCases ==
    ASSUME [RoleNext]_allVars
    PROVE  \/ LockStep
           \/ \E c \in Claims : Retries(c)
           \/ UNCHANGED vars /\ gone' = gone
<1>1. ASSUME NEW c \in Claims, RoleStep(c)
      PROVE  (\E d \in Claims : Retries(d)) \/ (UNCHANGED vars /\ gone' = gone)
  <2>1. CASE LookAtAge(c)
    <3>1. CASE UNCHANGED <<pc, expired>>
      BY <2>1, <3>1 DEF LookAtAge, vars, claimVars
    <3>2. CASE lock = NoDir /\ Goto(c, "mkdir") /\ expired' = [expired EXCEPT ![c] = FALSE] /\ role' = role
      BY <2>1, <3>2 DEF LookAtAge, TimedOut, Retries
    <3>3. QED
      BY <2>1, <3>1, <3>2 DEF LookAtAge
  <2>2. CASE RejectStale(c) \/ AskStart(c) \/ Confirm(c) \/ AnswerHeld(c) \/ Settle(c)
    BY <2>2 DEF RejectStale, AskStart, Confirm, AnswerHeld, Settle
  <2>3. QED
    BY <1>1, <2>1, <2>2 DEF RoleStep
<1>2. CASE Age \/ UNCHANGED allVars
  BY <1>2 DEF Age, allVars, roleVars
<1>3. QED
  BY <1>1, <1>2 DEF RoleNext

\* A record at lockPath is what RecordAt names.
LEMMA RecordAtIs ==
    ASSUME RecordAt \in Claims
    PROVE  lock # NoDir /\ RecordAt = lock.rec
BY ClaimAssumption DEF RecordAt

\* A retry keeps the lock's invariant: nothing names its claim.
LEMMA RetryKeepsLock ==
    ASSUME LockInv, NamesAcquired, NEW c \in Claims, Retries(c)
    PROVE  LockInv'
<1>1. /\ pc[c] = "failed" /\ lock = NoDir
      /\ \A d \in Claims : pc'[d] = IF d = c THEN "mkdir" ELSE pc[d]
      /\ UNCHANGED <<lock, quarantine, remnant, nextDir, removals, status, held,
                     snap, made, claimed, fd, after, diag>>
  BY DEF Retries, Goto, LockInv, TypeOK, fsVars, procVars
<1>2. TypeOK'
  <2>1. pc' \in [Claims -> PCs] /\ expired' \in [Claims -> BOOLEAN]
    BY DEF Retries, Goto, LockInv, TypeOK, PCs
  <2>2. QED
    BY <1>1, <2>1 DEF LockInv, TypeOK
<1>3. ~HasAcquired(c)
  BY <1>1 DEF HasAcquired
<1>4. /\ \A d \in Claims : snap[d] # c
      /\ quarantine[c] = NoDir
  BY <1>3 DEF NamesAcquired
<1>5. PidsUnique' /\ ClaimantsStarted' /\ TokenHeld'
  BY <1>1 DEF LockInv, PidsUnique, ClaimantsStarted, TokenHeld, Alive
<1>6. SnapshotsSound' /\ RecordSound' /\ ReclaimFenced' /\ QuarantineSound'
  BY <1>1, <1>4 DEF LockInv, SnapshotsSound, MayHaveWritten, Over, RecordSound, ReclaimFenced, OwnRecordAt, QuarantineSound, Alive
<1>7. DirsFresh' /\ WriterAlone' /\ RemnantSound' /\ HolderKeepsRecord'
  BY <1>1 DEF LockInv, DirsFresh, WriterAlone, RemnantSound, HolderKeepsRecord, OwnRecordAt, Alive
<1>8. ClaimOwnsDir' /\ LostClaimMovesNothing'
  BY <1>1 DEF LockInv, ClaimOwnsDir, LostClaimMovesNothing, Claiming, Alive
<1>9. QED
  BY <1>2, <1>5, <1>6, <1>7, <1>8 DEF LockInv

\* LockInv holds under the role as it does under the lock alone.
LEMMA LockInvStep ==
    ASSUME LockInv, NamesAcquired, [RoleNext]_allVars
    PROVE  LockInv'
<1>1. CASE LockStep
  BY <1>1, NoWriteFaults, InvariantStep DEF LockStep
<1>2. CASE \E c \in Claims : Retries(c)
  BY <1>2, RetryKeepsLock
<1>3. CASE UNCHANGED vars
  BY <1>3, NoWriteFaults, InvariantStep
<1>4. QED
  BY <1>1, <1>2, <1>3, RoleCases

-----------------------------------------------------------------------------
(* The parts of RoleInv, one by one.                                       *)

\* Types of the role's own variables.
LEMMA RoleTypeStep ==
    ASSUME LockInv, RoleTypeOK, [RoleNext]_allVars
    PROVE  RoleTypeOK'
<1> USE DEF RoleTypeOK
<1>1. CASE LockStep
  <2>1. RecordAt # NoRecord => RecordAt \in Claims
    BY DEF RecordAt
  <2>2. gone' \in [Claims -> Claims \union {NoRecord}]
    BY <1>1, <2>1 DEF LockStep
  <2>3. QED
    BY <1>1, <2>2 DEF LockStep
<1>2. CASE Age
  <2>1. lock # NoDir => lock.dir \in Nat
    BY DEF LockInv, TypeOK, Dir
  <2>2. QED
    BY <1>2, <2>1 DEF Age
<1>3. ASSUME NEW c \in Claims, RoleStep(c) PROVE RoleTypeOK'
  <2> USE DEF Answers
  <2>1. CASE LookAtAge(c)
    BY <2>1 DEF LookAtAge, Becomes
  <2>2. CASE RejectStale(c)
    BY <2>2 DEF RejectStale, Becomes
  <2>3. CASE AskStart(c)
    BY <2>3 DEF AskStart, Becomes
  <2>4. CASE Confirm(c)
    BY <2>4 DEF Confirm, Becomes
  <2>5. CASE AnswerHeld(c)
    BY <2>5 DEF AnswerHeld, Becomes
  <2>6. CASE Settle(c)
    BY <2>6 DEF Settle, Becomes
  <2>7. QED
    BY <1>3, <2>1, <2>2, <2>3, <2>4, <2>5, <2>6 DEF RoleStep
<1>4. CASE UNCHANGED allVars
  BY <1>4 DEF allVars, roleVars
<1>5. QED
  BY <1>1, <1>2, <1>3, <1>4 DEF RoleNext

\* Whatever a name reaches, its claim has acquired before.
LEMMA NamesAcquiredStep ==
    ASSUME LockInv, NamesAcquired, [RoleNext]_allVars
    PROVE  NamesAcquired'
<1>1. CASE [Next]_vars
  <2>1. \A d \in Claims : HasAcquired(d) => HasAcquired(d)'
    BY <1>1, CounterMoves
  <2>2. RecordAt \in Claims => HasAcquired(RecordAt)
    BY RecordAtIs DEF NamesAcquired
  <2>3. RecordAt' \in Claims => HasAcquired(RecordAt)'
    <3>1. CASE RecordAt' \in {RecordAt, NoRecord}
      BY <2>1, <2>2, <3>1, ClaimAssumption
    <3>2. CASE \E o \in Claims : RecordAt' = o /\ pc'[o] = "held"
      BY <3>2 DEF HasAcquired
    <3>3. QED
      BY <1>1, <3>1, <3>2, RecordMoves
  <2>4. (lock # NoDir /\ lock.rec \in Claims => HasAcquired(lock.rec))'
    BY <2>3 DEF RecordAt
  <2>5. \A o \in Claims : quarantine'[o] # NoDir => HasAcquired(o)'
    BY <1>1, <2>1, <2>2, QuarantineMoves DEF NamesAcquired
  <2>6. \A c \in Claims : snap'[c] \in Claims => HasAcquired(snap[c])'
    BY <1>1, <2>1, <2>2, SnapMoves, ClaimAssumption DEF NamesAcquired
  <2>7. \A c \in Claims : diag'[c].owner \in Claims => HasAcquired(diag[c].owner)'
    BY <1>1, <2>1, <2>2, DiagMoves, ClaimAssumption DEF NamesAcquired
  <2>8. QED
    BY <2>4, <2>5, <2>6, <2>7 DEF NamesAcquired
<1>2. ASSUME NEW c \in Claims, Retries(c) PROVE NamesAcquired'
  <2>1. \A d \in Claims : HasAcquired(d)' <=> HasAcquired(d)
    BY <1>2 DEF Retries, Goto, HasAcquired, LockInv, TypeOK
  <2>2. UNCHANGED <<lock, quarantine, snap, diag>>
    BY <1>2 DEF Retries, fsVars
  <2>3. QED
    BY <2>1, <2>2 DEF NamesAcquired
<1>3. QED
  BY <1>1, <1>2, RoleCases DEF LockStep

\* A record that was put into quarantine stays away from lockPath.
LEMMA RecordMovedOnceStep ==
    ASSUME LockInv, NamesAcquired, RecordMovedOnce, [RoleNext]_allVars
    PROVE  RecordMovedOnce'
<1>1. CASE [Next]_vars
  <2>1. ASSUME NEW o \in Claims, quarantine'[o] # NoDir PROVE RecordAt' # o
    <3>1. CASE quarantine[o] # NoDir
      <4>1. RecordAt # o /\ HasAcquired(o)
        BY <3>1 DEF RecordMovedOnce, NamesAcquired
      <4>2. QED
        BY <1>1, <4>1, RecordMoves, ClaimAssumption DEF HasAcquired
    <3>2. CASE RecordAt' = NoRecord
      BY <3>2, ClaimAssumption
    <3>3. QED
      BY <1>1, <2>1, <3>1, <3>2, QuarantineMoves
  <2>2. QED
    BY <2>1 DEF RecordMovedOnce
<1>2. ASSUME NEW c \in Claims, Retries(c) PROVE RecordMovedOnce'
  BY <1>2 DEF Retries, fsVars, RecordMovedOnce, RecordAt
<1>3. QED
  BY <1>1, <1>2, RoleCases DEF LockStep

\* What stays as it is for a claim that has not begun.
LEMMA IdleMoves ==
    ASSUME LockInv, [Next]_vars, NEW c \in Claims, pc[c] = "idle", snap[c] = NoRecord
    PROVE  snap'[c] = NoRecord /\ diag'[c] = diag[c]
BY SnapMoves, DiagMoves

\* A request is answered once its acquisition has settled, and not before.
LEMMA AnswerSettledStep ==
    ASSUME LockInv, RoleTypeOK, AnswerSettled, [RoleNext]_allVars
    PROVE  AnswerSettled'
<1> DEFINE Told == {"confirm", "answer", "skipped", "staleOwner", "rejected"}
<1>1. CASE LockStep
  <2>0. [Next]_vars
    BY <1>1 DEF LockStep
  <2>1. ASSUME NEW c \in Claims
        PROVE  /\ role'[c] \in Told => pc'[c] = "failed"
               /\ role'[c] = "ran" => pc'[c] \in {"released", "abandoned"}
    BY <1>1, <2>0, CounterMoves DEF LockStep, AnswerSettled
  <2>2. ASSUME NEW c \in Claims, pc'[c] = "idle"
        PROVE  gone'[c] = NoRecord /\ diag'[c].owner = NoRecord /\ snap'[c] = NoRecord
    <3>1. pc[c] = "idle"
      BY <2>0, <2>2, CounterMoves
    <3>2. gone[c] = NoRecord /\ diag[c].owner = NoRecord /\ snap[c] = NoRecord
      BY <3>1 DEF AnswerSettled
    <3>3. gone'[c] = gone[c]
      BY <1>1, <2>2 DEF LockStep
    <3>4. QED
      BY <2>0, <3>1, <3>2, <3>3, IdleMoves
  <2>3. QED
    BY <2>1, <2>2 DEF AnswerSettled
<1>2. ASSUME NEW c \in Claims, Retries(c) PROVE AnswerSettled'
  BY <1>2 DEF Retries, Goto, AnswerSettled, LockInv, TypeOK
<1>3. ASSUME UNCHANGED <<pc, gone, diag, snap>>, NEW c \in Claims, NEW a, Becomes(c, a),
             a \in Told => pc[c] = "failed",
             a = "ran" => pc[c] \in {"released", "abandoned"}
      PROVE  AnswerSettled'
  BY <1>3 DEF Becomes, AnswerSettled, RoleTypeOK
<1>4. ASSUME UNCHANGED <<pc, gone, diag, snap, role>> PROVE AnswerSettled'
  BY <1>4 DEF AnswerSettled
<1>5. ASSUME NEW c \in Claims, RoleStep(c) PROVE AnswerSettled'
  <2>1. CASE LookAtAge(c)
    <3>1. CASE UNCHANGED pc
      <4>1. UNCHANGED <<pc, gone, diag, snap>> /\ pc[c] = "failed"
        BY <2>1, <3>1 DEF LookAtAge, TimedOut
      <4>2. Becomes(c, "answer") \/ Becomes(c, "rejected") \/ role' = role
        BY <2>1 DEF LookAtAge
      <4>3. QED
        BY <1>3, <1>4, <4>1, <4>2
    <3>2. CASE Goto(c, "mkdir") /\ role' = role
      <4>1. UNCHANGED <<gone, diag, snap>> /\ pc[c] = "failed" /\ role[c] = "acquire"
        BY <2>1 DEF LookAtAge, TimedOut
      <4>2. QED
        BY <3>2, <4>1 DEF Goto, AnswerSettled, LockInv, TypeOK
    <3>3. QED
      BY <2>1, <3>1, <3>2 DEF LookAtAge
  <2>2. CASE RejectStale(c)
    BY <2>2, <1>3 DEF RejectStale, TimedOut, vars, claimVars
  <2>3. CASE AskStart(c)
    <3>1. \E a \in {"confirm", "answer"} : Becomes(c, a)
      BY <2>3 DEF AskStart
    <3>2. UNCHANGED <<pc, gone, diag, snap>> /\ pc[c] = "failed"
      BY <2>3 DEF AskStart, TimedOut, vars, claimVars
    <3>3. QED
      BY <1>3, <3>1, <3>2
  <2>4. CASE Confirm(c)
    <3>1. \E a \in {"staleOwner", "answer"} : Becomes(c, a)
      BY <2>4 DEF Confirm
    <3>2. UNCHANGED <<pc, gone, diag, snap>> /\ role[c] = "confirm"
      BY <2>4 DEF Confirm, vars, claimVars
    <3>3. QED
      BY <1>3, <3>1, <3>2 DEF AnswerSettled
  <2>5. CASE AnswerHeld(c)
    <3>1. \E a \in {"skipped", "rejected"} : Becomes(c, a)
      BY <2>5 DEF AnswerHeld
    <3>2. UNCHANGED <<pc, gone, diag, snap>> /\ role[c] = "answer"
      BY <2>5 DEF AnswerHeld, vars, claimVars
    <3>3. QED
      BY <1>3, <3>1, <3>2 DEF AnswerSettled
  <2>6. CASE Settle(c)
    BY <2>6, <1>3 DEF Settle, vars, claimVars
  <2>7. QED
    BY <1>5, <2>1, <2>2, <2>3, <2>4, <2>5, <2>6 DEF RoleStep
<1>6. CASE Age \/ UNCHANGED allVars
  BY <1>4, <1>6 DEF Age, allVars, roleVars, vars, claimVars
<1>7. QED
  BY <1>1, <1>5, <1>6 DEF RoleNext

\* A record comes to lockPath only from a live claim that has not acquired.
LEMMA RecordStaysAway ==
    ASSUME LockInv, [Next]_vars, NEW o \in Claims, HasAcquired(o) \/ ~Alive(o), RecordAt # o
    PROVE  RecordAt' # o
BY RecordMoves, ClaimAssumption DEF HasAcquired

\* A claim at work was at work before, or begins.
LEMMA WasAlive ==
    ASSUME LockInv, [Next]_vars, NEW c \in Claims, pc[c] # "idle", Alive(c)'
    PROVE  Alive(c)
BY StatusMoves, ClaimAssumption DEF LockInv, ClaimantsStarted, Alive

\* The owner that was dead when the request began stays dead, and its record,
\* once replaced, stays away.
LEMMA GoneForGoodStep ==
    ASSUME LockInv, RoleTypeOK, NamesAcquired, AnswerSettled, GoneForGood, [RoleNext]_allVars
    PROVE  GoneForGood'
<1>1. CASE LockStep
  <2>0. [Next]_vars
    BY <1>1 DEF LockStep
  <2>1. ASSUME NEW c \in Claims, NEW o \in Claims, gone'[c] = o
        PROVE  /\ HasAcquired(o)' /\ status'[Proc[o]] = "dead"
               /\ snap'[c] \in Claims /\ snap'[c] # o => RecordAt' # o
    <3>1. CASE gone[c] = o
      <4>1. HasAcquired(o) /\ status[Proc[o]] = "dead"
        BY <3>1, ClaimAssumption DEF GoneForGood
      <4>2. HasAcquired(o)' /\ status'[Proc[o]] = "dead"
        BY <2>0, <4>1, CounterMoves, StatusMoves, ClaimAssumption
      <4>3. ASSUME snap'[c] \in Claims, snap'[c] # o PROVE RecordAt # o
        BY <2>0, <3>1, <4>3, SnapMoves, ClaimAssumption DEF GoneForGood
      <4>4. QED
        BY <2>0, <4>1, <4>2, <4>3, RecordStaysAway
    <3>2. CASE gone[c] # o
      <4>1. pc[c] = "idle" /\ RecordAt = o /\ ~Alive(o)
        BY <1>1, <2>1, <3>2 DEF LockStep
      <4>2. HasAcquired(o)
        BY <4>1, RecordAtIs DEF NamesAcquired
      <4>3. status[Proc[o]] = "dead"
        <5>1. pc[o] # "idle" /\ Proc[o] \in Procs
          BY <4>2, ClaimAssumption DEF HasAcquired
        <5>2. QED
          BY <4>1, <5>1 DEF LockInv, ClaimantsStarted, TypeOK, Alive
      <4>4. HasAcquired(o)' /\ status'[Proc[o]] = "dead"
        BY <2>0, <4>2, <4>3, CounterMoves, StatusMoves, ClaimAssumption
      <4>5. snap'[c] = NoRecord
        BY <2>0, <4>1, IdleMoves DEF AnswerSettled
      <4>6. QED
        BY <4>4, <4>5, ClaimAssumption
    <3>3. QED
      BY <3>1, <3>2
  <2>2. gone' \in [Claims -> Claims \union {NoRecord}]
    BY RoleTypeStep DEF RoleTypeOK
  <2>3. QED
    BY <2>1, <2>2 DEF GoneForGood
<1>2. ASSUME NEW c \in Claims, Retries(c) PROVE GoneForGood'
  <2>1. UNCHANGED <<lock, snap, gone, status>>
    BY <1>2 DEF Retries, fsVars, procVars
  <2>2. \A d \in Claims : HasAcquired(d)' <=> HasAcquired(d)
    BY <1>2 DEF Retries, Goto, HasAcquired, LockInv, TypeOK
  <2>3. gone \in [Claims -> Claims \union {NoRecord}]
    BY DEF RoleTypeOK
  <2>4. QED
    BY <2>1, <2>2, <2>3 DEF GoneForGood, RecordAt
<1>3. CASE UNCHANGED vars /\ gone' = gone
  BY <1>3 DEF GoneForGood, HasAcquired, RecordAt, vars, fsVars, procVars, claimVars
<1>4. QED
  BY <1>1, <1>2, <1>3, RoleCases

\* What a live process finds out about a dead owner that had its pid.
LEMMA OwnPidTells ==
    ASSUME ~ClockSteps, NEW c \in Claims, NEW o \in Claims, Alive(c),
           status[Proc[o]] = "dead", SameHost(Proc[c], o), Pid[Proc[o]] = Pid[Proc[c]]
    PROVE  FALSE \notin DemonstrablyGone(Proc[c], o)
<1>1. Proc[o] # Proc[c]
  BY DEF Alive
<1>2. OwnerIsGone(Proc[c], o) = {TRUE}
  BY <1>1 DEF OwnerIsGone
<1>3. QED
  BY <1>2 DEF DemonstrablyGone

\* Under its own pid a request reclaims the dead owner's record.
LEMMA OwnPidKnownStep ==
    ASSUME LockInv, RoleTypeOK, NamesAcquired, RecordMovedOnce, AnswerSettled, GoneForGood,
           OwnPidKnown, [RoleNext]_allVars
    PROVE  OwnPidKnown'
<1>1. CASE LockStep
  <2>0. [Next]_vars
    BY <1>1 DEF LockStep
  <2>1. ASSUME ~ClockSteps, NEW c \in Claims, NEW o \in Claims, gone'[c] = o,
               SameHost(Proc[c], o), Pid[Proc[o]] = Pid[Proc[c]]
        PROVE  /\ diag'[c].owner = o => ReadFaults /\ diag'[c].stale
               /\ ~ReadFaults /\ Alive(c)' /\ pc'[c] \in {"reread", "check", "recheck"} =>
                     RecordAt' # o /\ (pc'[c] # "reread" => snap'[c] # o)
    <3>1. CASE gone[c] # o
      <4>1. pc[c] = "idle"
        BY <1>1, <2>1, <3>1 DEF LockStep
      <4>2. pc'[c] \in {"idle", "mkdir"}
        BY <2>0, <4>1, BeginMoves
      <4>3. diag'[c].owner = NoRecord
        BY <2>0, <4>1, IdleMoves DEF AnswerSettled
      <4>4. QED
        BY <4>2, <4>3, ClaimAssumption
    <3>2. CASE gone[c] = o
      <4>1. HasAcquired(o) /\ status[Proc[o]] = "dead"
        BY <3>2, ClaimAssumption DEF GoneForGood
      <4>2. snap[c] \in Claims /\ snap[c] # o => RecordAt # o
        BY <3>2, ClaimAssumption DEF GoneForGood
      <4>3. /\ diag[c].owner = o => ReadFaults /\ diag[c].stale
            /\ ~ReadFaults /\ Alive(c) /\ pc[c] \in {"reread", "check", "recheck"} =>
                  RecordAt # o /\ (pc[c] # "reread" => snap[c] # o)
        BY <2>1, <3>2, ClaimAssumption DEF OwnPidKnown
      <4>4. Alive(c) => FALSE \notin DemonstrablyGone(Proc[c], o)
        BY <2>1, <4>1, OwnPidTells
      <4>5. ASSUME diag'[c].owner = o PROVE ReadFaults /\ diag'[c].stale
        <5>1. CASE diag'[c] = diag[c]
          BY <4>3, <4>5, <5>1
        <5>2. CASE Alive(c) /\ diag'[c].owner = snap[c] /\ FALSE \in DemonstrablyGone(Proc[c], snap[c])
          BY <4>4, <4>5, <5>2
        <5>3. CASE /\ Alive(c) /\ pc[c] = "recheck"
                   /\ diag'[c].owner \in {NoRecord, RecordAt}
                   /\ (diag'[c].stale <=> diag'[c].owner = snap[c])
          <6>1. RecordAt = o
            BY <4>5, <5>3, ClaimAssumption
          <6>2. snap[c] = o
            BY <4>2, <5>3, <6>1 DEF LockInv, SnapshotsSound
          <6>3. ReadFaults
            BY <4>3, <5>3, <6>1, ClaimAssumption
          <6>4. QED
            BY <4>5, <5>3, <6>2, <6>3
        <5>4. QED
          BY <2>0, <5>1, <5>2, <5>3, DiagMoves
      <4>6. ASSUME ~ReadFaults, Alive(c)', pc'[c] \in {"reread", "check", "recheck"}
            PROVE  RecordAt # o /\ (pc'[c] # "reread" => snap'[c] # o)
        <5>1. CASE /\ pc[c] \in {"reread", "check", "recheck"} /\ snap'[c] = snap[c]
                   /\ pc[c] = "reread" <=> pc'[c] = "reread"
          <6>1. Alive(c)
            BY <2>0, <4>6, <5>1, WasAlive
          <6>2. QED
            BY <4>3, <4>6, <5>1, <6>1
        <5>2. CASE /\ pc[c] \in {"read", "reread"} /\ Alive(c) /\ snap'[c] = RecordAt
                   /\ pc[c] = "read" => RecordAt = NoRecord
          <6>1. RecordAt # o
            BY <4>3, <4>6, <5>2, ClaimAssumption
          <6>2. QED
            BY <5>2, <6>1
        <5>3. CASE /\ pc[c] \in {"judge", "verify", "rename"} /\ pc'[c] = "reread" /\ Alive(c)
                   /\ pc[c] = "judge" => FALSE \in DemonstrablyGone(Proc[c], snap[c])
                   /\ pc[c] = "verify" => RecordAt # snap[c]
                   /\ pc[c] = "rename" => lock = NoDir \/ quarantine[snap[c]] # NoDir
          <6>1. snap[c] \in Claims
            BY <5>3 DEF LockInv, SnapshotsSound
          <6>2. CASE snap[c] = o
            BY <4>4, <5>3, <6>2, ClaimAssumption DEF RecordMovedOnce, RecordAt
          <6>3. CASE snap[c] # o
            BY <4>2, <5>3, <6>1, <6>3
          <6>4. QED
            BY <6>2, <6>3, <5>3
        <5>4. QED
          BY <2>0, <4>6, <5>1, <5>2, <5>3, LookMoves
      <4>7. QED
        BY <2>0, <4>1, <4>5, <4>6, RecordStaysAway
    <3>3. QED
      BY <3>1, <3>2
  <2>2. gone' \in [Claims -> Claims \union {NoRecord}]
    BY RoleTypeStep DEF RoleTypeOK
  <2>3. QED
    BY <2>1, <2>2 DEF OwnPidKnown, SameHost, Alive
<1>2. ASSUME NEW c \in Claims, Retries(c) PROVE OwnPidKnown'
  <2>1. UNCHANGED <<lock, snap, gone, status, diag>>
    BY <1>2 DEF Retries, fsVars, procVars
  <2>2. \A d \in Claims : pc'[d] = IF d = c THEN "mkdir" ELSE pc[d]
    BY <1>2 DEF Retries, Goto, LockInv, TypeOK
  <2>3. QED
    BY <2>1, <2>2 DEF OwnPidKnown, RecordAt, Alive
<1>3. CASE UNCHANGED vars /\ gone' = gone
  BY <1>3 DEF OwnPidKnown, Alive, RecordAt, vars, fsVars, procVars, claimVars
<1>4. QED
  BY <1>1, <1>2, <1>3, RoleCases

\* A claim that timed out keeps its diagnosis.
LEMMA FailedKeepsDiag ==
    ASSUME LockInv, [Next]_vars, NEW c \in Claims, pc[c] = "failed"
    PROVE  diag'[c] = diag[c]
BY DiagMoves

\* The owner in a diagnosis has acquired, so its process was started.
LEMMA DiagnosedHasStarted ==
    ASSUME LockInv, NamesAcquired, NEW c \in Claims, diag[c].owner # NoRecord
    PROVE  diag[c].owner \in Claims /\ status[Proc[diag[c].owner]] # "unborn"
<1>1. diag[c] \in [owner : Claims \union {NoRecord}, stale : BOOLEAN]
  BY DEF LockInv, TypeOK
<1>2. diag[c].owner \in Claims
  BY <1>1
<1>3. QED
  BY <1>2 DEF NamesAcquired, HasAcquired, LockInv, ClaimantsStarted

\* A younger process with the owner's pid is another one, so the owner died.
LEMMA YoungerTells ==
    ASSUME LockInv, ~ClockSteps, NEW p \in Procs, NEW o \in Claims, SameHost(p, o),
           status[Proc[o]] # "unborn", TRUE \in StartedAfterClaim(p, o)
    PROVE  status[Proc[o]] = "dead"
<1>1. PICK q \in Procs : status[q] = "alive" /\ Host[q] = Host[p] /\ Pid[q] = Pid[Proc[o]] /\ q # Proc[o]
  BY DEF StartedAfterClaim
<1>2. Proc[o] \in Procs /\ Host[q] = Host[Proc[o]]
  BY <1>1, ClaimAssumption DEF SameHost
<1>3. QED
  BY <1>1, <1>2 DEF LockInv, TypeOK, PidsUnique

\* Nobody is suspected while its process lives.
LEMMA SuspectDeadStep ==
    ASSUME LockInv, RoleTypeOK, NamesAcquired, AnswerSettled, SuspectDead, [RoleNext]_allVars
    PROVE  SuspectDead'
<1>1. ASSUME [Next]_vars, role' = role PROVE SuspectDead'
  <2>1. ASSUME NEW c \in Claims, role'[c] \in {"confirm", "staleOwner"}
        PROVE  diag'[c].owner \in Claims /\ (~ClockSteps => status'[Proc[diag'[c].owner]] = "dead")
    <3>1. diag[c].owner \in Claims /\ (~ClockSteps => status[Proc[diag[c].owner]] = "dead")
      BY <1>1, <2>1 DEF SuspectDead
    <3>2. diag'[c] = diag[c]
      BY <1>1, <2>1, FailedKeepsDiag DEF AnswerSettled
    <3>3. Proc[diag[c].owner] \in Procs
      BY <3>1, ClaimAssumption
    <3>4. QED
      BY <1>1, <3>1, <3>2, <3>3, StatusMoves
  <2>2. QED
    BY <2>1 DEF SuspectDead
<1>2. ASSUME NEW c \in Claims, Retries(c) PROVE SuspectDead'
  BY <1>2 DEF Retries, procVars, SuspectDead
<1>3. ASSUME UNCHANGED <<status, diag>>, NEW c \in Claims, NEW a, Becomes(c, a),
             a \in {"confirm", "staleOwner"} =>
                 diag[c].owner \in Claims /\ (~ClockSteps => status[Proc[diag[c].owner]] = "dead")
      PROVE  SuspectDead'
  BY <1>3 DEF Becomes, SuspectDead, RoleTypeOK
<1>4. ASSUME NEW c \in Claims, RoleStep(c) PROVE SuspectDead'
  <2>1. CASE LookAtAge(c)
    <3>1. UNCHANGED <<status, diag>>
      BY <2>1 DEF LookAtAge, procVars
    <3>2. Becomes(c, "answer") \/ Becomes(c, "rejected") \/ role' = role
      BY <2>1 DEF LookAtAge
    <3>3. QED
      BY <1>3, <3>1, <3>2 DEF SuspectDead
  <2>2. CASE RejectStale(c)
    BY <2>2, <1>3 DEF RejectStale, vars, procVars, claimVars
  <2>3. CASE AskStart(c)
    <3> DEFINE o == diag[c].owner
    <3>1. o \in Claims /\ status[Proc[o]] # "unborn"
      BY <2>3, DiagnosedHasStarted DEF AskStart, Malformed
    <3>2. \/ Becomes(c, "answer")
          \/ \E younger \in IF SameHost(Proc[c], o) /\ Pid[Proc[o]] # Pid[Proc[c]]
                             THEN StartedAfterClaim(Proc[c], o) ELSE {FALSE} :
                Becomes(c, IF younger THEN "confirm" ELSE "answer")
      BY <2>3 DEF AskStart
    <3>3. UNCHANGED <<status, diag>>
      BY <2>3 DEF AskStart, vars, procVars, claimVars
    <3> HIDE DEF o
    <3>4. CASE Becomes(c, "answer")
      BY <1>3, <3>3, <3>4
    <3>5. CASE ~Becomes(c, "answer")
      <4>1. PICK younger \in IF SameHost(Proc[c], o) /\ Pid[Proc[o]] # Pid[Proc[c]]
                             THEN StartedAfterClaim(Proc[c], o) ELSE {FALSE} :
               Becomes(c, IF younger THEN "confirm" ELSE "answer")
        BY <3>2, <3>5
      <4>2. Becomes(c, "confirm") /\ SameHost(Proc[c], o) /\ younger \in StartedAfterClaim(Proc[c], o)
        BY <3>5, <4>1
      <4>3. younger = TRUE
        BY <3>5, <4>1, <4>2 DEF StartedAfterClaim
      <4>4. ~ClockSteps => status[Proc[o]] = "dead"
        BY <3>1, <4>2, <4>3, YoungerTells, ClaimAssumption
      <4>5. QED
        BY <1>3, <3>1, <3>3, <4>2, <4>4 DEF o
    <3>6. QED
      BY <3>4, <3>5
  <2>4. CASE Confirm(c)
    <3>1. UNCHANGED <<status, diag>> /\ role[c] = "confirm"
      BY <2>4 DEF Confirm, vars, procVars, claimVars
    <3>2. \E a \in {"staleOwner", "answer"} : Becomes(c, a)
      BY <2>4 DEF Confirm
    <3>3. QED
      BY <1>3, <3>1, <3>2 DEF SuspectDead
  <2>5. CASE AnswerHeld(c)
    <3>1. UNCHANGED <<status, diag>>
      BY <2>5 DEF AnswerHeld, vars, procVars, claimVars
    <3>2. \E a \in {"skipped", "rejected"} : Becomes(c, a)
      BY <2>5 DEF AnswerHeld
    <3>3. QED
      BY <1>3, <3>1, <3>2
  <2>6. CASE Settle(c)
    BY <2>6, <1>3 DEF Settle, vars, procVars, claimVars
  <2>7. QED
    BY <1>4, <2>1, <2>2, <2>3, <2>4, <2>5, <2>6 DEF RoleStep
<1>5. CASE LockStep \/ Age \/ UNCHANGED allVars
  BY <1>1, <1>5 DEF LockStep, Age, allVars, roleVars
<1>6. QED
  BY <1>4, <1>5 DEF RoleNext

\* The processes a request has seen had been started.
LEMMA SeenStep ==
    ASSUME LockInv, RoleTypeOK, \A c \in Claims : \A q \in seen[c] : status[q] # "unborn", [RoleNext]_allVars
    PROVE  \A c \in Claims : \A q \in seen'[c] : status'[q] # "unborn"
<1>1. ASSUME [Next]_vars, seen' = seen PROVE \A c \in Claims : \A q \in seen'[c] : status'[q] # "unborn"
  BY <1>1, StatusMoves DEF RoleTypeOK
<1>2. ASSUME NEW c \in Claims, AskStart(c) PROVE \A d \in Claims : \A q \in seen'[d] : status'[q] # "unborn"
  <2>1. status' = status /\ \E those \in SUBSET {q \in Procs : status[q] # "unborn"} :
                               seen' = [seen EXCEPT ![c] = those]
    BY <1>2 DEF AskStart, vars, procVars
  <2>2. QED
    BY <2>1 DEF RoleTypeOK
<1>3. ASSUME NEW c \in Claims, RoleStep(c), ~AskStart(c) PROVE UNCHANGED <<seen, status>>
  BY <1>3 DEF RoleStep, LookAtAge, RejectStale, Confirm, AnswerHeld, Settle, vars, procVars
<1>4. CASE LockStep \/ Age \/ UNCHANGED allVars
  BY <1>1, <1>4 DEF LockStep, Age, allVars, roleVars
<1>5. QED
  BY <1>2, <1>3, <1>4 DEF RoleNext

\* What a request that skipped, or is about to, knows of the dead holder.
NothingToSuspect(c) ==
    LET o == gone[c]
    IN  /\ role[c] \in {"answer", "skipped"}
        /\ o # NoRecord /\ diag[c].owner = o /\ RecordAt = o
        => /\ role[c] = "skipped" => SameHost(Proc[c], o)
           /\ SameHost(Proc[c], o) =>
                 ~\E q \in seen[c] : /\ status[q] = "alive" /\ Host[q] = Host[Proc[o]]
                                    /\ Pid[q] = Pid[Proc[o]]

\* A request about whose holder another live process might be asked never
\* gets past the question.
LEMMA NothingToSuspectStep ==
    ASSUME LockInv, RoleTypeOK, NamesAcquired, AnswerSettled, GoneForGood, OwnPidKnown, NobodyToSuspect,
           [RoleNext]_allVars, ~ReadFaults, ~ClockSteps, ~SubSecond, NEW d \in Claims
    PROVE  NothingToSuspect(d)'
<1>0. NothingToSuspect(d) /\ seen[d] \subseteq Procs /\ \A q \in seen[d] : status[q] # "unborn"
  BY DEF NobodyToSuspect, NothingToSuspect, RoleTypeOK
<1>1. ASSUME [Next]_vars, UNCHANGED <<role, seen>>, pc[d] # "idle" => gone'[d] = gone[d]
      PROVE  NothingToSuspect(d)'
  <2> SUFFICES ASSUME role'[d] \in {"answer", "skipped"}, gone'[d] # NoRecord,
                      diag'[d].owner = gone'[d], RecordAt' = gone'[d]
               PROVE  /\ role'[d] = "skipped" => SameHost(Proc[d], gone'[d])
                      /\ SameHost(Proc[d], gone'[d]) =>
                            ~\E q \in seen'[d] : /\ status'[q] = "alive" /\ Host[q] = Host[Proc[gone'[d]]]
                                                /\ Pid[q] = Pid[Proc[gone'[d]]]
    BY DEF NothingToSuspect, SameHost
  <2>1. pc[d] = "failed"
    BY <1>1 DEF AnswerSettled
  <2>2. gone'[d] = gone[d] /\ diag'[d] = diag[d]
    BY <1>1, <2>1, FailedKeepsDiag
  <2>3. gone[d] \in Claims
    BY <2>2 DEF RoleTypeOK
  <2>4. HasAcquired(gone[d])
    BY <2>2, <2>3 DEF GoneForGood
  <2>5. RecordAt = gone[d]
    BY <1>1, <2>2, <2>3, <2>4, RecordStaysAway
  <2>6. \A q \in seen[d] : status'[q] = "alive" => status[q] = "alive"
    BY <1>0, <1>1, StatusMoves
  <2>7. QED
    BY <1>0, <1>1, <2>2, <2>5, <2>6 DEF NothingToSuspect
<1>2. ASSUME NEW c \in Claims, NEW a, Becomes(c, a), UNCHANGED <<lock, status, diag, gone>>,
             UNCHANGED seen \/ \E those : seen' = [seen EXCEPT ![c] = those],
             c = d => NothingToSuspect(d)'
      PROVE  NothingToSuspect(d)'
  <2>1. CASE c # d
    <3>1. role'[d] = role[d] /\ seen'[d] = seen[d]
      BY <1>2, <2>1 DEF Becomes, RoleTypeOK
    <3>2. QED
      BY <1>0, <1>2, <3>1 DEF NothingToSuspect, RecordAt
  <2>2. QED
    BY <1>2, <2>1
<1>3. ASSUME NEW c \in Claims, RoleStep(c) PROVE NothingToSuspect(d)'
  <2>1. CASE LookAtAge(c)
    <3>1. UNCHANGED <<lock, status, diag, gone, seen>> /\ diag[c].owner = NoRecord
      BY <2>1 DEF LookAtAge, fsVars, procVars, Malformed
    <3>2. Becomes(c, "answer") \/ Becomes(c, "rejected") \/ role' = role
      BY <2>1 DEF LookAtAge
    <3>3. CASE role' = role
      BY <1>0, <3>1, <3>3 DEF NothingToSuspect, RecordAt
    <3>4. c = d => NothingToSuspect(d)'
      BY <3>1 DEF NothingToSuspect
    <3>5. QED
      BY <1>2, <3>1, <3>2, <3>3, <3>4
  <2>2. CASE RejectStale(c)
    <3>1. Becomes(c, "rejected") /\ UNCHANGED <<lock, status, diag, gone, seen>>
      BY <2>2 DEF RejectStale, vars, fsVars, procVars, claimVars
    <3>2. c = d => NothingToSuspect(d)'
      BY <3>1 DEF NothingToSuspect, Becomes, RoleTypeOK
    <3>3. QED
      BY <1>2, <3>1, <3>2
  <2>3. CASE AskStart(c)
    <3> DEFINE o == diag[c].owner
    <3>1. UNCHANGED <<lock, status, diag, gone>>
      BY <2>3 DEF AskStart, vars, fsVars, procVars, claimVars
    <3>0. CASE Becomes(c, "answer") /\ seen' = [seen EXCEPT ![c] = {}]
      <4>1. role'[c] = "answer" /\ seen'[c] = {}
        BY <3>0 DEF Becomes, RoleTypeOK
      <4>2. c = d => NothingToSuspect(d)'
        BY <4>1 DEF NothingToSuspect
      <4>3. QED
        BY <1>2, <3>0, <3>1, <4>2
    <3> SUFFICES ASSUME ~(Becomes(c, "answer") /\ seen' = [seen EXCEPT ![c] = {}])
                 PROVE  NothingToSuspect(d)'
      BY <3>0
    <3>2. /\ seen' = [seen EXCEPT ![c] = {q \in Procs : status[q] # "unborn"}]
          /\ \E younger \in IF SameHost(Proc[c], o) /\ Pid[Proc[o]] # Pid[Proc[c]]
                             THEN StartedAfterClaim(Proc[c], o) ELSE {FALSE} :
                Becomes(c, IF younger THEN "confirm" ELSE "answer")
      BY <2>3 DEF AskStart
    <3>3. PICK younger \in IF SameHost(Proc[c], o) /\ Pid[Proc[o]] # Pid[Proc[c]]
                           THEN StartedAfterClaim(Proc[c], o) ELSE {FALSE} :
             Becomes(c, IF younger THEN "confirm" ELSE "answer")
      BY <3>2
    <3> HIDE DEF o
    <3>4. CASE younger
      <4>1. Becomes(c, "confirm")
        BY <3>3, <3>4
      <4>2. c = d => NothingToSuspect(d)'
        BY <4>1 DEF NothingToSuspect, Becomes, RoleTypeOK
      <4>3. QED
        BY <1>2, <3>1, <3>2, <4>1, <4>2
    <3>5. CASE ~younger
      <4>1. Becomes(c, "answer")
        BY <3>3, <3>5
      <4>2. ASSUME c = d, gone[c] # NoRecord, o = gone[c], SameHost(Proc[c], o),
                   NEW q \in Procs, status[q] = "alive", Host[q] = Host[Proc[o]], Pid[q] = Pid[Proc[o]]
            PROVE  FALSE
        <5>1. o \in Claims /\ status[Proc[o]] = "dead"
          BY <4>2 DEF GoneForGood, RoleTypeOK
        <5>2. Pid[Proc[o]] # Pid[Proc[c]]
          BY <4>2 DEF OwnPidKnown, o
        <5>3. younger \in StartedAfterClaim(Proc[c], o)
          BY <3>3, <4>2, <5>2
        <5>4. StartedAfterClaim(Proc[c], o) = {TRUE}
          BY <4>2, <5>1 DEF StartedAfterClaim, SameHost
        <5>5. QED
          BY <3>5, <5>3, <5>4
      <4>3. role'[c] = "answer" /\ seen'[c] = {q \in Procs : status[q] # "unborn"}
        BY <3>2, <4>1 DEF Becomes, RoleTypeOK
      <4>4. c = d => NothingToSuspect(d)'
        BY <3>1, <4>2, <4>3 DEF NothingToSuspect, o, SameHost
      <4>5. QED
        BY <1>2, <3>1, <3>2, <4>1, <4>4
    <3>6. QED
      BY <3>4, <3>5
  <2>4. CASE Confirm(c)
    <3>1. UNCHANGED <<lock, status, diag, gone, seen>>
      BY <2>4 DEF Confirm, vars, fsVars, procVars, claimVars
    <3>2. Becomes(c, "staleOwner") \/ (Becomes(c, "answer") /\ RecordAt # diag[c].owner)
      BY <2>4 DEF Confirm
    <3>3. c = d => NothingToSuspect(d)'
      BY <3>1, <3>2 DEF NothingToSuspect, Becomes, RoleTypeOK, RecordAt
    <3>4. QED
      BY <1>2, <3>1, <3>2, <3>3
  <2>5. CASE AnswerHeld(c)
    <3>1. UNCHANGED <<lock, status, diag, gone, seen>> /\ role[c] = "answer"
      BY <2>5 DEF AnswerHeld, vars, fsVars, procVars, claimVars
    <3>2. \/ Becomes(c, "rejected")
          \/ Becomes(c, "skipped") /\ (diag[c].owner # NoRecord => SameHost(Proc[c], diag[c].owner))
      BY <2>5 DEF AnswerHeld, Malformed
    <3>3. role'[c] = "rejected" \/ (role'[c] = "skipped" /\ (diag[c].owner # NoRecord => SameHost(Proc[c], diag[c].owner)))
      BY <3>2 DEF Becomes, RoleTypeOK
    <3>4. c = d => NothingToSuspect(d)'
      BY <1>0, <3>1, <3>3 DEF NothingToSuspect, RecordAt
    <3>5. QED
      BY <1>2, <3>1, <3>2, <3>4
  <2>6. CASE Settle(c)
    <3>1. Becomes(c, "ran") /\ UNCHANGED <<lock, status, diag, gone, seen>>
      BY <2>6 DEF Settle, vars, fsVars, procVars, claimVars
    <3>2. c = d => NothingToSuspect(d)'
      BY <3>1 DEF NothingToSuspect, Becomes, RoleTypeOK
    <3>3. QED
      BY <1>2, <3>1, <3>2
  <2>7. QED
    BY <1>3, <2>1, <2>2, <2>3, <2>4, <2>5, <2>6 DEF RoleStep
<1>4. CASE LockStep
  <2>1. pc[d] # "idle" => gone'[d] = gone[d]
    BY <1>4 DEF LockStep
  <2>2. QED
    BY <1>1, <1>4, <2>1 DEF LockStep
<1>5. CASE Age \/ UNCHANGED allVars
  BY <1>1, <1>5 DEF Age, allVars, roleVars
<1>6. QED
  BY <1>3, <1>4, <1>5 DEF RoleNext

-----------------------------------------------------------------------------

\* RoleInv is inductive.
LEMMA RoleInvStep == RoleInv /\ [RoleNext]_allVars => RoleInv'
<1> SUFFICES ASSUME RoleInv, [RoleNext]_allVars PROVE RoleInv'
  OBVIOUS
<1>1. /\ RoleTypeOK /\ LockInv /\ NamesAcquired /\ RecordMovedOnce /\ AnswerSettled
      /\ GoneForGood /\ OwnPidKnown /\ SuspectDead /\ NobodyToSuspect
  BY DEF RoleInv
<1>2. RoleTypeOK' /\ LockInv' /\ NamesAcquired' /\ RecordMovedOnce' /\ AnswerSettled'
  BY <1>1, RoleTypeStep, LockInvStep, NamesAcquiredStep, RecordMovedOnceStep, AnswerSettledStep
<1>3. GoneForGood' /\ OwnPidKnown' /\ SuspectDead'
  BY <1>1, GoneForGoodStep, OwnPidKnownStep, SuspectDeadStep
<1>4. NobodyToSuspect'
  <2>1. \A c \in Claims : \A q \in seen'[c] : status'[q] # "unborn"
    BY <1>1, SeenStep DEF NobodyToSuspect
  <2>2. ~ReadFaults /\ ~ClockSteps /\ ~SubSecond => \A c \in Claims : NothingToSuspect(c)'
    BY <1>1, NothingToSuspectStep
  <2>3. QED
    BY <2>1, <2>2 DEF NobodyToSuspect, NothingToSuspect
<1>5. QED
  BY <1>2, <1>3, <1>4 DEF RoleInv

\* No request has begun.
LEMMA RoleInvInit == RoleInit => RoleInv
<1> SUFFICES ASSUME RoleInit PROVE RoleInv
  OBVIOUS
<1>1. LockInv
  BY InvariantInit DEF RoleInit
<1>2. RoleTypeOK
  BY DEF RoleInit, RoleTypeOK
<1>3. /\ lock = NoDir /\ \A c \in Claims : quarantine[c] = NoDir
      /\ \A c \in Claims : pc[c] = "idle" /\ snap[c] = NoRecord /\ diag[c].owner = NoRecord
      /\ \A c \in Claims : role[c] = "acquire" /\ gone[c] = NoRecord /\ seen[c] = {}
  BY DEF RoleInit, Init
<1>4. NamesAcquired /\ RecordMovedOnce /\ AnswerSettled /\ GoneForGood
  BY <1>3, ClaimAssumption DEF NamesAcquired, RecordMovedOnce, AnswerSettled, GoneForGood
<1>5. OwnPidKnown /\ SuspectDead /\ NobodyToSuspect
  BY <1>3 DEF OwnPidKnown, SuspectDead, NobodyToSuspect
<1>6. QED
  BY <1>1, <1>2, <1>4, <1>5 DEF RoleInv

\* The inductive invariant of the push role over its lock, for every set of
\* requests and processes, with every fault a request meets.
THEOREM RoleInvariance == RoleSpec => []RoleInv
<1>1. QED
  BY RoleInvStep, RoleInvInit, PTL DEF RoleSpec

\* The variables of the lock and of the role keep their types under the role.
THEOREM RoleTypeCorrect == RoleSpec => [](TypeOK /\ RoleTypeOK)
<1>1. RoleInv => TypeOK /\ RoleTypeOK
  BY DEF RoleInv, LockInv
<1>2. QED
  BY <1>1, RoleInvariance, PTL

\* The retry of acquireSettled, which claims again under the token of the
\* claim that timed out, does not cost the lock its exclusion: no two live
\* processes run their callback under the role at once.
THEOREM RoleExclusion == RoleSpec => []MutualExclusion
<1>1. RoleInv => MutualExclusion
  BY DEF RoleInv, LockInv, HolderKeepsRecord, OwnRecordAt, MutualExclusion
<1>2. QED
  BY <1>1, RoleInvariance, PTL

\* With exact clocks a restarted process under the dead holder's pid reclaims.
THEOREM Reclaims ==
    ASSUME ~ClockSteps
    PROVE  RoleSpec => []RestartReclaims
<1>1. RoleInv => RestartReclaims
  BY DEF RoleInv, OwnPidKnown, RestartReclaims
<1>2. QED
  BY <1>1, RoleInvariance, PTL

\* With exact clocks, readable records and a pid that is not reused within
\* the resolution of a start time, a dead holder is not skipped in silence by
\* a request whose host answered its question.
THEOREM NeverSkips ==
    ASSUME ~ReadFaults, ~ClockSteps, ~SubSecond
    PROVE  RoleSpec => []DeadHolderNeverSkipped
<1>1. RoleInv => DeadHolderNeverSkipped
  <2> SUFFICES ASSUME RoleInv, NEW c \in Claims, role[c] = "skipped", gone[c] # NoRecord,
                      diag[c].owner = gone[c], OwnRecordAt(lock, gone[c])
               PROVE  ~\E q \in seen[c] : /\ status[q] = "alive" /\ Host[q] = Host[Proc[gone[c]]]
                                          /\ Pid[q] = Pid[Proc[gone[c]]]
    BY DEF DeadHolderNeverSkipped
  <2>1. gone[c] \in Claims
    BY DEF RoleInv, RoleTypeOK
  <2>2. RecordAt = gone[c]
    BY <2>1 DEF RecordAt, OwnRecordAt
  <2>3. QED
    BY <2>2 DEF RoleInv, NobodyToSuspect
<1>2. QED
  BY <1>1, RoleInvariance, PTL

\* With exact clocks the owner a request blames is dead and still on record.
THEOREM BlameIsRight ==
    ASSUME ~ClockSteps
    PROVE  RoleSpec => BlamedHolderIsDead
<1> DEFINE Right(c) == role[c] # "staleOwner" /\ role'[c] = "staleOwner" =>
                          RecordAt = diag[c].owner /\ status[Proc[diag[c].owner]] = "dead"
<1>1. ASSUME RoleInv, [RoleNext]_allVars, NEW c \in Claims, role[c] # "staleOwner", role'[c] = "staleOwner"
      PROVE  RecordAt = diag[c].owner /\ status[Proc[diag[c].owner]] = "dead"
  <2>1. role \in [Claims -> {"acquire", "confirm", "answer"} \union Answers]
    BY <1>1 DEF RoleInv, RoleTypeOK
  <2>2. ASSUME NEW d \in Claims, NEW a, Becomes(d, a), a # "staleOwner" PROVE FALSE
    BY <1>1, <2>1, <2>2 DEF Becomes
  <2>3. PICK d \in Claims : RoleStep(d)
    BY <1>1 DEF RoleNext, LockStep, Age, allVars, roleVars
  <2>4. Confirm(d)
    <3>1. ~LookAtAge(d)
      BY <1>1, <2>2 DEF LookAtAge
    <3>2. ~RejectStale(d) /\ ~AnswerHeld(d) /\ ~Settle(d)
      BY <2>2 DEF RejectStale, AnswerHeld, Settle
    <3>3. ~AskStart(d)
      BY <2>2 DEF AskStart
    <3>4. QED
      BY <2>3, <3>1, <3>2, <3>3 DEF RoleStep
  <2>5. RecordAt = diag[d].owner /\ role[d] = "confirm" /\ Becomes(d, "staleOwner")
    BY <2>2, <2>4 DEF Confirm
  <2>6. d = c
    BY <1>1, <2>1, <2>5 DEF Becomes
  <2>7. QED
    BY <1>1, <2>5, <2>6 DEF RoleInv, SuspectDead
<1>2. RoleInv /\ [RoleNext]_allVars => [\A c \in Claims : Right(c)]_allVars
  BY <1>1
<1>3. QED
  BY <1>2, RoleInvariance, PTL DEF RoleSpec, BlamedHolderIsDead

=============================================================================
