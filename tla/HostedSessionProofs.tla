------------------------ MODULE HostedSessionProofs ------------------------
(***************************************************************************)
(* Theorems about HostedSession, for every number of processes and every   *)
(* bound on faults, calls and ages.  Only the holder of the session's lock *)
(* is at a station where it reads or writes the session, so each part of   *)
(* SessionInv is an argument about one command and the issuer.             *)
(***************************************************************************)
EXTENDS HostedSession, SequenceTheorems, TLAPS

\* Only p's command moves.
Others(p) == \A q \in Procs : q # p => cmd'[q] = cmd[q]

Outside == {"idle", "browse", "want"}

-----------------------------------------------------------------------------
(* The control operators, field by field.                                  *)

\* A command that ended is idle and forgets; its lock is free.
LEMMA EndMoves ==
    ASSUME TypeOK, NEW p \in Procs, End(p)
    PROVE  /\ Others(p)
           /\ cmd'[p] = [pc |-> "idle", kind |-> "command", hand |-> NoToken,
                         tries |-> 0, inTime |-> FALSE]
           /\ lock = p => lock' = NoProc
           /\ lock # p => lock' = lock
           /\ cmd' \in [Procs -> Commands]
           /\ lock' \in Procs \union {NoProc}
BY DEF End, TypeOK, Others, Running, Commands, Labels, Kinds

\* Goto changes the station and nothing else.
LEMMA GotoMoves ==
    ASSUME TypeOK, NEW p \in Procs, NEW l \in Labels, Goto(p, l)
    PROVE  /\ Others(p)
           /\ cmd'[p].pc = l /\ cmd'[p].kind = cmd[p].kind /\ cmd'[p].hand = cmd[p].hand
           /\ lock' = lock
           /\ cmd' \in [Procs -> Commands]
           /\ lock' \in Procs \union {NoProc}
BY DEF Goto, TypeOK, Others, Commands

\* GotoWith changes the station and the token in hand.
LEMMA GotoWithMoves ==
    ASSUME TypeOK, NEW p \in Procs, NEW l \in Labels, NEW t \in Tokens, GotoWith(p, l, t)
    PROVE  /\ Others(p)
           /\ cmd'[p].pc = l /\ cmd'[p].kind = cmd[p].kind /\ cmd'[p].hand = t
           /\ lock' = lock
           /\ cmd' \in [Procs -> Commands]
           /\ lock' \in Procs \union {NoProc}
BY DEF GotoWith, TypeOK, Others, Commands

-----------------------------------------------------------------------------
(* The issuer's operations on its families.                                *)

\* The families are a function on 1 .. Len(fam).
LEMMA FamShape ==
    ASSUME TypeOK
    PROVE  /\ Len(fam) \in Nat /\ DOMAIN fam = 1 .. Len(fam)
           /\ \A f \in DOMAIN fam : fam[f] \in Families
BY DEF TypeOK

\* One family is changed.
LEMMA ChangedFam ==
    ASSUME TypeOK, NEW f \in DOMAIN fam, NEW r \in Families, NEW g, g = [fam EXCEPT ![f] = r]
    PROVE  /\ g \in Seq(Families) /\ DOMAIN g = DOMAIN fam /\ g[f] = r
           /\ \A e \in DOMAIN fam : e # f => g[e] = fam[e]
<1>1. g \in Seq(Families)
  BY FamShape, ExceptSeq DEF TypeOK
<1>2. QED
  BY <1>1, FamShape

\* A rotation moves the newest generation of one family.
LEMMA RotatedFam ==
    ASSUME TypeOK, NEW t \in Tokens, t.fam \in DOMAIN fam, NEW g, g = Rotated(t)
    PROVE  /\ g \in Seq(Families) /\ DOMAIN g = DOMAIN fam
           /\ g[t.fam].cur = fam[t.fam].cur + 1
           /\ \A f \in DOMAIN fam : f # t.fam => g[f].cur = fam[f].cur
           /\ \A f \in DOMAIN fam : g[f].spent = fam[f].spent /\ g[f].alive = fam[f].alive /\ g[f].reused = fam[f].reused
<1> DEFINE r == [fam[t.fam] EXCEPT !.cur = @ + 1]
<1>1. r \in Families
  BY FamShape DEF Families
<1>2. g = [fam EXCEPT ![t.fam] = r]
  BY FamShape DEF Rotated, Families
<1> HIDE DEF r
<1>3. /\ g \in Seq(Families) /\ DOMAIN g = DOMAIN fam /\ g[t.fam] = r
      /\ \A e \in DOMAIN fam : e # t.fam => g[e] = fam[e]
  BY <1>1, <1>2, ChangedFam
<1>4. QED
  BY <1>3, FamShape DEF r, Families

\* A refusal ends one family.
LEMMA RefusedFam ==
    ASSUME TypeOK, NEW t \in Tokens, t.fam \in DOMAIN fam, NEW g, g = Refused(t)
    PROVE  /\ g \in Seq(Families) /\ DOMAIN g = DOMAIN fam
           /\ ~g[t.fam].alive
           /\ g[t.fam].reused => fam[t.fam].reused \/ fam[t.fam].alive
           /\ \A f \in DOMAIN fam : f # t.fam => g[f] = fam[f]
           /\ \A f \in DOMAIN fam : g[f].spent = fam[f].spent /\ g[f].cur = fam[f].cur
<1> DEFINE r == [fam[t.fam] EXCEPT !.alive = FALSE, !.reused = @ \/ fam[t.fam].alive]
<1>1. r \in Families
  BY FamShape DEF Families
<1>2. g = [fam EXCEPT ![t.fam] = r]
  BY FamShape DEF Refused, Families
<1> HIDE DEF r
<1>3. /\ g \in Seq(Families) /\ DOMAIN g = DOMAIN fam /\ g[t.fam] = r
      /\ \A e \in DOMAIN fam : e # t.fam => g[e] = fam[e]
  BY <1>1, <1>2, ChangedFam
<1>4. QED
  BY <1>3, FamShape DEF r, Families

\* A revocation ends one family, without holding a reuse against it.
LEMMA RevokedFam ==
    ASSUME TypeOK, NEW t \in Tokens, t.fam \in DOMAIN fam, NEW g, g = Revoked(t)
    PROVE  /\ g \in Seq(Families) /\ DOMAIN g = DOMAIN fam
           /\ ~g[t.fam].alive
           /\ \A f \in DOMAIN fam : f # t.fam => g[f] = fam[f]
           /\ \A f \in DOMAIN fam : g[f].spent = fam[f].spent /\ g[f].cur = fam[f].cur /\ g[f].reused = fam[f].reused
<1> DEFINE r == [fam[t.fam] EXCEPT !.alive = FALSE]
<1>1. r \in Families
  BY FamShape DEF Families
<1>2. g = [fam EXCEPT ![t.fam] = r]
  BY FamShape DEF Revoked, Families
<1> HIDE DEF r
<1>3. /\ g \in Seq(Families) /\ DOMAIN g = DOMAIN fam /\ g[t.fam] = r
      /\ \A e \in DOMAIN fam : e # t.fam => g[e] = fam[e]
  BY <1>1, <1>2, ChangedFam
<1>4. QED
  BY <1>3, FamShape DEF r, Families

\* A grant appends a family.
LEMMA GrantedFam ==
    ASSUME TypeOK, NEW g, g = Append(fam, NewFamily)
    PROVE  /\ g \in Seq(Families) /\ DOMAIN g = 1 .. (Len(fam) + 1)
           /\ g[Len(fam) + 1] = NewFamily
           /\ \A f \in DOMAIN fam : g[f] = fam[f]
BY FamShape DEF NewFamily, Families, TypeOK

\* The fields of a command.
LEMMA CommandShape ==
    ASSUME TypeOK, NEW p \in Procs
    PROVE  /\ cmd[p].pc \in Labels /\ cmd[p].kind \in Kinds
           /\ cmd[p].hand \in Tokens \union {NoToken}
           /\ cmd[p].tries \in 0..2 /\ cmd[p].inTime \in BOOLEAN
BY DEF TypeOK, Commands

\* The first token of a new family is a token.
LEMMA NextToken ==
    ASSUME TypeOK
    PROVE  [fam |-> Len(fam) + 1, gen |-> 1] \in Tokens
BY FamShape DEF Tokens

\* A refresh request changes the station and the token in hand.
LEMMA RequestMoves ==
    ASSUME TypeOK, NEW p \in Procs, NEW t \in Tokens, NEW n \in 1..2, Request(p, t, n)
    PROVE  /\ Others(p)
           /\ cmd'[p].pc = "sent" /\ cmd'[p].kind = cmd[p].kind /\ cmd'[p].hand = t
           /\ lock' = lock
           /\ cmd' \in [Procs -> Commands]
           /\ lock' \in Procs \union {NoProc}
BY DEF Request, TypeOK, Others, Commands, Labels

\* Under the lock a command returns, turns to sign in or clear, or sends the
\* stored token.
LEMMA LookCases ==
    ASSUME TypeOK, NEW p \in Procs, Look(p)
    PROVE  /\ cmd[p].pc = "look"
           /\ UNCHANGED <<session, store, pending, issuer, history, calls, ages>>
           /\ faults' \in {faults, faults + 1}
           /\ \/ End(p)
              \/ session = NoSession /\ cmd[p].kind = "command" /\ Goto(p, "signin")
              \/ session # NoSession /\ store = NoToken /\ cmd[p].kind = "command" /\ Goto(p, "clear")
              \/ /\ session # NoSession /\ store # NoToken
                 /\ Others(p)
                 /\ cmd'[p].pc = "sent" /\ cmd'[p].kind = cmd[p].kind /\ cmd'[p].hand = store
                 /\ lock' = lock
                 /\ cmd' \in [Procs -> Commands]
                 /\ lock' \in Procs \union {NoProc}
BY RequestMoves DEF Look, Fault, bounds, TypeOK

\* A refresh without an answer is repeated with the stored token, or given up.
LEMMA RetryCases ==
    ASSUME TypeOK, HandIsStored, NEW p \in Procs, Retry(p)
    PROVE  /\ cmd[p].pc = "retry"
           /\ UNCHANGED <<session, store, pending, issuer, history, calls, ages>>
           /\ faults' \in {faults, faults + 1}
           /\ \/ End(p)
              \/ /\ store # NoToken
                 /\ Others(p)
                 /\ cmd'[p].pc = "sent" /\ cmd'[p].kind = cmd[p].kind /\ cmd'[p].hand = store
                 /\ lock' = lock
                 /\ cmd' \in [Procs -> Commands]
                 /\ lock' \in Procs \union {NoProc}
<1>1. cmd[p].pc = "retry" /\ store # NoToken /\ store \in Tokens
  BY DEF Retry, HandIsStored, HandStored, At, TypeOK
<1>2. QED
  BY <1>1, RequestMoves DEF Retry, Fault, bounds

\* The issuer rotates the stored token, or refuses it and ends its family.
LEMMA AnswerCases ==
    ASSUME TypeOK, TokensIssued, HandIsStored, NEW p \in Procs, RefreshAnswer(p)
    PROVE  /\ cmd[p].pc = "sent"
           /\ store \in Tokens /\ cmd[p].hand = store /\ Issued(store)
           /\ UNCHANGED <<session, store, pending, code, late, bounds, history>>
           /\ \/ /\ fam' = Rotated(store)
                 /\ \E t \in Tokens : /\ t.fam = store.fam
                                      /\ t.gen = fam[store.fam].cur + 1
                                      /\ GotoWith(p, "save", t)
              \/ /\ ~Accepts(store)
                 /\ fam' = Refused(store)
                 /\ \/ End(p)
                    \/ cmd[p].kind # "background" /\ Goto(p, "clear")
<1>1. cmd[p].pc = "sent" /\ store \in Tokens /\ cmd[p].hand = store
  BY DEF RefreshAnswer, HandIsStored, HandStored, At, TypeOK
<1>2. Issued(store)
  BY <1>1, AbsenceAssumption DEF TokensIssued, Tokens
<1> DEFINE t == [store EXCEPT !.gen = fam[store.fam].cur + 1]
<1>3. t \in Tokens /\ t.fam = store.fam /\ t.gen = fam[store.fam].cur + 1
  BY <1>1, <1>2, FamShape DEF Tokens, Issued, Families
<1>4. QED
  BY <1>1, <1>2, <1>3 DEF RefreshAnswer, Rejected

-----------------------------------------------------------------------------
(* Typing.                                                                 *)

\* Every step keeps the types of the commands and the lock.
LEMMA ControlTyped ==
    ASSUME TypeOK, TokensIssued, HandIsStored, [Next]_vars
    PROVE  cmd' \in [Procs -> Commands] /\ lock' \in Procs \union {NoProc}
<1> DEFINE Typed == cmd' \in [Procs -> Commands] /\ lock' \in Procs \union {NoProc}
<1>1. ASSUME NEW p \in Procs, Look(p) PROVE Typed
  BY <1>1, LookCases, EndMoves, GotoMoves DEF Labels
<1>2. ASSUME NEW p \in Procs, RefreshAnswer(p) PROVE Typed
  BY <1>2, AnswerCases, EndMoves, GotoMoves, GotoWithMoves DEF Labels
<1>3. ASSUME NEW p \in Procs, RefreshError(p) PROVE Typed
  BY <1>3, EndMoves DEF RefreshError
<1>4. ASSUME NEW p \in Procs, RefreshLost(p) PROVE Typed
  BY <1>4, GotoMoves DEF RefreshLost, Labels
<1>5. ASSUME NEW p \in Procs, Retry(p) PROVE Typed
  BY <1>5, RetryCases, EndMoves
<1>6. ASSUME NEW p \in Procs, Save(p) PROVE Typed
  BY <1>6, GotoMoves DEF Save, Labels
<1>7. ASSUME NEW p \in Procs, SaveFails(p) PROVE Typed
  BY <1>7, EndMoves, GotoMoves DEF SaveFails, Labels, Unsaved
<1>8. ASSUME NEW p \in Procs, Record(p) PROVE Typed
  BY <1>8, EndMoves, GotoMoves DEF Record, Labels
<1>9. ASSUME NEW p \in Procs, RecordFails(p) PROVE Typed
  BY <1>9, EndMoves, GotoMoves DEF RecordFails, Labels, Unsaved
<1>10. ASSUME NEW p \in Procs, DefaultHost(p) PROVE Typed
  BY <1>10, EndMoves, GotoMoves DEF DefaultHost, Labels, Unsaved
<1>11. ASSUME NEW p \in Procs, RevokeNew(p) PROVE Typed
  BY <1>11, GotoMoves DEF RevokeNew, Labels
<1>12. ASSUME NEW p \in Procs, Forget(p) PROVE Typed
  BY <1>12, EndMoves DEF Forget
<1>13. ASSUME NEW p \in Procs, ClearStore(p) PROVE Typed
  BY <1>13, GotoMoves DEF ClearStore, Labels
<1>14. ASSUME NEW p \in Procs, Unfile(p) PROVE Typed
  BY <1>14, EndMoves, GotoMoves DEF Unfile, Labels
<1>15. ASSUME NEW p \in Procs, Leave(p) PROVE Typed
  BY <1>15, EndMoves, GotoMoves DEF Leave, Labels
<1>16. ASSUME NEW p \in Procs, RevokeOld(p) PROVE Typed
  BY <1>16, GotoMoves DEF RevokeOld, Labels
<1>17. ASSUME NEW p \in Procs, SignIn(p) PROVE Typed
  BY <1>17, EndMoves, GotoMoves DEF SignIn, Labels
<1>18. ASSUME NEW p \in Procs, Poll(p) PROVE Typed
  BY <1>18, EndMoves, GotoMoves, NextToken, GotoWithMoves DEF Poll, Granted, Labels
<1>19. ASSUME NEW p \in Procs, PollFails(p) PROVE Typed
  BY <1>19, EndMoves DEF PollFails
<1>20. ASSUME NEW p \in Procs, Device(p) PROVE Typed
  BY <1>20, EndMoves DEF Device
<1>21. ASSUME NEW p \in Procs, Exchange(p) PROVE Typed
  BY <1>21, EndMoves, NextToken, GotoWithMoves DEF Exchange, Granted, Labels
<1>22. ASSUME NEW p \in Procs, Acquire(p) PROVE Typed
  BY <1>22 DEF Acquire, TypeOK, Commands, Entry, Labels
<1>23. ASSUME NEW p \in Procs, Busy(p) PROVE Typed
  BY <1>23, EndMoves DEF Busy
<1>24. ASSUME NEW p \in Procs, Crash(p) PROVE Typed
  BY <1>24, EndMoves DEF Crash
<1>25. ASSUME NEW p \in Procs, NEW k \in Kinds, Begin(p, k) PROVE Typed
  BY <1>25 DEF Begin, TypeOK, Commands, Running, Labels, Kinds
<1>26. ASSUME NEW t \in late, LateArrive(t) PROVE Typed
  BY <1>26 DEF LateArrive, TypeOK
<1>27. ASSUME NEW f \in DOMAIN fam, FamilyEnds(f) PROVE Typed
  BY <1>27 DEF FamilyEnds, TypeOK
<1>28. CASE LeewayEnds
  BY <1>28 DEF LeewayEnds, TypeOK, Commands
<1>29. CASE Age
  BY <1>29 DEF Age, TypeOK, issuer
<1>30. CASE Interval
  BY <1>30 DEF Interval, TypeOK, issuer
<1>31. CASE CodeExpires
  BY <1>31 DEF CodeExpires, TypeOK, issuer
<1>32. CASE Confirm
  BY <1>32 DEF Confirm, TypeOK, issuer
<1>33. CASE Deny
  BY <1>33 DEF Deny, TypeOK, issuer
<1>34. CASE UNCHANGED vars
  BY <1>34 DEF vars, TypeOK
<1>35. ASSUME NEW p \in Procs, Callback(p) PROVE Typed
  BY <1>35, EndMoves, GotoMoves DEF Callback, Labels
<1>36. QED
  BY <1>1, <1>2, <1>3, <1>4, <1>5, <1>6, <1>7, <1>8, <1>9, <1>10, <1>11, <1>12, <1>13, <1>14, <1>15, <1>16, <1>17, <1>18, <1>19, <1>20, <1>21, <1>22, <1>23, <1>24, <1>25, <1>26, <1>27, <1>28, <1>29, <1>30, <1>31, <1>32, <1>33, <1>34, <1>35 DEF Next, Step

\* Every step keeps the families a sequence of families.
LEMMA FamTyped ==
    ASSUME TypeOK, TokensIssued, StationsKept, HandIsStored, [Next]_vars
    PROVE  fam' \in Seq(Families)
<1>1. ASSUME NEW p \in Procs, Look(p) PROVE fam' \in Seq(Families)
  BY <1>1 DEF Look, issuer, TypeOK
<1>2. ASSUME NEW p \in Procs, RefreshAnswer(p) PROVE fam' \in Seq(Families)
  BY <1>2, AnswerCases, RotatedFam, RefusedFam DEF Issued
<1>3. ASSUME NEW p \in Procs, RefreshError(p) PROVE fam' \in Seq(Families)
  BY <1>3 DEF RefreshError, issuer, TypeOK
<1>4. ASSUME NEW p \in Procs, RefreshLost(p) PROVE fam' \in Seq(Families)
  BY <1>4 DEF RefreshLost, issuer, TypeOK
<1>5. ASSUME NEW p \in Procs, Retry(p) PROVE fam' \in Seq(Families)
  BY <1>5 DEF Retry, issuer, TypeOK
<1>6. ASSUME NEW p \in Procs, Save(p) PROVE fam' \in Seq(Families)
  BY <1>6 DEF Save, issuer, TypeOK
<1>7. ASSUME NEW p \in Procs, SaveFails(p) PROVE fam' \in Seq(Families)
  BY <1>7 DEF SaveFails, issuer, TypeOK
<1>8. ASSUME NEW p \in Procs, Record(p) PROVE fam' \in Seq(Families)
  BY <1>8 DEF Record, issuer, TypeOK
<1>9. ASSUME NEW p \in Procs, RecordFails(p) PROVE fam' \in Seq(Families)
  BY <1>9 DEF RecordFails, issuer, TypeOK
<1>10. ASSUME NEW p \in Procs, DefaultHost(p) PROVE fam' \in Seq(Families)
  BY <1>10 DEF DefaultHost, issuer, TypeOK
<1>11. ASSUME NEW p \in Procs, RevokeNew(p) PROVE fam' \in Seq(Families)
  <2>1. cmd[p].hand \in Tokens /\ Issued(cmd[p].hand)
    BY <1>11, CommandShape DEF RevokeNew, StationsKept, StationKept, At, TokensIssued
  <2>2. QED
    BY <1>11, <2>1, RevokedFam DEF RevokeNew, Issued, TypeOK
<1>12. ASSUME NEW p \in Procs, Forget(p) PROVE fam' \in Seq(Families)
  BY <1>12 DEF Forget, issuer, TypeOK
<1>13. ASSUME NEW p \in Procs, ClearStore(p) PROVE fam' \in Seq(Families)
  BY <1>13 DEF ClearStore, issuer, TypeOK
<1>14. ASSUME NEW p \in Procs, Unfile(p) PROVE fam' \in Seq(Families)
  BY <1>14 DEF Unfile, issuer, TypeOK
<1>15. ASSUME NEW p \in Procs, Leave(p) PROVE fam' \in Seq(Families)
  BY <1>15 DEF Leave, issuer, TypeOK
<1>16. ASSUME NEW p \in Procs, RevokeOld(p) PROVE fam' \in Seq(Families)
  <2>1. store \in Tokens /\ Issued(store)
    BY <1>16 DEF RevokeOld, StationsKept, StationKept, At, TokensIssued, TypeOK
  <2>2. QED
    BY <1>16, <2>1, RevokedFam DEF RevokeOld, Issued, TypeOK
<1>17. ASSUME NEW p \in Procs, SignIn(p) PROVE fam' \in Seq(Families)
  BY <1>17 DEF SignIn, issuer, TypeOK
<1>18. ASSUME NEW p \in Procs, Poll(p) PROVE fam' \in Seq(Families)
  BY <1>18, GrantedFam DEF Poll, Granted, TypeOK
<1>19. ASSUME NEW p \in Procs, PollFails(p) PROVE fam' \in Seq(Families)
  BY <1>19 DEF PollFails, issuer, TypeOK
<1>20. ASSUME NEW p \in Procs, Device(p) PROVE fam' \in Seq(Families)
  BY <1>20 DEF Device, issuer, TypeOK
<1>21. ASSUME NEW p \in Procs, Exchange(p) PROVE fam' \in Seq(Families)
  BY <1>21, GrantedFam DEF Exchange, Granted, TypeOK
<1>22. ASSUME NEW p \in Procs, Acquire(p) PROVE fam' \in Seq(Families)
  BY <1>22 DEF Acquire, issuer, TypeOK
<1>23. ASSUME NEW p \in Procs, Busy(p) PROVE fam' \in Seq(Families)
  BY <1>23 DEF Busy, issuer, TypeOK
<1>24. ASSUME NEW p \in Procs, Crash(p) PROVE fam' \in Seq(Families)
  BY <1>24 DEF Crash, issuer, TypeOK
<1>25. ASSUME NEW p \in Procs, NEW k \in Kinds, Begin(p, k) PROVE fam' \in Seq(Families)
  BY <1>25 DEF Begin, issuer, TypeOK
<1>26. ASSUME NEW t \in late, LateArrive(t) PROVE fam' \in Seq(Families)
  <2>1. t \in Tokens /\ Issued(t)
    BY <1>26 DEF TokensIssued, TypeOK
  <2>2. QED
    BY <1>26, <2>1, RotatedFam, RefusedFam DEF LateArrive, Issued
<1>27. ASSUME NEW f \in DOMAIN fam, FamilyEnds(f) PROVE fam' \in Seq(Families)
  <2> DEFINE r == [fam[f] EXCEPT !.alive = FALSE]
  <2>1. r \in Families
    BY FamShape DEF Families
  <2>2. fam' = [fam EXCEPT ![f] = r]
    BY <1>27 DEF FamilyEnds
  <2> HIDE DEF r
  <2>3. QED
    BY <2>1, <2>2, ChangedFam
<1>28. CASE LeewayEnds
  <2>1. \A f \in 1 .. Len(fam) : [fam[f] EXCEPT !.spent = fam[f].cur] \in Families
    BY FamShape DEF Families
  <2>2. QED
    BY <1>28, <2>1, FamShape DEF LeewayEnds
<1>29. CASE Age
  BY <1>29 DEF Age, issuer, TypeOK
<1>30. CASE Interval
  BY <1>30 DEF Interval, issuer, TypeOK
<1>31. CASE CodeExpires
  BY <1>31 DEF CodeExpires, issuer, TypeOK
<1>32. CASE Confirm
  BY <1>32 DEF Confirm, issuer, TypeOK
<1>33. CASE Deny
  BY <1>33 DEF Deny, issuer, TypeOK
<1>34. CASE UNCHANGED vars
  BY <1>34 DEF vars, issuer, TypeOK
<1>35. ASSUME NEW p \in Procs, Callback(p) PROVE fam' \in Seq(Families)
  BY <1>35 DEF Callback, issuer, TypeOK
<1>36. QED
  BY <1>1, <1>2, <1>3, <1>4, <1>5, <1>6, <1>7, <1>8, <1>9, <1>10, <1>11, <1>12, <1>13, <1>14, <1>15, <1>16, <1>17, <1>18, <1>19, <1>20, <1>21, <1>22, <1>23, <1>24, <1>25, <1>26, <1>27, <1>28, <1>29, <1>30, <1>31, <1>32, <1>33, <1>34, <1>35 DEF Next, Step

\* Every step keeps the types of the files.
LEMMA FilesTyped ==
    ASSUME TypeOK, TokensIssued, StationsKept, HandIsStored, [Next]_vars
    PROVE  /\ session' \in [fam : Nat, gen : Nat, fresh : BOOLEAN] \union {NoSession}
           /\ store' \in Tokens \union {NoToken}
           /\ pending' \in {NoPending, "waiting", "due"}
<1> DEFINE Files == /\ session' \in [fam : Nat, gen : Nat, fresh : BOOLEAN] \union {NoSession}
                    /\ store' \in Tokens \union {NoToken}
                    /\ pending' \in {NoPending, "waiting", "due"}
<1>1. ASSUME NEW p \in Procs, Look(p) PROVE Files
  BY <1>1, LookCases DEF TypeOK
<1>2. ASSUME NEW p \in Procs, RefreshAnswer(p) PROVE Files
  BY <1>2 DEF RefreshAnswer, TypeOK
<1>3. ASSUME NEW p \in Procs, RefreshError(p) PROVE Files
  BY <1>3 DEF RefreshError, TypeOK
<1>4. ASSUME NEW p \in Procs, RefreshLost(p) PROVE Files
  BY <1>4 DEF RefreshLost, TypeOK
<1>5. ASSUME NEW p \in Procs, Retry(p) PROVE Files
  BY <1>5, RetryCases DEF TypeOK
<1>6. ASSUME NEW p \in Procs, Save(p) PROVE Files
  BY <1>6, CommandShape DEF Save, StationsKept, StationKept, At, TypeOK
<1>7. ASSUME NEW p \in Procs, SaveFails(p) PROVE Files
  BY <1>7, CommandShape DEF SaveFails, StationsKept, StationKept, At, TypeOK
<1>8. ASSUME NEW p \in Procs, Record(p) PROVE Files
  BY <1>8, CommandShape DEF Record, StationsKept, StationKept, At, TypeOK, Tokens
<1>9. ASSUME NEW p \in Procs, RecordFails(p) PROVE Files
  BY <1>9 DEF RecordFails, TypeOK
<1>10. ASSUME NEW p \in Procs, DefaultHost(p) PROVE Files
  BY <1>10 DEF DefaultHost, TypeOK
<1>11. ASSUME NEW p \in Procs, RevokeNew(p) PROVE Files
  BY <1>11 DEF RevokeNew, TypeOK
<1>12. ASSUME NEW p \in Procs, Forget(p) PROVE Files
  BY <1>12 DEF Forget, TypeOK
<1>13. ASSUME NEW p \in Procs, ClearStore(p) PROVE Files
  BY <1>13 DEF ClearStore, TypeOK
<1>14. ASSUME NEW p \in Procs, Unfile(p) PROVE Files
  BY <1>14 DEF Unfile, TypeOK
<1>15. ASSUME NEW p \in Procs, Leave(p) PROVE Files
  BY <1>15 DEF Leave, TypeOK
<1>16. ASSUME NEW p \in Procs, RevokeOld(p) PROVE Files
  BY <1>16 DEF RevokeOld, TypeOK
<1>17. ASSUME NEW p \in Procs, SignIn(p) PROVE Files
  BY <1>17 DEF SignIn, TypeOK
<1>18. ASSUME NEW p \in Procs, Poll(p) PROVE Files
  BY <1>18 DEF Poll, TypeOK
<1>19. ASSUME NEW p \in Procs, PollFails(p) PROVE Files
  BY <1>19 DEF PollFails, TypeOK
<1>20. ASSUME NEW p \in Procs, Device(p) PROVE Files
  BY <1>20 DEF Device, TypeOK
<1>21. ASSUME NEW p \in Procs, Exchange(p) PROVE Files
  BY <1>21 DEF Exchange, TypeOK
<1>22. ASSUME NEW p \in Procs, Acquire(p) PROVE Files
  BY <1>22 DEF Acquire, TypeOK
<1>23. ASSUME NEW p \in Procs, Busy(p) PROVE Files
  BY <1>23 DEF Busy, TypeOK
<1>24. ASSUME NEW p \in Procs, Crash(p) PROVE Files
  BY <1>24 DEF Crash, TypeOK
<1>25. ASSUME NEW p \in Procs, NEW k \in Kinds, Begin(p, k) PROVE Files
  BY <1>25 DEF Begin, TypeOK
<1>26. ASSUME NEW t \in late, LateArrive(t) PROVE Files
  BY <1>26 DEF LateArrive, TypeOK
<1>27. ASSUME NEW f \in DOMAIN fam, FamilyEnds(f) PROVE Files
  BY <1>27 DEF FamilyEnds, TypeOK
<1>28. CASE LeewayEnds
  BY <1>28 DEF LeewayEnds, TypeOK
<1>29. CASE Age
  BY <1>29 DEF Age, Fresh, TypeOK
<1>30. CASE Interval
  BY <1>30 DEF Interval, TypeOK
<1>31. CASE CodeExpires
  BY <1>31 DEF CodeExpires, TypeOK
<1>32. CASE Confirm
  BY <1>32 DEF Confirm, TypeOK
<1>33. CASE Deny
  BY <1>33 DEF Deny, TypeOK
<1>34. CASE UNCHANGED vars
  BY <1>34 DEF vars, issuer, TypeOK
<1>35. ASSUME NEW p \in Procs, Callback(p) PROVE Files
  BY <1>35 DEF Callback, TypeOK
<1>36. QED
  BY <1>1, <1>2, <1>3, <1>4, <1>5, <1>6, <1>7, <1>8, <1>9, <1>10, <1>11, <1>12, <1>13, <1>14, <1>15, <1>16, <1>17, <1>18, <1>19, <1>20, <1>21, <1>22, <1>23, <1>24, <1>25, <1>26, <1>27, <1>28, <1>29, <1>30, <1>31, <1>32, <1>33, <1>34, <1>35 DEF Next, Step

\* Every step keeps the types of the device code, the late requests and the logout.
LEMMA HistoryTyped ==
    ASSUME TypeOK, TokensIssued, StationsKept, HandIsStored, [Next]_vars
    PROVE  /\ code' \in Codes /\ late' \subseteq Tokens
           /\ loggedOut' \in BOOLEAN /\ early' \subseteq Procs /\ outrun' \in BOOLEAN
<1> DEFINE Known == /\ code' \in Codes /\ late' \subseteq Tokens
                    /\ loggedOut' \in BOOLEAN /\ early' \subseteq Procs /\ outrun' \in BOOLEAN
<1>1. ASSUME NEW p \in Procs, Look(p) PROVE Known
  BY <1>1 DEF Look, TypeOK, issuer, history, parting, Codes
<1>2. ASSUME NEW p \in Procs, RefreshAnswer(p) PROVE Known
  BY <1>2 DEF RefreshAnswer, TypeOK, issuer, history, parting, Codes
<1>3. ASSUME NEW p \in Procs, RefreshError(p) PROVE Known
  BY <1>3 DEF RefreshError, TypeOK, issuer, history, parting, Codes
<1>4. ASSUME NEW p \in Procs, RefreshLost(p) PROVE Known
  BY <1>4 DEF RefreshLost, HandIsStored, HandStored, At, TypeOK, parting
<1>5. ASSUME NEW p \in Procs, Retry(p) PROVE Known
  BY <1>5 DEF Retry, TypeOK, issuer, history, parting, Codes
<1>6. ASSUME NEW p \in Procs, Save(p) PROVE Known
  BY <1>6 DEF Save, TypeOK, issuer, history, parting, Codes
<1>7. ASSUME NEW p \in Procs, SaveFails(p) PROVE Known
  BY <1>7 DEF SaveFails, TypeOK, issuer, history, parting, Codes
<1>8. ASSUME NEW p \in Procs, Record(p) PROVE Known
  BY <1>8 DEF Record, TypeOK, issuer, history, parting, Codes
<1>9. ASSUME NEW p \in Procs, RecordFails(p) PROVE Known
  BY <1>9 DEF RecordFails, TypeOK, issuer, history, parting, Codes
<1>10. ASSUME NEW p \in Procs, DefaultHost(p) PROVE Known
  BY <1>10 DEF DefaultHost, TypeOK, issuer, history, parting, Codes
<1>11. ASSUME NEW p \in Procs, RevokeNew(p) PROVE Known
  BY <1>11 DEF RevokeNew, TypeOK, issuer, history, parting, Codes
<1>12. ASSUME NEW p \in Procs, Forget(p) PROVE Known
  BY <1>12 DEF Forget, TypeOK, issuer, history, parting, Codes
<1>13. ASSUME NEW p \in Procs, ClearStore(p) PROVE Known
  BY <1>13 DEF ClearStore, parting, TypeOK, issuer, history, Codes
<1>14. ASSUME NEW p \in Procs, Unfile(p) PROVE Known
  BY <1>14 DEF Unfile, Parted, parting, TypeOK, issuer, history, Codes
<1>15. ASSUME NEW p \in Procs, Leave(p) PROVE Known
  BY <1>15 DEF Leave, Parted, parting, TypeOK, issuer, history, Codes
<1>16. ASSUME NEW p \in Procs, RevokeOld(p) PROVE Known
  BY <1>16 DEF RevokeOld, parting, TypeOK, issuer, history, Codes
<1>17. ASSUME NEW p \in Procs, SignIn(p) PROVE Known
  BY <1>17 DEF SignIn, parting, TypeOK, issuer, history, Codes
<1>18. ASSUME NEW p \in Procs, Poll(p) PROVE Known
  BY <1>18 DEF Poll, TypeOK, issuer, history, parting, Codes
<1>19. ASSUME NEW p \in Procs, PollFails(p) PROVE Known
  BY <1>19 DEF PollFails, TypeOK, issuer, history, parting, Codes
<1>20. ASSUME NEW p \in Procs, Device(p) PROVE Known
  BY <1>20 DEF Device, SignedInSince, parting, TypeOK, issuer, history, Codes
<1>21. ASSUME NEW p \in Procs, Exchange(p) PROVE Known
  BY <1>21 DEF Exchange, SignedInSince, parting, TypeOK, issuer, history, Codes
<1>22. ASSUME NEW p \in Procs, Acquire(p) PROVE Known
  BY <1>22 DEF Acquire, TypeOK, issuer, history, parting, Codes
<1>23. ASSUME NEW p \in Procs, Busy(p) PROVE Known
  BY <1>23 DEF Busy, TypeOK, issuer, history, parting, Codes
<1>24. ASSUME NEW p \in Procs, Crash(p) PROVE Known
  BY <1>24 DEF Crash, HandIsStored, HandStored, At, TypeOK, parting
<1>25. ASSUME NEW p \in Procs, NEW k \in Kinds, Begin(p, k) PROVE Known
  BY <1>25 DEF Begin, TypeOK, issuer, history, parting, Codes
<1>26. ASSUME NEW t \in late, LateArrive(t) PROVE Known
  BY <1>26 DEF LateArrive, TypeOK, issuer, history, parting, Codes
<1>27. ASSUME NEW f \in DOMAIN fam, FamilyEnds(f) PROVE Known
  BY <1>27 DEF FamilyEnds, TypeOK, issuer, history, parting, Codes
<1>28. CASE LeewayEnds
  BY <1>28 DEF LeewayEnds, TypeOK, issuer, history, parting, Codes
<1>29. CASE Age
  BY <1>29 DEF Age, TypeOK, issuer, history, parting, Codes
<1>30. CASE Interval
  BY <1>30 DEF Interval, TypeOK, issuer, history, parting, Codes
<1>31. CASE CodeExpires
  BY <1>31 DEF CodeExpires, TypeOK, issuer, history, parting, Codes
<1>32. CASE Confirm
  BY <1>32 DEF Confirm, TypeOK, issuer, history, parting, Codes
<1>33. CASE Deny
  BY <1>33 DEF Deny, TypeOK, issuer, history, parting, Codes
<1>34. CASE UNCHANGED vars
  BY <1>34 DEF vars, issuer, history, parting, TypeOK
<1>35. ASSUME NEW p \in Procs, Callback(p) PROVE Known
  BY <1>35 DEF Callback, TypeOK, issuer, history, parting, Codes
<1>36. QED
  BY <1>1, <1>2, <1>3, <1>4, <1>5, <1>6, <1>7, <1>8, <1>9, <1>10, <1>11, <1>12, <1>13, <1>14, <1>15, <1>16, <1>17, <1>18, <1>19, <1>20, <1>21, <1>22, <1>23, <1>24, <1>25, <1>26, <1>27, <1>28, <1>29, <1>30, <1>31, <1>32, <1>33, <1>34, <1>35 DEF Next, Step

\* Every step keeps the counters natural numbers.
LEMMA BoundsTyped ==
    ASSUME TypeOK, TokensIssued, StationsKept, HandIsStored, [Next]_vars
    PROVE  faults' \in Nat /\ calls' \in Nat /\ ages' \in Nat
<1> DEFINE Bounded == faults' \in Nat /\ calls' \in Nat /\ ages' \in Nat
<1>1. ASSUME NEW p \in Procs, Look(p) PROVE Bounded
  BY <1>1 DEF Look, TypeOK, bounds, Fault
<1>2. ASSUME NEW p \in Procs, RefreshAnswer(p) PROVE Bounded
  BY <1>2 DEF RefreshAnswer, TypeOK, bounds, Fault
<1>3. ASSUME NEW p \in Procs, RefreshError(p) PROVE Bounded
  BY <1>3 DEF RefreshError, TypeOK, bounds, Fault
<1>4. ASSUME NEW p \in Procs, RefreshLost(p) PROVE Bounded
  BY <1>4 DEF RefreshLost, TypeOK, bounds, Fault
<1>5. ASSUME NEW p \in Procs, Retry(p) PROVE Bounded
  BY <1>5 DEF Retry, TypeOK, bounds, Fault
<1>6. ASSUME NEW p \in Procs, Save(p) PROVE Bounded
  BY <1>6 DEF Save, TypeOK, bounds, Fault
<1>7. ASSUME NEW p \in Procs, SaveFails(p) PROVE Bounded
  BY <1>7 DEF SaveFails, TypeOK, bounds, Fault
<1>8. ASSUME NEW p \in Procs, Record(p) PROVE Bounded
  BY <1>8 DEF Record, TypeOK, bounds, Fault
<1>9. ASSUME NEW p \in Procs, RecordFails(p) PROVE Bounded
  BY <1>9 DEF RecordFails, TypeOK, bounds, Fault
<1>10. ASSUME NEW p \in Procs, DefaultHost(p) PROVE Bounded
  BY <1>10 DEF DefaultHost, TypeOK, bounds, Fault
<1>11. ASSUME NEW p \in Procs, RevokeNew(p) PROVE Bounded
  BY <1>11 DEF RevokeNew, TypeOK, bounds, Fault
<1>12. ASSUME NEW p \in Procs, Forget(p) PROVE Bounded
  BY <1>12 DEF Forget, TypeOK, bounds, Fault
<1>13. ASSUME NEW p \in Procs, ClearStore(p) PROVE Bounded
  BY <1>13 DEF ClearStore, TypeOK, bounds, Fault
<1>14. ASSUME NEW p \in Procs, Unfile(p) PROVE Bounded
  BY <1>14 DEF Unfile, TypeOK, bounds, Fault
<1>15. ASSUME NEW p \in Procs, Leave(p) PROVE Bounded
  BY <1>15 DEF Leave, TypeOK, bounds, Fault
<1>16. ASSUME NEW p \in Procs, RevokeOld(p) PROVE Bounded
  BY <1>16 DEF RevokeOld, TypeOK, bounds, Fault
<1>17. ASSUME NEW p \in Procs, SignIn(p) PROVE Bounded
  BY <1>17 DEF SignIn, TypeOK, bounds, Fault
<1>18. ASSUME NEW p \in Procs, Poll(p) PROVE Bounded
  BY <1>18 DEF Poll, TypeOK, bounds, Fault
<1>19. ASSUME NEW p \in Procs, PollFails(p) PROVE Bounded
  BY <1>19 DEF PollFails, TypeOK, bounds, Fault
<1>20. ASSUME NEW p \in Procs, Device(p) PROVE Bounded
  BY <1>20 DEF Device, TypeOK, bounds, Fault
<1>21. ASSUME NEW p \in Procs, Exchange(p) PROVE Bounded
  BY <1>21 DEF Exchange, TypeOK, bounds, Fault
<1>22. ASSUME NEW p \in Procs, Acquire(p) PROVE Bounded
  BY <1>22 DEF Acquire, TypeOK, bounds, Fault
<1>23. ASSUME NEW p \in Procs, Busy(p) PROVE Bounded
  BY <1>23 DEF Busy, TypeOK, bounds, Fault
<1>24. ASSUME NEW p \in Procs, Crash(p) PROVE Bounded
  BY <1>24 DEF Crash, TypeOK, bounds, Fault
<1>25. ASSUME NEW p \in Procs, NEW k \in Kinds, Begin(p, k) PROVE Bounded
  BY <1>25 DEF Begin, TypeOK, bounds, Fault
<1>26. ASSUME NEW t \in late, LateArrive(t) PROVE Bounded
  BY <1>26 DEF LateArrive, TypeOK, bounds, Fault
<1>27. ASSUME NEW f \in DOMAIN fam, FamilyEnds(f) PROVE Bounded
  BY <1>27 DEF FamilyEnds, TypeOK, bounds, Fault
<1>28. CASE LeewayEnds
  BY <1>28 DEF LeewayEnds, TypeOK, bounds, Fault
<1>29. CASE Age
  BY <1>29 DEF Age, TypeOK, bounds, Fault
<1>30. CASE Interval
  BY <1>30 DEF Interval, TypeOK, bounds, Fault
<1>31. CASE CodeExpires
  BY <1>31 DEF CodeExpires, TypeOK, bounds, Fault
<1>32. CASE Confirm
  BY <1>32 DEF Confirm, TypeOK, bounds, Fault
<1>33. CASE Deny
  BY <1>33 DEF Deny, TypeOK, bounds, Fault
<1>34. CASE UNCHANGED vars
  BY <1>34 DEF vars, bounds, TypeOK
<1>35. ASSUME NEW p \in Procs, Callback(p) PROVE Bounded
  BY <1>35 DEF Callback, TypeOK, bounds, Fault
<1>36. QED
  BY <1>1, <1>2, <1>3, <1>4, <1>5, <1>6, <1>7, <1>8, <1>9, <1>10, <1>11, <1>12, <1>13, <1>14, <1>15, <1>16, <1>17, <1>18, <1>19, <1>20, <1>21, <1>22, <1>23, <1>24, <1>25, <1>26, <1>27, <1>28, <1>29, <1>30, <1>31, <1>32, <1>33, <1>34, <1>35 DEF Next, Step

\* Every step keeps the lost and the loose families numbers.
LEMMA LossesTyped ==
    ASSUME TypeOK, TokensIssued, StationsKept, HandIsStored, [Next]_vars
    PROVE  lossy' \subseteq Nat /\ adrift' \subseteq Nat
<1>0. \A p \in Procs : cmd[p].hand # NoToken => cmd[p].hand.fam \in Nat
  BY CommandShape DEF Tokens
<1> DEFINE Lost == lossy' \subseteq Nat /\ adrift' \subseteq Nat
<1>1. ASSUME NEW p \in Procs, Look(p) PROVE Lost
  BY <1>1, <1>0 DEF Look, TypeOK, history
<1>2. ASSUME NEW p \in Procs, RefreshAnswer(p) PROVE Lost
  BY <1>2, <1>0 DEF RefreshAnswer, TypeOK, history
<1>3. ASSUME NEW p \in Procs, RefreshError(p) PROVE Lost
  BY <1>3, <1>0 DEF RefreshError, TypeOK, history
<1>4. ASSUME NEW p \in Procs, RefreshLost(p) PROVE Lost
  BY <1>4, <1>0 DEF RefreshLost, HandIsStored, HandStored, At, TypeOK
<1>5. ASSUME NEW p \in Procs, Retry(p) PROVE Lost
  BY <1>5, <1>0 DEF Retry, TypeOK, history
<1>6. ASSUME NEW p \in Procs, Save(p) PROVE Lost
  BY <1>6, <1>0 DEF Save, TypeOK, history
<1>7. ASSUME NEW p \in Procs, SaveFails(p) PROVE Lost
  BY <1>7, <1>0 DEF SaveFails, StationsKept, StationKept, At, TypeOK
<1>8. ASSUME NEW p \in Procs, Record(p) PROVE Lost
  BY <1>8, <1>0 DEF Record, TypeOK, history
<1>9. ASSUME NEW p \in Procs, RecordFails(p) PROVE Lost
  BY <1>9, <1>0 DEF RecordFails, StationsKept, StationKept, At, TypeOK
<1>10. ASSUME NEW p \in Procs, DefaultHost(p) PROVE Lost
  BY <1>10, <1>0 DEF DefaultHost, TypeOK, history
<1>11. ASSUME NEW p \in Procs, RevokeNew(p) PROVE Lost
  BY <1>11, <1>0 DEF RevokeNew, StationsKept, StationKept, At, TypeOK
<1>12. ASSUME NEW p \in Procs, Forget(p) PROVE Lost
  BY <1>12, <1>0 DEF Forget, TypeOK, history
<1>13. ASSUME NEW p \in Procs, ClearStore(p) PROVE Lost
  BY <1>13, <1>0 DEF ClearStore, TypeOK, history
<1>14. ASSUME NEW p \in Procs, Unfile(p) PROVE Lost
  BY <1>14, <1>0 DEF Unfile, TypeOK, history
<1>15. ASSUME NEW p \in Procs, Leave(p) PROVE Lost
  BY <1>15, <1>0 DEF Leave, TypeOK, history
<1>16. ASSUME NEW p \in Procs, RevokeOld(p) PROVE Lost
  BY <1>16, <1>0 DEF RevokeOld, StationsKept, StationKept, At, TypeOK, Tokens
<1>17. ASSUME NEW p \in Procs, SignIn(p) PROVE Lost
  BY <1>17, <1>0 DEF SignIn, TypeOK, history
<1>18. ASSUME NEW p \in Procs, Poll(p) PROVE Lost
  BY <1>18, <1>0 DEF Poll, TypeOK, history
<1>19. ASSUME NEW p \in Procs, PollFails(p) PROVE Lost
  BY <1>19, <1>0 DEF PollFails, TypeOK, history
<1>20. ASSUME NEW p \in Procs, Device(p) PROVE Lost
  BY <1>20, <1>0 DEF Device, TypeOK, history
<1>21. ASSUME NEW p \in Procs, Exchange(p) PROVE Lost
  BY <1>21, <1>0 DEF Exchange, TypeOK, Tokens
<1>22. ASSUME NEW p \in Procs, Acquire(p) PROVE Lost
  BY <1>22, <1>0 DEF Acquire, TypeOK, history
<1>23. ASSUME NEW p \in Procs, Busy(p) PROVE Lost
  BY <1>23, <1>0 DEF Busy, TypeOK, history
<1>24. ASSUME NEW p \in Procs, Crash(p) PROVE Lost
  BY <1>24, <1>0 DEF Crash, StationsKept, StationKept, HandIsStored, HandStored, At, TypeOK
<1>25. ASSUME NEW p \in Procs, NEW k \in Kinds, Begin(p, k) PROVE Lost
  BY <1>25, <1>0 DEF Begin, TypeOK, history
<1>26. ASSUME NEW t \in late, LateArrive(t) PROVE Lost
  BY <1>26, <1>0 DEF LateArrive, TypeOK, history
<1>27. ASSUME NEW f \in DOMAIN fam, FamilyEnds(f) PROVE Lost
  BY <1>27, <1>0 DEF FamilyEnds, TypeOK, history
<1>28. CASE LeewayEnds
  BY <1>28, <1>0 DEF LeewayEnds, TypeOK, history
<1>29. CASE Age
  BY <1>29, <1>0 DEF Age, TypeOK, history
<1>30. CASE Interval
  BY <1>30, <1>0 DEF Interval, TypeOK, history
<1>31. CASE CodeExpires
  BY <1>31, <1>0 DEF CodeExpires, TypeOK, history
<1>32. CASE Confirm
  BY <1>32, <1>0 DEF Confirm, TypeOK, history
<1>33. CASE Deny
  BY <1>33, <1>0 DEF Deny, TypeOK, history
<1>34. CASE UNCHANGED vars
  BY <1>34 DEF vars, history, TypeOK
<1>35. ASSUME NEW p \in Procs, Callback(p) PROVE Lost
  BY <1>35, <1>0 DEF Callback, TypeOK, history
<1>36. QED
  BY <1>1, <1>2, <1>3, <1>4, <1>5, <1>6, <1>7, <1>8, <1>9, <1>10, <1>11, <1>12, <1>13, <1>14, <1>15, <1>16, <1>17, <1>18, <1>19, <1>20, <1>21, <1>22, <1>23, <1>24, <1>25, <1>26, <1>27, <1>28, <1>29, <1>30, <1>31, <1>32, <1>33, <1>34, <1>35 DEF Next, Step

-----------------------------------------------------------------------------
(* The shape of a step.                                                    *)

\* What moves without a command of this machine.
World ==
    \/ \E t \in late : LateArrive(t)
    \/ \E f \in DOMAIN fam : FamilyEnds(f)
    \/ LeewayEnds \/ Age \/ Interval \/ CodeExpires \/ Confirm \/ Deny
    \/ UNCHANGED vars

\* A step is a command's or the world's.
LEMMA StepKinds ==
    ASSUME [Next]_vars
    PROVE  \/ \E p \in Procs : \/ \E k \in Kinds : Begin(p, k)
                               \/ Callback(p) \/ Acquire(p) \/ Busy(p) \/ Step(p) \/ Crash(p)
           \/ World
BY DEF Next, World

\* The world moves no command, and no file but the age in session.json.
LEMMA WorldFrame ==
    ASSUME TypeOK, World
    PROVE  /\ \A p \in Procs : /\ cmd'[p].pc = cmd[p].pc /\ cmd'[p].kind = cmd[p].kind
                               /\ cmd'[p].hand = cmd[p].hand
           /\ lock' = lock /\ store' = store
           /\ session' = NoSession <=> session = NoSession
           /\ session # NoSession => session'.fam = session.fam /\ session'.gen = session.gen
           /\ UNCHANGED <<lossy, adrift, loggedOut, outrun>>
<1>1. CASE LeewayEnds
  BY <1>1 DEF LeewayEnds, TypeOK, Commands, history, parting
<1>2. CASE Age
  BY <1>2, AbsenceAssumption DEF Age, Fresh, TypeOK, history, parting
<1>3. ASSUME NEW t \in late, LateArrive(t) PROVE UNCHANGED <<cmd, lock, store, session, history>>
  BY <1>3 DEF LateArrive
<1>4. ASSUME NEW f \in DOMAIN fam, FamilyEnds(f) PROVE UNCHANGED <<cmd, lock, store, session, history>>
  BY <1>4 DEF FamilyEnds
<1>5. CASE Interval \/ CodeExpires \/ Confirm \/ Deny \/ UNCHANGED vars
  BY <1>5 DEF Interval, CodeExpires, Confirm, Deny, vars, history, parting
<1>6. QED
  BY <1>1, <1>2, <1>3, <1>4, <1>5 DEF World, history, parting

\* A command begins or enters: nothing but its station and kind changes.
LEMMA BeginMoves ==
    ASSUME TypeOK, NEW p \in Procs, NEW k \in Kinds, Begin(p, k)
    PROVE  /\ Others(p) /\ cmd[p].pc = "idle"
           /\ cmd'[p].pc = (IF k = "loopback" THEN "browse" ELSE "want")
           /\ cmd'[p].kind = k /\ cmd'[p].hand = NoToken
           /\ UNCHANGED <<lock, session, store, pending, code, fam, late, lossy, adrift, loggedOut, outrun>>
           /\ cmd' \in [Procs -> Commands]
BY DEF Begin, Running, TypeOK, Others, issuer, Commands, Labels, Kinds

\* A loopback login's wait for its browser ends: it goes on to the lock, or
\* the command ends.
LEMMA CallbackMoves ==
    ASSUME TypeOK, NEW p \in Procs, Callback(p)
    PROVE  /\ Others(p) /\ cmd[p].pc = "browse"
           /\ \/ cmd'[p].pc = "want" /\ cmd'[p].kind = cmd[p].kind /\ cmd'[p].hand = cmd[p].hand
              \/ cmd'[p].pc = "idle" /\ cmd'[p].kind = "command" /\ cmd'[p].hand = NoToken
           /\ lock # p => lock' = lock
           /\ UNCHANGED <<session, store, pending, code, fam, late, lossy, adrift, loggedOut, outrun>>
           /\ cmd' \in [Procs -> Commands]
BY EndMoves, GotoMoves DEF Callback, Labels, issuer, history, parting

\* Who enters holds the lock, at the first station of its kind.
LEMMA AcquireMoves ==
    ASSUME TypeOK, NEW p \in Procs, Acquire(p)
    PROVE  /\ Others(p) /\ cmd[p].pc = "want" /\ lock = NoProc /\ lock' = p
           /\ cmd'[p].pc = Entry(cmd[p].kind)
           /\ cmd'[p].kind = cmd[p].kind /\ cmd'[p].hand = cmd[p].hand
           /\ UNCHANGED <<session, store, pending, code, fam, late, lossy, adrift, loggedOut, outrun>>
           /\ cmd' \in [Procs -> Commands]
BY DEF Acquire, TypeOK, Others, issuer, history, parting, Commands, Labels, Entry

\* A grant gives the command the first token of a new family.
LEMMA GrantCases ==
    ASSUME TypeOK, NEW p \in Procs, NEW l \in Labels, Granted(p, l)
    PROVE  /\ \E t \in Tokens : t.fam = Len(fam) + 1 /\ t.gen = 1 /\ GotoWith(p, l, t)
           /\ fam' \in Seq(Families) /\ DOMAIN fam' = 1 .. (Len(fam) + 1)
           /\ fam'[Len(fam) + 1] = NewFamily
           /\ \A f \in DOMAIN fam : fam'[f] = fam[f]
<1> DEFINE t == [fam |-> Len(fam) + 1, gen |-> 1]
<1>1. t \in Tokens /\ t.fam = Len(fam) + 1 /\ t.gen = 1
  BY NextToken
<1>2. GotoWith(p, l, t) /\ fam' = Append(fam, NewFamily)
  BY DEF Granted
<1> HIDE DEF t
<1>3. QED
  BY <1>1, <1>2, GrantedFam

\* Only the holder of the lock is at a station.
LEMMA Holder ==
    ASSUME Excluded, NEW p \in Procs, cmd[p].pc \notin Outside
    PROVE  /\ lock = p
           /\ \A q \in Procs : q # p => cmd[q].pc \in Outside
BY DEF Excluded, At, Outside

\* A step at a station ends the command or moves it to another station.
LEMMA StepMoves ==
    ASSUME TypeOK, TokensIssued, HandIsStored, NEW p \in Procs, Step(p)
    PROVE  /\ Others(p) /\ cmd[p].pc \notin Outside
           /\ \/ End(p)
              \/ cmd'[p].pc \notin Outside /\ cmd'[p].kind = cmd[p].kind /\ lock' = lock
<1> DEFINE Moves == /\ Others(p) /\ cmd[p].pc \notin Outside
                    /\ \/ End(p)
                       \/ cmd'[p].pc \notin Outside /\ cmd'[p].kind = cmd[p].kind /\ lock' = lock
<1>1. CASE Look(p)
  BY <1>1, LookCases, EndMoves, GotoMoves DEF Labels, Outside
<1>2. CASE RefreshAnswer(p)
  BY <1>2, AnswerCases, EndMoves, GotoMoves, GotoWithMoves DEF Labels, Outside
<1>3. CASE RefreshError(p)
  BY <1>3, EndMoves DEF RefreshError, Outside
<1>4. CASE RefreshLost(p)
  BY <1>4, GotoMoves DEF RefreshLost, Labels, Outside
<1>5. CASE Retry(p)
  BY <1>5, RetryCases, EndMoves DEF Outside
<1>6. CASE Save(p)
  BY <1>6, GotoMoves DEF Save, Labels, Outside
<1>7. CASE SaveFails(p)
  BY <1>7, EndMoves, GotoMoves DEF SaveFails, Unsaved, Labels, Outside
<1>8. CASE Record(p)
  BY <1>8, EndMoves, GotoMoves DEF Record, Labels, Outside
<1>9. CASE RecordFails(p)
  BY <1>9, EndMoves, GotoMoves DEF RecordFails, Unsaved, Labels, Outside
<1>10. CASE DefaultHost(p)
  BY <1>10, EndMoves, GotoMoves DEF DefaultHost, Unsaved, Labels, Outside
<1>11. CASE RevokeNew(p)
  BY <1>11, GotoMoves DEF RevokeNew, Labels, Outside
<1>12. CASE Forget(p)
  BY <1>12, EndMoves DEF Forget, Outside
<1>13. CASE ClearStore(p)
  BY <1>13, GotoMoves DEF ClearStore, Labels, Outside
<1>14. CASE Unfile(p)
  BY <1>14, EndMoves, GotoMoves DEF Unfile, Labels, Outside
<1>15. CASE Leave(p)
  BY <1>15, EndMoves, GotoMoves DEF Leave, Labels, Outside
<1>16. CASE RevokeOld(p)
  BY <1>16, GotoMoves DEF RevokeOld, Labels, Outside
<1>17. CASE SignIn(p)
  BY <1>17, EndMoves, GotoMoves DEF SignIn, Labels, Outside
<1>18. CASE Poll(p)
  BY <1>18, EndMoves, GotoMoves, GotoWithMoves, GrantCases DEF Poll, Labels, Outside
<1>19. CASE PollFails(p)
  BY <1>19, EndMoves DEF PollFails, Outside
<1>20. CASE Device(p)
  BY <1>20, EndMoves DEF Device, Outside
<1>21. CASE Exchange(p)
  BY <1>21, EndMoves, GotoWithMoves, GrantCases DEF Exchange, Labels, Outside
<1>22. QED
  BY <1>1, <1>2, <1>3, <1>4, <1>5, <1>6, <1>7, <1>8, <1>9, <1>10, <1>11, <1>12, <1>13, <1>14, <1>15, <1>16, <1>17, <1>18, <1>19, <1>20, <1>21 DEF Step

-----------------------------------------------------------------------------
(* Exclusion and stations.                                                 *)

\* Every step keeps the exclusion.
LEMMA ExcludedStep ==
    ASSUME TypeOK, TokensIssued, HandIsStored, Excluded, [Next]_vars
    PROVE  Excluded'
<1>1. lock = NoProc => \A p \in Procs : cmd[p].pc \in Outside
  BY SessionAssumption DEF Excluded, At, Outside
<1>2. ASSUME NEW p \in Procs, Step(p) PROVE Excluded'
  BY <1>2, StepMoves, Holder, EndMoves, SessionAssumption DEF Excluded, At, Outside, Others
<1>3. ASSUME NEW p \in Procs, Busy(p) \/ Crash(p) PROVE Excluded'
  <2>1. End(p) /\ (lock = p \/ cmd[p].pc \in Outside)
    BY <1>3, Holder DEF Busy, Crash, Outside
  <2>2. QED
    BY <1>1, <2>1, EndMoves, Holder, SessionAssumption DEF Excluded, At, Outside, Others
<1>4. ASSUME NEW p \in Procs, Acquire(p) PROVE Excluded'
  BY <1>1, <1>4, AcquireMoves, CommandShape DEF Excluded, At, Outside, Others, Entry
<1>5. ASSUME NEW p \in Procs, NEW k \in Kinds, Begin(p, k) PROVE Excluded'
  BY <1>5, BeginMoves DEF Excluded, At, Outside, Others
<1>6. CASE World
  BY <1>6, WorldFrame DEF Excluded, At
<1>7. ASSUME NEW p \in Procs, Callback(p) PROVE Excluded'
  <2>1. cmd[p].pc \in Outside /\ cmd'[p].pc \in Outside /\ lock # p /\ lock' = lock
    BY <1>7, CallbackMoves DEF Excluded, At, Outside
  <2>2. QED
    BY <1>7, <2>1, CallbackMoves DEF Excluded, At, Outside, Others
<1>8. QED
  BY StepKinds, <1>2, <1>3, <1>4, <1>5, <1>6, <1>7

\* What is true of a waiting or idle command stays so while others move.
LEMMA StationsOthers ==
    ASSUME StationsKept, NEW p \in Procs, Others(p), StationKept(p)',
           \A q \in Procs : q # p => cmd[q].pc \in Outside
    PROVE  StationsKept'
<1>1. ASSUME NEW q \in Procs, q # p PROVE StationKept(q)'
  BY <1>1 DEF StationsKept, StationKept, At, Others, Outside
<1>2. QED
  BY <1>1 DEF StationsKept

\* An idle command keeps every rule.
LEMMA StationIdle ==
    ASSUME TypeOK, NEW p \in Procs, End(p)
    PROVE  StationKept(p)'
BY EndMoves DEF StationKept, At, Stations

\* A step leaves the command at a station of its kind.
LEMMA StationStep ==
    ASSUME TypeOK, TokensIssued, HandIsStored, StationsKept, NEW p \in Procs, Step(p)
    PROVE  StationKept(p)'
<1>0. StationKept(p) /\ cmd[p].kind \in Kinds /\ NoSession \notin [fam : Nat, gen : Nat, fresh : BOOLEAN]
  BY CommandShape, AbsenceAssumption DEF StationsKept
<1>1. CASE Look(p)
  BY <1>1, <1>0, LookCases, StationIdle, GotoMoves DEF Labels, Kinds, StationKept, Stations, At, NewSignIn
<1>2. CASE RefreshAnswer(p)
  <2>1. CASE End(p)
    BY <2>1, StationIdle
  <2>2. CASE cmd[p].kind # "background" /\ Goto(p, "clear")
    BY <1>2, <1>0, <2>2, AnswerCases, GotoMoves DEF Labels, Kinds, StationKept, Stations, At, NewSignIn
  <2>3. ASSUME NEW t \in Tokens, t.gen = fam[store.fam].cur + 1, GotoWith(p, "save", t)
        PROVE  StationKept(p)'
    <3>1. t.gen # 1 /\ t # NoToken /\ cmd[p].pc = "sent"
      BY <1>2, <2>3, AnswerCases, FamShape, AbsenceAssumption DEF Issued, Families, Tokens
    <3>2. QED
      BY <1>0, <2>3, <3>1, GotoWithMoves DEF Labels, Kinds, StationKept, Stations, At, NewSignIn
  <2>4. QED
    BY <1>2, <2>1, <2>2, <2>3, AnswerCases
<1>3. CASE RefreshError(p)
  BY <1>3, <1>0, StationIdle DEF RefreshError, Kinds, StationKept, Stations, At, NewSignIn
<1>4. CASE RefreshLost(p)
  BY <1>4, <1>0, StationIdle, GotoMoves DEF RefreshLost, Labels, Kinds, StationKept, Stations, At, NewSignIn
<1>5. CASE Retry(p)
  BY <1>5, <1>0, RetryCases, StationIdle DEF Kinds, StationKept, Stations, At, NewSignIn
<1>6. CASE Save(p)
  BY <1>6, <1>0, StationIdle, GotoMoves DEF Save, Labels, Kinds, StationKept, Stations, At, NewSignIn
<1>7. CASE SaveFails(p)
  BY <1>7, <1>0, StationIdle, GotoMoves DEF SaveFails, Unsaved, Labels, Kinds, StationKept, Stations, At, NewSignIn
<1>8. CASE Record(p)
  BY <1>8, <1>0, StationIdle, GotoMoves DEF Record, Labels, Kinds, StationKept, Stations, At, NewSignIn
<1>9. CASE RecordFails(p)
  BY <1>9, <1>0, StationIdle, GotoMoves DEF RecordFails, Unsaved, Labels, Kinds, StationKept, Stations, At, NewSignIn
<1>10. CASE DefaultHost(p)
  BY <1>10, <1>0, StationIdle, GotoMoves DEF DefaultHost, Unsaved, Labels, Kinds, StationKept, Stations, At, NewSignIn
<1>11. CASE RevokeNew(p)
  BY <1>11, <1>0, StationIdle, GotoMoves DEF RevokeNew, Labels, Kinds, StationKept, Stations, At, NewSignIn
<1>12. CASE Forget(p)
  BY <1>12, <1>0, StationIdle DEF Forget, Kinds, StationKept, Stations, At, NewSignIn
<1>13. CASE ClearStore(p)
  BY <1>13, <1>0, StationIdle, GotoMoves DEF ClearStore, Labels, Kinds, StationKept, Stations, At, NewSignIn
<1>14. CASE Unfile(p)
  BY <1>14, <1>0, StationIdle, GotoMoves DEF Unfile, Labels, Kinds, StationKept, Stations, At, NewSignIn
<1>15. CASE Leave(p)
  BY <1>15, <1>0, StationIdle, GotoMoves DEF Leave, Labels, Kinds, StationKept, Stations, At, NewSignIn
<1>16. CASE RevokeOld(p)
  BY <1>16, <1>0, StationIdle, GotoMoves DEF RevokeOld, Labels, Kinds, StationKept, Stations, At, NewSignIn
<1>17. CASE SignIn(p)
  BY <1>17, <1>0, StationIdle, GotoMoves DEF SignIn, Labels, Kinds, StationKept, Stations, At, NewSignIn
<1>18. CASE Poll(p)
  <2>1. CASE Granted(p, "save") /\ UNCHANGED <<session, store>>
    BY <1>18, <1>0, <2>1, GrantCases, GotoWithMoves, AbsenceAssumption DEF Poll, Labels, Kinds, StationKept, Stations, At, NewSignIn, Tokens
  <2>2. QED
    BY <1>18, <1>0, <2>1, StationIdle, GotoMoves DEF Poll, Labels, Kinds, StationKept, Stations, At, NewSignIn
<1>19. CASE PollFails(p)
  BY <1>19, <1>0, StationIdle DEF PollFails, Kinds, StationKept, Stations, At, NewSignIn
<1>20. CASE Device(p)
  BY <1>20, <1>0, StationIdle DEF Device, Kinds, StationKept, Stations, At, NewSignIn
<1>21. CASE Exchange(p)
  <2>1. ASSUME NEW l \in {"save", "revokeOld"}, Granted(p, l), UNCHANGED <<session, store>>,
               l = "revokeOld" => session # NoSession /\ store # NoToken
        PROVE  StationKept(p)'
    <3>1. cmd[p].kind = "loopback"
      BY <1>21, <1>0 DEF Exchange, Labels, Kinds, StationKept, Stations, At, NewSignIn
    <3>2. \E t \in Tokens : t.gen = 1 /\ t # NoToken /\ GotoWith(p, l, t)
      BY <2>1, GrantCases, AbsenceAssumption DEF Labels, Tokens
    <3>3. QED
      BY <1>0, <2>1, <3>1, <3>2, GotoWithMoves DEF Labels, Kinds, StationKept, Stations, At, NewSignIn
  <2>2. QED
    BY <1>21, <1>0, <2>1, StationIdle DEF Exchange, Labels, Kinds, StationKept, Stations, At, NewSignIn
<1>22. QED
  BY <1>1, <1>2, <1>3, <1>4, <1>5, <1>6, <1>7, <1>8, <1>9, <1>10, <1>11, <1>12, <1>13, <1>14, <1>15, <1>16, <1>17, <1>18, <1>19, <1>20, <1>21 DEF Step

\* Every step keeps the commands at stations of their kinds.
LEMMA StationsStep ==
    ASSUME TypeOK, TokensIssued, HandIsStored, StationsKept, Excluded, [Next]_vars
    PROVE  StationsKept'
<1>1. ASSUME NEW p \in Procs, Step(p) PROVE StationsKept'
  BY <1>1, StepMoves, Holder, StationStep, StationsOthers
<1>2. ASSUME NEW p \in Procs, UNCHANGED <<session, store>>, Others(p), StationKept(p)' PROVE StationsKept'
  BY <1>2 DEF StationsKept, StationKept, At, Others
<1>3. ASSUME NEW p \in Procs, Busy(p) \/ Crash(p) PROVE StationsKept'
  BY <1>2, <1>3, EndMoves, StationIdle DEF Busy, Crash
<1>4. ASSUME NEW p \in Procs, Acquire(p) PROVE StationsKept'
  <2>1. StationKept(p)'
    BY <1>4, AcquireMoves, CommandShape DEF StationsKept, StationKept, Stations, Entry, At, Kinds
  <2>2. QED
    BY <1>2, <1>4, <2>1, AcquireMoves
<1>5. ASSUME NEW p \in Procs, NEW k \in Kinds, Begin(p, k) PROVE StationsKept'
  <2>1. StationKept(p)'
    BY <1>5, BeginMoves DEF StationKept, Stations, At, Kinds
  <2>2. QED
    BY <1>2, <1>5, <2>1, BeginMoves
<1>6. CASE World
  BY <1>6, WorldFrame DEF StationsKept, StationKept, At
<1>7. ASSUME NEW p \in Procs, Callback(p) PROVE StationsKept'
  <2>1. StationKept(p)'
    BY <1>7, CallbackMoves, CommandShape DEF StationsKept, StationKept, Stations, At, Kinds
  <2>2. QED
    BY <1>2, <1>7, <2>1, CallbackMoves
<1>8. QED
  BY StepKinds, <1>1, <1>3, <1>4, <1>5, <1>6, <1>7

\* What is true of a waiting or idle command's token stays so while others move.
LEMMA HandOthers ==
    ASSUME HandIsStored, NEW p \in Procs, Others(p), HandStored(p)',
           \A q \in Procs : q # p => cmd[q].pc \in Outside
    PROVE  HandIsStored'
<1>1. ASSUME NEW q \in Procs, q # p PROVE HandStored(q)'
  BY <1>1 DEF HandStored, At, Others, Outside
<1>2. QED
  BY <1>1 DEF HandIsStored

\* A step leaves the command with the stored token, or one to replace it.
LEMMA HandStep ==
    ASSUME TypeOK, TokensIssued, HandIsStored, StationsKept, NEW p \in Procs, Step(p)
    PROVE  HandStored(p)'
<1>0. HandStored(p) /\ StationKept(p) /\ cmd[p].kind \in Kinds
  BY CommandShape DEF StationsKept, HandIsStored
<1>1. CASE Look(p)
  BY <1>1, LookCases, EndMoves, GotoMoves DEF Labels, HandStored, At
<1>2. CASE RefreshAnswer(p)
  <2>1. CASE End(p) \/ Goto(p, "clear")
    BY <2>1, EndMoves, GotoMoves DEF Labels, HandStored, At
  <2>2. ASSUME NEW t \in Tokens, t.fam = store.fam, GotoWith(p, "save", t)
        PROVE  HandStored(p)'
    <3>1. store # NoToken /\ store' = store
      BY <1>2, AnswerCases, AbsenceAssumption DEF Tokens
    <3>2. QED
      BY <2>2, <3>1, GotoWithMoves DEF Labels, HandStored, At
  <2>3. QED
    BY <1>2, <2>1, <2>2, AnswerCases
<1>3. CASE RefreshError(p)
  BY <1>3, <1>0, EndMoves DEF RefreshError, StationKept, HandStored, At
<1>4. CASE RefreshLost(p)
  BY <1>4, <1>0, GotoMoves DEF RefreshLost, Labels, StationKept, HandStored, At
<1>5. CASE Retry(p)
  BY <1>5, RetryCases, EndMoves DEF HandStored, At
<1>6. CASE Save(p)
  BY <1>6, <1>0, GotoMoves DEF Save, Labels, StationKept, HandStored, At
<1>7. CASE SaveFails(p)
  BY <1>7, <1>0, EndMoves, GotoMoves DEF SaveFails, Unsaved, Labels, StationKept, HandStored, At
<1>8. CASE Record(p)
  BY <1>8, <1>0, EndMoves, GotoMoves DEF Record, Labels, StationKept, HandStored, At
<1>9. CASE RecordFails(p)
  BY <1>9, <1>0, EndMoves, GotoMoves DEF RecordFails, Unsaved, Labels, StationKept, HandStored, At
<1>10. CASE DefaultHost(p)
  BY <1>10, <1>0, EndMoves, GotoMoves DEF DefaultHost, Unsaved, Labels, StationKept, HandStored, At
<1>11. CASE RevokeNew(p)
  BY <1>11, <1>0, GotoMoves DEF RevokeNew, Labels, StationKept, HandStored, At
<1>12. CASE Forget(p)
  BY <1>12, <1>0, EndMoves DEF Forget, StationKept, HandStored, At
<1>13. CASE ClearStore(p)
  BY <1>13, <1>0, GotoMoves DEF ClearStore, Labels, StationKept, HandStored, At
<1>14. CASE Unfile(p)
  BY <1>14, <1>0, EndMoves, GotoMoves DEF Unfile, Labels, StationKept, HandStored, At
<1>15. CASE Leave(p)
  BY <1>15, <1>0, EndMoves, GotoMoves DEF Leave, Labels, StationKept, HandStored, At
<1>16. CASE RevokeOld(p)
  BY <1>16, <1>0, GotoMoves DEF RevokeOld, Labels, StationKept, Stations, Kinds, HandStored, At
<1>17. CASE SignIn(p)
  BY <1>17, <1>0, EndMoves, GotoMoves DEF SignIn, Labels, StationKept, HandStored, At
<1>18. CASE Poll(p)
  BY <1>18, GrantCases, EndMoves, GotoMoves, GotoWithMoves DEF Poll, Labels, NewSignIn, HandStored, At
<1>19. CASE PollFails(p)
  BY <1>19, <1>0, EndMoves DEF PollFails, StationKept, HandStored, At
<1>20. CASE Device(p)
  BY <1>20, <1>0, EndMoves DEF Device, StationKept, HandStored, At
<1>21. CASE Exchange(p)
  BY <1>21, GrantCases, EndMoves, GotoWithMoves DEF Exchange, Labels, NewSignIn, HandStored, At
<1>22. QED
  BY <1>1, <1>2, <1>3, <1>4, <1>5, <1>6, <1>7, <1>8, <1>9, <1>10, <1>11, <1>12, <1>13, <1>14, <1>15, <1>16, <1>17, <1>18, <1>19, <1>20, <1>21 DEF Step

\* Every step keeps the tokens in hand tied to the store.
LEMMA HandsStep ==
    ASSUME TypeOK, TokensIssued, HandIsStored, StationsKept, Excluded, [Next]_vars
    PROVE  HandIsStored'
<1>1. ASSUME NEW p \in Procs, Step(p) PROVE HandIsStored'
  BY <1>1, StepMoves, Holder, HandStep, HandOthers
<1>2. ASSUME NEW p \in Procs, UNCHANGED store, Others(p), HandStored(p)' PROVE HandIsStored'
  BY <1>2 DEF HandIsStored, HandStored, At, Others
<1>3. ASSUME NEW p \in Procs, Busy(p) \/ Crash(p) PROVE HandIsStored'
  BY <1>2, <1>3, EndMoves DEF Busy, Crash, HandStored, At
<1>4. ASSUME NEW p \in Procs, Acquire(p) PROVE HandIsStored'
  BY <1>2, <1>4, AcquireMoves DEF HandStored, Entry, At
<1>5. ASSUME NEW p \in Procs, NEW k \in Kinds, Begin(p, k) PROVE HandIsStored'
  BY <1>2, <1>5, BeginMoves DEF HandStored, At
<1>6. CASE World
  BY <1>6, WorldFrame DEF HandIsStored, HandStored, At
<1>7. ASSUME NEW p \in Procs, Callback(p) PROVE HandIsStored'
  BY <1>2, <1>7, CallbackMoves DEF HandStored, At
<1>8. QED
  BY StepKinds, <1>1, <1>3, <1>4, <1>5, <1>6, <1>7

-----------------------------------------------------------------------------
(* The issuer's families.                                                  *)

\* A family keeps its place, its generations grow and its end is final.
FamiliesGrow ==
    /\ fam' \in Seq(Families)
    /\ DOMAIN fam \subseteq DOMAIN fam'
    /\ \A f \in DOMAIN fam : fam'[f].cur >= fam[f].cur /\ (fam'[f].alive => fam[f].alive)
    /\ \A f \in DOMAIN fam' : fam'[f].spent <= fam'[f].cur

\* Families that are left alone stay as they are.
LEMMA FamiliesStay ==
    ASSUME TypeOK, TokensIssued, fam' = fam
    PROVE  FamiliesGrow
BY FamShape DEF FamiliesGrow, TokensIssued, TypeOK, Families

\* A revocation lets families grow.
LEMMA RevokedGrow ==
    ASSUME TypeOK, TokensIssued, NEW t \in Tokens, Issued(t), fam' \in {fam, Revoked(t)}
    PROVE  FamiliesGrow
<1>1. CASE fam' = Revoked(t)
  <2>1. /\ fam' \in Seq(Families) /\ DOMAIN fam' = DOMAIN fam
        /\ ~fam'[t.fam].alive
        /\ \A f \in DOMAIN fam : f # t.fam => fam'[f] = fam[f]
        /\ \A f \in DOMAIN fam : fam'[f].spent = fam[f].spent /\ fam'[f].cur = fam[f].cur
    BY <1>1, RevokedFam DEF Issued
  <2>2. \A f \in DOMAIN fam : fam[f].cur \in Nat /\ fam[f].spent \in Nat
    BY FamShape DEF Families
  <2>3. QED
    BY <2>1, <2>2 DEF FamiliesGrow, TokensIssued, Issued
<1>2. QED
  BY <1>1, FamiliesStay

\* The issuer's answer to a refresh lets families grow.
LEMMA AnswerGrow ==
    ASSUME TypeOK, TokensIssued, NEW t \in Tokens, Issued(t), fam' \in {Rotated(t), Refused(t)}
    PROVE  FamiliesGrow
<1>1. CASE fam' = Rotated(t)
  <2>1. /\ fam' \in Seq(Families) /\ DOMAIN fam' = DOMAIN fam
        /\ fam'[t.fam].cur = fam[t.fam].cur + 1
        /\ \A f \in DOMAIN fam : f # t.fam => fam'[f].cur = fam[f].cur
        /\ \A f \in DOMAIN fam : fam'[f].spent = fam[f].spent /\ fam'[f].alive = fam[f].alive
    BY <1>1, RotatedFam DEF Issued
  <2>2. \A f \in DOMAIN fam : fam[f].cur \in Nat /\ fam[f].spent \in Nat
    BY FamShape DEF Families
  <2>3. \A f \in DOMAIN fam : fam'[f].cur >= fam[f].cur /\ (fam'[f].alive => fam[f].alive)
    BY <2>1, <2>2
  <2>4. \A f \in DOMAIN fam' : fam'[f].spent <= fam'[f].cur
    BY <2>1, <2>2, <2>3 DEF TokensIssued
  <2>5. QED
    BY <2>1, <2>3, <2>4 DEF FamiliesGrow
<1>2. CASE fam' = Refused(t)
  <2>1. /\ fam' \in Seq(Families) /\ DOMAIN fam' = DOMAIN fam
        /\ ~fam'[t.fam].alive
        /\ \A f \in DOMAIN fam : f # t.fam => fam'[f] = fam[f]
        /\ \A f \in DOMAIN fam : fam'[f].spent = fam[f].spent /\ fam'[f].cur = fam[f].cur
    BY <1>2, RefusedFam DEF Issued
  <2>2. \A f \in DOMAIN fam : fam[f].cur \in Nat /\ fam[f].spent \in Nat
    BY FamShape DEF Families
  <2>3. QED
    BY <2>1, <2>2 DEF FamiliesGrow, TokensIssued, Issued
<1>3. QED
  BY <1>1, <1>2

\* A grant lets families grow.
LEMMA GrantGrow ==
    ASSUME TypeOK, TokensIssued, NEW p \in Procs, NEW l \in Labels, Granted(p, l)
    PROVE  FamiliesGrow
<1>1. /\ fam' \in Seq(Families) /\ DOMAIN fam' = 1 .. (Len(fam) + 1)
      /\ fam'[Len(fam) + 1] = NewFamily
      /\ \A f \in DOMAIN fam : fam'[f] = fam[f]
  BY GrantCases
<1>2. QED
  BY <1>1, FamShape DEF FamiliesGrow, TokensIssued, NewFamily, Families

\* The end of a leeway makes the newest generation the only one in use.
LEMMA LeewayGrow ==
    ASSUME TypeOK, TokensIssued, LeewayEnds
    PROVE  /\ FamiliesGrow /\ DOMAIN fam' = DOMAIN fam
           /\ \A f \in DOMAIN fam : /\ fam'[f].cur = fam[f].cur /\ fam'[f].alive = fam[f].alive
                                    /\ fam'[f].reused = fam[f].reused
<1>1. \A f \in 1 .. Len(fam) : [fam[f] EXCEPT !.spent = fam[f].cur] \in Families
  BY FamShape DEF Families
<1>2. fam' = [f \in 1 .. Len(fam) |-> [fam[f] EXCEPT !.spent = fam[f].cur]]
  BY FamShape DEF LeewayEnds
<1>3. fam' \in Seq(Families)
  BY <1>1, <1>2, FamShape
<1>4. \A f \in DOMAIN fam : /\ fam'[f].cur = fam[f].cur /\ fam'[f].alive = fam[f].alive
                            /\ fam'[f].reused = fam[f].reused /\ fam'[f].spent = fam[f].cur
  BY <1>2, FamShape DEF Families
<1>5. QED
  BY <1>2, <1>3, <1>4, FamShape DEF FamiliesGrow, Families

\* An ended family lets families grow.
LEMMA EndedGrow ==
    ASSUME TypeOK, TokensIssued, NEW f \in DOMAIN fam, FamilyEnds(f)
    PROVE  /\ FamiliesGrow /\ DOMAIN fam' = DOMAIN fam
           /\ \A e \in DOMAIN fam : fam'[e].cur = fam[e].cur /\ fam'[e].reused = fam[e].reused
<1> DEFINE r == [fam[f] EXCEPT !.alive = FALSE]
<1>1. r \in Families /\ r.cur = fam[f].cur /\ r.spent = fam[f].spent /\ ~r.alive /\ r.reused = fam[f].reused
  BY FamShape DEF Families
<1>2. fam' = [fam EXCEPT ![f] = r]
  BY DEF FamilyEnds
<1> HIDE DEF r
<1>3. /\ fam' \in Seq(Families) /\ DOMAIN fam' = DOMAIN fam /\ fam'[f] = r
      /\ \A e \in DOMAIN fam : e # f => fam'[e] = fam[e]
  BY <1>1, <1>2, ChangedFam
<1>4. \A e \in DOMAIN fam : fam[e].cur \in Nat /\ fam[e].spent \in Nat
  BY FamShape DEF Families
<1>5. QED
  BY <1>1, <1>3, <1>4 DEF FamiliesGrow, TokensIssued

\* Every step lets families grow.
LEMMA FamStep ==
    ASSUME TypeOK, TokensIssued, StationsKept, HandIsStored, [Next]_vars
    PROVE  FamiliesGrow
<1>1. ASSUME NEW p \in Procs, Look(p) PROVE FamiliesGrow
  BY <1>1, FamiliesStay DEF Look, issuer
<1>2. ASSUME NEW p \in Procs, RefreshAnswer(p) PROVE FamiliesGrow
  BY <1>2, AnswerCases, AnswerGrow
<1>3. ASSUME NEW p \in Procs, RefreshError(p) PROVE FamiliesGrow
  BY <1>3, FamiliesStay DEF RefreshError, issuer
<1>4. ASSUME NEW p \in Procs, RefreshLost(p) PROVE FamiliesGrow
  BY <1>4, FamiliesStay DEF RefreshLost, issuer
<1>5. ASSUME NEW p \in Procs, Retry(p) PROVE FamiliesGrow
  BY <1>5, FamiliesStay DEF Retry, issuer
<1>6. ASSUME NEW p \in Procs, Save(p) PROVE FamiliesGrow
  BY <1>6, FamiliesStay DEF Save, issuer
<1>7. ASSUME NEW p \in Procs, SaveFails(p) PROVE FamiliesGrow
  BY <1>7, FamiliesStay DEF SaveFails, issuer
<1>8. ASSUME NEW p \in Procs, Record(p) PROVE FamiliesGrow
  BY <1>8, FamiliesStay DEF Record, issuer
<1>9. ASSUME NEW p \in Procs, RecordFails(p) PROVE FamiliesGrow
  BY <1>9, FamiliesStay DEF RecordFails, issuer
<1>10. ASSUME NEW p \in Procs, DefaultHost(p) PROVE FamiliesGrow
  BY <1>10, FamiliesStay DEF DefaultHost, issuer
<1>11. ASSUME NEW p \in Procs, RevokeNew(p) PROVE FamiliesGrow
  <2>1. cmd[p].hand \in Tokens /\ Issued(cmd[p].hand)
    BY <1>11, CommandShape DEF RevokeNew, StationsKept, StationKept, At, TokensIssued
  <2>2. QED
    BY <1>11, <2>1, RevokedGrow DEF RevokeNew
<1>12. ASSUME NEW p \in Procs, Forget(p) PROVE FamiliesGrow
  BY <1>12, FamiliesStay DEF Forget, issuer
<1>13. ASSUME NEW p \in Procs, ClearStore(p) PROVE FamiliesGrow
  BY <1>13, FamiliesStay DEF ClearStore, issuer
<1>14. ASSUME NEW p \in Procs, Unfile(p) PROVE FamiliesGrow
  BY <1>14, FamiliesStay DEF Unfile, issuer
<1>15. ASSUME NEW p \in Procs, Leave(p) PROVE FamiliesGrow
  BY <1>15, FamiliesStay DEF Leave, issuer
<1>16. ASSUME NEW p \in Procs, RevokeOld(p) PROVE FamiliesGrow
  <2>1. store \in Tokens /\ Issued(store)
    BY <1>16 DEF RevokeOld, StationsKept, StationKept, At, TokensIssued, TypeOK
  <2>2. QED
    BY <1>16, <2>1, RevokedGrow DEF RevokeOld
<1>17. ASSUME NEW p \in Procs, SignIn(p) PROVE FamiliesGrow
  BY <1>17, FamiliesStay DEF SignIn, issuer
<1>18. ASSUME NEW p \in Procs, Poll(p) PROVE FamiliesGrow
  BY <1>18, FamiliesStay, GrantGrow DEF Poll, Labels
<1>19. ASSUME NEW p \in Procs, PollFails(p) PROVE FamiliesGrow
  BY <1>19, FamiliesStay DEF PollFails, issuer
<1>20. ASSUME NEW p \in Procs, Device(p) PROVE FamiliesGrow
  BY <1>20, FamiliesStay DEF Device, issuer
<1>21. ASSUME NEW p \in Procs, Exchange(p) PROVE FamiliesGrow
  BY <1>21, FamiliesStay, GrantGrow DEF Exchange, Labels
<1>22. ASSUME NEW p \in Procs, Acquire(p) PROVE FamiliesGrow
  BY <1>22, FamiliesStay DEF Acquire, issuer
<1>23. ASSUME NEW p \in Procs, Busy(p) PROVE FamiliesGrow
  BY <1>23, FamiliesStay DEF Busy, issuer
<1>24. ASSUME NEW p \in Procs, Crash(p) PROVE FamiliesGrow
  BY <1>24, FamiliesStay DEF Crash, issuer
<1>25. ASSUME NEW p \in Procs, NEW k \in Kinds, Begin(p, k) PROVE FamiliesGrow
  BY <1>25, FamiliesStay DEF Begin, issuer
<1>26. CASE World
  <2>1. ASSUME NEW t \in late, LateArrive(t) PROVE FamiliesGrow
    <3>1. t \in Tokens /\ Issued(t)
      BY DEF TokensIssued, TypeOK
    <3>2. QED
      BY <2>1, <3>1, AnswerGrow DEF LateArrive
  <2>2. CASE Age \/ Interval \/ CodeExpires \/ Confirm \/ Deny \/ UNCHANGED vars
    BY <2>2, FamiliesStay DEF Age, Interval, CodeExpires, Confirm, Deny, issuer, vars
  <2>3. QED
    BY <1>26, <2>1, <2>2, LeewayGrow, EndedGrow DEF World
<1>27. ASSUME NEW p \in Procs, Callback(p) PROVE FamiliesGrow
  BY <1>27, FamiliesStay DEF Callback, issuer
<1>28. QED
  BY StepKinds, <1>1, <1>2, <1>3, <1>4, <1>5, <1>6, <1>7, <1>8, <1>9, <1>10, <1>11, <1>12, <1>13, <1>14, <1>15, <1>16, <1>17, <1>18, <1>19, <1>20, <1>21, <1>22, <1>23, <1>24, <1>25, <1>26, <1>27 DEF Step

\* The issuer has given out t by the end of the step.
IssuedNext(t) == t.fam \in DOMAIN fam' /\ 1 <= t.gen /\ t.gen <= fam'[t.fam].cur

\* A token that was issued stays issued, and a family that ended stays ended.
LEMMA IssuedStays ==
    ASSUME TypeOK, FamiliesGrow, NEW t, t.gen \in Nat, Issued(t)
    PROVE  IssuedNext(t) /\ (Dead(t) => ~fam'[t.fam].alive)
<1>1. t.fam \in DOMAIN fam /\ t.fam \in DOMAIN fam'
  BY DEF Issued, FamiliesGrow
<1>2. fam[t.fam] \in Families /\ fam'[t.fam] \in Families
  BY <1>1, FamShape DEF FamiliesGrow
<1>3. QED
  BY <1>1, <1>2 DEF Issued, IssuedNext, Dead, FamiliesGrow, Families

-----------------------------------------------------------------------------
(* What a step does to the files.                                          *)

\* The store is cleared, or takes the token in hand.
LEMMA StoreChanges ==
    ASSUME TypeOK, HandIsStored, [Next]_vars
    PROVE  \/ store' = store
           \/ \E p \in Procs : ClearStore(p) /\ store' = NoToken
           \/ \E p \in Procs : (Save(p) \/ SaveFails(p)) /\ store' = cmd[p].hand
<1> DEFINE Changes == \/ store' = store
                      \/ \E p \in Procs : ClearStore(p) /\ store' = NoToken
                      \/ \E p \in Procs : (Save(p) \/ SaveFails(p)) /\ store' = cmd[p].hand
<1>1. ASSUME NEW p \in Procs, Look(p) PROVE Changes
  BY <1>1, LookCases
<1>2. ASSUME NEW p \in Procs, RefreshAnswer(p) PROVE Changes
  BY <1>2 DEF RefreshAnswer
<1>3. ASSUME NEW p \in Procs, RefreshError(p) PROVE Changes
  BY <1>3 DEF RefreshError
<1>4. ASSUME NEW p \in Procs, RefreshLost(p) PROVE Changes
  BY <1>4 DEF RefreshLost
<1>5. ASSUME NEW p \in Procs, Retry(p) PROVE Changes
  BY <1>5, RetryCases
<1>6. ASSUME NEW p \in Procs, Save(p) PROVE Changes
  BY <1>6 DEF Save
<1>7. ASSUME NEW p \in Procs, SaveFails(p) PROVE Changes
  BY <1>7 DEF SaveFails
<1>8. ASSUME NEW p \in Procs, Record(p) PROVE Changes
  BY <1>8 DEF Record
<1>9. ASSUME NEW p \in Procs, RecordFails(p) PROVE Changes
  BY <1>9 DEF RecordFails
<1>10. ASSUME NEW p \in Procs, DefaultHost(p) PROVE Changes
  BY <1>10 DEF DefaultHost
<1>11. ASSUME NEW p \in Procs, RevokeNew(p) PROVE Changes
  BY <1>11 DEF RevokeNew
<1>12. ASSUME NEW p \in Procs, Forget(p) PROVE Changes
  BY <1>12 DEF Forget
<1>13. ASSUME NEW p \in Procs, ClearStore(p) PROVE Changes
  BY <1>13 DEF ClearStore
<1>14. ASSUME NEW p \in Procs, Unfile(p) PROVE Changes
  BY <1>14 DEF Unfile
<1>15. ASSUME NEW p \in Procs, Leave(p) PROVE Changes
  BY <1>15 DEF Leave
<1>16. ASSUME NEW p \in Procs, RevokeOld(p) PROVE Changes
  BY <1>16 DEF RevokeOld
<1>17. ASSUME NEW p \in Procs, SignIn(p) PROVE Changes
  BY <1>17 DEF SignIn
<1>18. ASSUME NEW p \in Procs, Poll(p) PROVE Changes
  BY <1>18 DEF Poll
<1>19. ASSUME NEW p \in Procs, PollFails(p) PROVE Changes
  BY <1>19 DEF PollFails
<1>20. ASSUME NEW p \in Procs, Device(p) PROVE Changes
  BY <1>20 DEF Device
<1>21. ASSUME NEW p \in Procs, Exchange(p) PROVE Changes
  BY <1>21 DEF Exchange
<1>22. ASSUME NEW p \in Procs, Acquire(p) PROVE Changes
  BY <1>22 DEF Acquire
<1>23. ASSUME NEW p \in Procs, Busy(p) PROVE Changes
  BY <1>23 DEF Busy
<1>24. ASSUME NEW p \in Procs, Crash(p) PROVE Changes
  BY <1>24 DEF Crash
<1>25. ASSUME NEW p \in Procs, NEW k \in Kinds, Begin(p, k) PROVE Changes
  BY <1>25 DEF Begin
<1>26. CASE World
  BY <1>26, WorldFrame
<1>27. ASSUME NEW p \in Procs, Callback(p) PROVE Changes
  BY <1>27 DEF Callback
<1>28. QED
  BY StepKinds, <1>1, <1>2, <1>3, <1>4, <1>5, <1>6, <1>7, <1>8, <1>9, <1>10, <1>11, <1>12, <1>13, <1>14, <1>15, <1>16, <1>17, <1>18, <1>19, <1>20, <1>21, <1>22, <1>23, <1>24, <1>25, <1>26, <1>27 DEF Step

\* session.json goes, or takes the token in hand; otherwise it only ages.
LEMMA SessionChanges ==
    ASSUME TypeOK, HandIsStored, [Next]_vars
    PROVE  \/ /\ session' = NoSession <=> session = NoSession
              /\ session # NoSession => session'.fam = session.fam /\ session'.gen = session.gen
           \/ \E p \in Procs : Unfile(p) /\ session' = NoSession
           \/ \E p \in Procs : /\ Record(p) /\ session' # NoSession
                               /\ session'.fam = cmd[p].hand.fam /\ session'.gen = cmd[p].hand.gen
<1> DEFINE Changes == \/ /\ session' = NoSession <=> session = NoSession
                         /\ session # NoSession => session'.fam = session.fam /\ session'.gen = session.gen
                      \/ \E p \in Procs : Unfile(p) /\ session' = NoSession
                      \/ \E p \in Procs : /\ Record(p) /\ session' # NoSession
                                          /\ session'.fam = cmd[p].hand.fam /\ session'.gen = cmd[p].hand.gen
<1>1. ASSUME NEW p \in Procs, Look(p) PROVE Changes
  BY <1>1, LookCases
<1>2. ASSUME NEW p \in Procs, RefreshAnswer(p) PROVE Changes
  BY <1>2 DEF RefreshAnswer
<1>3. ASSUME NEW p \in Procs, RefreshError(p) PROVE Changes
  BY <1>3 DEF RefreshError
<1>4. ASSUME NEW p \in Procs, RefreshLost(p) PROVE Changes
  BY <1>4 DEF RefreshLost
<1>5. ASSUME NEW p \in Procs, Retry(p) PROVE Changes
  BY <1>5, RetryCases
<1>6. ASSUME NEW p \in Procs, Save(p) PROVE Changes
  BY <1>6 DEF Save
<1>7. ASSUME NEW p \in Procs, SaveFails(p) PROVE Changes
  BY <1>7 DEF SaveFails
<1>8. ASSUME NEW p \in Procs, Record(p) PROVE Changes
  <2>1. cmd[p].hand \in Tokens
    BY <1>8, CommandShape DEF Record, HandIsStored, HandStored, At
  <2>2. session' = [fam |-> cmd[p].hand.fam, gen |-> cmd[p].hand.gen, fresh |-> TRUE]
    BY <1>8 DEF Record
  <2>3. session' \in [fam : Nat, gen : Nat, fresh : BOOLEAN]
    BY <2>1, <2>2 DEF Tokens
  <2>4. QED
    BY <1>8, <2>2, <2>3, AbsenceAssumption
<1>9. ASSUME NEW p \in Procs, RecordFails(p) PROVE Changes
  BY <1>9 DEF RecordFails
<1>10. ASSUME NEW p \in Procs, DefaultHost(p) PROVE Changes
  BY <1>10 DEF DefaultHost
<1>11. ASSUME NEW p \in Procs, RevokeNew(p) PROVE Changes
  BY <1>11 DEF RevokeNew
<1>12. ASSUME NEW p \in Procs, Forget(p) PROVE Changes
  BY <1>12 DEF Forget
<1>13. ASSUME NEW p \in Procs, ClearStore(p) PROVE Changes
  BY <1>13 DEF ClearStore
<1>14. ASSUME NEW p \in Procs, Unfile(p) PROVE Changes
  BY <1>14 DEF Unfile
<1>15. ASSUME NEW p \in Procs, Leave(p) PROVE Changes
  BY <1>15 DEF Leave
<1>16. ASSUME NEW p \in Procs, RevokeOld(p) PROVE Changes
  BY <1>16 DEF RevokeOld
<1>17. ASSUME NEW p \in Procs, SignIn(p) PROVE Changes
  BY <1>17 DEF SignIn
<1>18. ASSUME NEW p \in Procs, Poll(p) PROVE Changes
  BY <1>18 DEF Poll
<1>19. ASSUME NEW p \in Procs, PollFails(p) PROVE Changes
  BY <1>19 DEF PollFails
<1>20. ASSUME NEW p \in Procs, Device(p) PROVE Changes
  BY <1>20 DEF Device
<1>21. ASSUME NEW p \in Procs, Exchange(p) PROVE Changes
  BY <1>21 DEF Exchange
<1>22. ASSUME NEW p \in Procs, Acquire(p) PROVE Changes
  BY <1>22 DEF Acquire
<1>23. ASSUME NEW p \in Procs, Busy(p) PROVE Changes
  BY <1>23 DEF Busy
<1>24. ASSUME NEW p \in Procs, Crash(p) PROVE Changes
  BY <1>24 DEF Crash
<1>25. ASSUME NEW p \in Procs, NEW k \in Kinds, Begin(p, k) PROVE Changes
  BY <1>25 DEF Begin
<1>26. CASE World
  BY <1>26, WorldFrame
<1>27. ASSUME NEW p \in Procs, Callback(p) PROVE Changes
  BY <1>27 DEF Callback
<1>28. QED
  BY StepKinds, <1>1, <1>2, <1>3, <1>4, <1>5, <1>6, <1>7, <1>8, <1>9, <1>10, <1>11, <1>12, <1>13, <1>14, <1>15, <1>16, <1>17, <1>18, <1>19, <1>20, <1>21, <1>22, <1>23, <1>24, <1>25, <1>26, <1>27 DEF Step

\* What is stored or in hand was issued, and stays so.
LEMMA AllIssued ==
    ASSUME TypeOK, TokensIssued, FamiliesGrow
    PROVE  /\ store # NoToken => store \in Tokens /\ Issued(store) /\ IssuedNext(store)
           /\ session # NoSession => IssuedNext(session)
           /\ \A t \in late : t \in Tokens /\ IssuedNext(t)
           /\ \A p \in Procs : cmd[p].hand # NoToken =>
                 cmd[p].hand \in Tokens /\ Issued(cmd[p].hand) /\ IssuedNext(cmd[p].hand)
<1>1. store # NoToken => store \in Tokens /\ Issued(store) /\ store.gen \in Nat
  BY DEF TypeOK, TokensIssued, Tokens
<1>2. session # NoSession => Issued(session) /\ session.gen \in Nat
  BY DEF TypeOK, TokensIssued
<1>3. \A t \in late : t \in Tokens /\ Issued(t) /\ t.gen \in Nat
  BY DEF TypeOK, TokensIssued, Tokens
<1>4. \A p \in Procs : cmd[p].hand # NoToken =>
        cmd[p].hand \in Tokens /\ Issued(cmd[p].hand) /\ cmd[p].hand.gen \in Nat
  BY CommandShape DEF TokensIssued, Tokens
<1>5. QED
  BY <1>1, <1>2, <1>3, <1>4, IssuedStays

\* The files keep to issued tokens.
LEMMA FilesIssued ==
    ASSUME TypeOK, TokensIssued, FamiliesGrow, StationsKept, HandIsStored, [Next]_vars
    PROVE  /\ store' # NoToken => IssuedNext(store')
           /\ session' # NoSession => IssuedNext(session')
<1>1. store' # NoToken => IssuedNext(store')
  BY AllIssued, StoreChanges DEF Save, SaveFails, StationsKept, StationKept, At
<1>2. session' # NoSession => IssuedNext(session')
  <2>1. ASSUME NEW p \in Procs, Record(p),
               session'.fam = cmd[p].hand.fam /\ session'.gen = cmd[p].hand.gen
        PROVE  IssuedNext(session')
    <3>1. IssuedNext(cmd[p].hand)
      BY <2>1, AllIssued DEF Record, StationsKept, StationKept, At
    <3>2. QED
      BY <2>1, <3>1 DEF IssuedNext
  <2>2. CASE /\ session' = NoSession <=> session = NoSession
             /\ session # NoSession => session'.fam = session.fam /\ session'.gen = session.gen
    BY <2>2, AllIssued DEF IssuedNext
  <2>3. QED
    BY <2>1, <2>2, SessionChanges
<1>3. QED
  BY <1>1, <1>2

\* Requests nobody waits for carry issued tokens.
LEMMA LateIssued ==
    ASSUME TypeOK, TokensIssued, FamiliesGrow, HandIsStored, [Next]_vars
    PROVE  \A t \in late' : IssuedNext(t)
<1>0. /\ \A t \in late : IssuedNext(t)
      /\ \A p \in Procs : cmd[p].pc = "sent" => IssuedNext(cmd[p].hand)
  BY AllIssued DEF HandIsStored, HandStored, At
<1> DEFINE Late == \A t \in late' : IssuedNext(t)
<1>1. ASSUME NEW p \in Procs, Look(p) PROVE Late
  BY <1>1, <1>0, LookCases DEF issuer
<1>2. ASSUME NEW p \in Procs, RefreshAnswer(p) PROVE Late
  BY <1>2, <1>0 DEF RefreshAnswer, issuer
<1>3. ASSUME NEW p \in Procs, RefreshError(p) PROVE Late
  BY <1>3, <1>0 DEF RefreshError, issuer
<1>4. ASSUME NEW p \in Procs, RefreshLost(p) PROVE Late
  BY <1>4, <1>0 DEF RefreshLost, issuer
<1>5. ASSUME NEW p \in Procs, Retry(p) PROVE Late
  BY <1>5, <1>0, RetryCases DEF issuer
<1>6. ASSUME NEW p \in Procs, Save(p) PROVE Late
  BY <1>6, <1>0 DEF Save, issuer
<1>7. ASSUME NEW p \in Procs, SaveFails(p) PROVE Late
  BY <1>7, <1>0 DEF SaveFails, issuer
<1>8. ASSUME NEW p \in Procs, Record(p) PROVE Late
  BY <1>8, <1>0 DEF Record, issuer
<1>9. ASSUME NEW p \in Procs, RecordFails(p) PROVE Late
  BY <1>9, <1>0 DEF RecordFails, issuer
<1>10. ASSUME NEW p \in Procs, DefaultHost(p) PROVE Late
  BY <1>10, <1>0 DEF DefaultHost, issuer
<1>11. ASSUME NEW p \in Procs, RevokeNew(p) PROVE Late
  BY <1>11, <1>0 DEF RevokeNew, issuer
<1>12. ASSUME NEW p \in Procs, Forget(p) PROVE Late
  BY <1>12, <1>0 DEF Forget, issuer
<1>13. ASSUME NEW p \in Procs, ClearStore(p) PROVE Late
  BY <1>13, <1>0 DEF ClearStore, issuer
<1>14. ASSUME NEW p \in Procs, Unfile(p) PROVE Late
  BY <1>14, <1>0 DEF Unfile, issuer
<1>15. ASSUME NEW p \in Procs, Leave(p) PROVE Late
  BY <1>15, <1>0 DEF Leave, issuer
<1>16. ASSUME NEW p \in Procs, RevokeOld(p) PROVE Late
  BY <1>16, <1>0 DEF RevokeOld, issuer
<1>17. ASSUME NEW p \in Procs, SignIn(p) PROVE Late
  BY <1>17, <1>0 DEF SignIn, issuer
<1>18. ASSUME NEW p \in Procs, Poll(p) PROVE Late
  BY <1>18, <1>0 DEF Poll, issuer
<1>19. ASSUME NEW p \in Procs, PollFails(p) PROVE Late
  BY <1>19, <1>0 DEF PollFails, issuer
<1>20. ASSUME NEW p \in Procs, Device(p) PROVE Late
  BY <1>20, <1>0 DEF Device, issuer
<1>21. ASSUME NEW p \in Procs, Exchange(p) PROVE Late
  BY <1>21, <1>0 DEF Exchange, issuer
<1>22. ASSUME NEW p \in Procs, Acquire(p) PROVE Late
  BY <1>22, <1>0 DEF Acquire, issuer
<1>23. ASSUME NEW p \in Procs, Busy(p) PROVE Late
  BY <1>23, <1>0 DEF Busy, issuer
<1>24. ASSUME NEW p \in Procs, Crash(p) PROVE Late
  BY <1>24, <1>0 DEF Crash, issuer
<1>25. ASSUME NEW p \in Procs, NEW k \in Kinds, Begin(p, k) PROVE Late
  BY <1>25, <1>0 DEF Begin, issuer
<1>26. CASE World
  BY <1>26, <1>0 DEF World, LateArrive, FamilyEnds, LeewayEnds, Age, Interval, CodeExpires, Confirm, Deny, issuer, vars
<1>27. ASSUME NEW p \in Procs, Callback(p) PROVE Late
  BY <1>27, <1>0 DEF Callback, issuer
<1>28. QED
  BY StepKinds, <1>1, <1>2, <1>3, <1>4, <1>5, <1>6, <1>7, <1>8, <1>9, <1>10, <1>11, <1>12, <1>13, <1>14, <1>15, <1>16, <1>17, <1>18, <1>19, <1>20, <1>21, <1>22, <1>23, <1>24, <1>25, <1>26, <1>27 DEF Step

\* A command holds issued tokens.
LEMMA HandsIssued ==
    ASSUME TypeOK, TokensIssued, FamiliesGrow, HandIsStored, [Next]_vars
    PROVE  \A q \in Procs : cmd'[q].hand # NoToken => IssuedNext(cmd'[q].hand)
<1>0. \A q \in Procs : cmd[q].hand # NoToken => IssuedNext(cmd[q].hand)
  BY AllIssued
<1> DEFINE Held == \A q \in Procs : cmd'[q].hand # NoToken => IssuedNext(cmd'[q].hand)
<1>grant. ASSUME NEW p \in Procs, NEW l \in Labels, Granted(p, l) PROVE Held
  <2>1. PICK t \in Tokens : t.fam = Len(fam) + 1 /\ t.gen = 1 /\ GotoWith(p, l, t)
    BY <1>grant, GrantCases
  <2>2. IssuedNext(t)
    BY <1>grant, <2>1, GrantCases, FamShape DEF IssuedNext, NewFamily
  <2>3. QED
    BY <1>0, <2>1, <2>2, GotoWithMoves DEF Others
<1>1. ASSUME NEW p \in Procs, Look(p) PROVE Held
  BY <1>1, <1>0, AllIssued, EndMoves, GotoMoves, LookCases DEF Others, Labels
<1>2. ASSUME NEW p \in Procs, RefreshAnswer(p) PROVE Held
  <2>1. CASE End(p) \/ Goto(p, "clear")
    BY <1>0, <2>1, EndMoves, GotoMoves DEF Labels, Others
  <2>2. ASSUME NEW t \in Tokens, t.fam = store.fam, t.gen = fam[store.fam].cur + 1,
               fam' = Rotated(store), GotoWith(p, "save", t)
        PROVE  Held
    <3>1. store \in Tokens /\ Issued(store)
      BY <1>2, AnswerCases
    <3>2. DOMAIN fam' = DOMAIN fam /\ fam'[store.fam].cur = fam[store.fam].cur + 1 /\ fam[store.fam].cur \in Nat
      BY <2>2, <3>1, RotatedFam, FamShape DEF Issued, Families
    <3>3. IssuedNext(t)
      BY <2>2, <3>1, <3>2 DEF IssuedNext, Issued, Tokens
    <3>4. QED
      BY <1>0, <2>2, <3>3, GotoWithMoves DEF Labels, Others
  <2>3. QED
    BY <1>2, <2>1, <2>2, AnswerCases
<1>3. ASSUME NEW p \in Procs, RefreshError(p) PROVE Held
  BY <1>3, <1>0, EndMoves DEF RefreshError, Others
<1>4. ASSUME NEW p \in Procs, RefreshLost(p) PROVE Held
  BY <1>4, <1>0, GotoMoves DEF RefreshLost, Others, Labels
<1>5. ASSUME NEW p \in Procs, Retry(p) PROVE Held
  BY <1>5, <1>0, AllIssued, EndMoves, RetryCases DEF Others
<1>6. ASSUME NEW p \in Procs, Save(p) PROVE Held
  BY <1>6, <1>0, GotoMoves DEF Save, Others, Labels
<1>7. ASSUME NEW p \in Procs, SaveFails(p) PROVE Held
  BY <1>7, <1>0, EndMoves, GotoMoves DEF SaveFails, Unsaved, Others, Labels
<1>8. ASSUME NEW p \in Procs, Record(p) PROVE Held
  BY <1>8, <1>0, EndMoves, GotoMoves DEF Record, Others, Labels
<1>9. ASSUME NEW p \in Procs, RecordFails(p) PROVE Held
  BY <1>9, <1>0, EndMoves, GotoMoves DEF RecordFails, Unsaved, Others, Labels
<1>10. ASSUME NEW p \in Procs, DefaultHost(p) PROVE Held
  BY <1>10, <1>0, EndMoves, GotoMoves DEF DefaultHost, Unsaved, Others, Labels
<1>11. ASSUME NEW p \in Procs, RevokeNew(p) PROVE Held
  BY <1>11, <1>0, GotoMoves DEF RevokeNew, Others, Labels
<1>12. ASSUME NEW p \in Procs, Forget(p) PROVE Held
  BY <1>12, <1>0, EndMoves DEF Forget, Others
<1>13. ASSUME NEW p \in Procs, ClearStore(p) PROVE Held
  BY <1>13, <1>0, GotoMoves DEF ClearStore, Others, Labels
<1>14. ASSUME NEW p \in Procs, Unfile(p) PROVE Held
  BY <1>14, <1>0, EndMoves, GotoMoves DEF Unfile, Others, Labels
<1>15. ASSUME NEW p \in Procs, Leave(p) PROVE Held
  BY <1>15, <1>0, EndMoves, GotoMoves DEF Leave, Others, Labels
<1>16. ASSUME NEW p \in Procs, RevokeOld(p) PROVE Held
  BY <1>16, <1>0, GotoMoves DEF RevokeOld, Others, Labels
<1>17. ASSUME NEW p \in Procs, SignIn(p) PROVE Held
  BY <1>17, <1>0, EndMoves, GotoMoves DEF SignIn, Others, Labels
<1>18. ASSUME NEW p \in Procs, Poll(p) PROVE Held
  BY <1>18, <1>0, <1>grant, EndMoves, GotoMoves DEF Poll, Others, Labels
<1>19. ASSUME NEW p \in Procs, PollFails(p) PROVE Held
  BY <1>19, <1>0, EndMoves DEF PollFails, Others
<1>20. ASSUME NEW p \in Procs, Device(p) PROVE Held
  BY <1>20, <1>0, EndMoves DEF Device, Others
<1>21. ASSUME NEW p \in Procs, Exchange(p) PROVE Held
  BY <1>21, <1>0, <1>grant, EndMoves DEF Exchange, Others, Labels
<1>22. ASSUME NEW p \in Procs, Acquire(p) PROVE Held
  BY <1>22, <1>0, AcquireMoves DEF Others
<1>23. ASSUME NEW p \in Procs, Busy(p) PROVE Held
  BY <1>23, <1>0, EndMoves DEF Busy, Others
<1>24. ASSUME NEW p \in Procs, Crash(p) PROVE Held
  BY <1>24, <1>0, EndMoves DEF Crash, Others
<1>25. ASSUME NEW p \in Procs, NEW k \in Kinds, Begin(p, k) PROVE Held
  BY <1>25, <1>0, BeginMoves DEF Others
<1>26. CASE World
  BY <1>26, <1>0, WorldFrame
<1>27. ASSUME NEW p \in Procs, Callback(p) PROVE Held
  BY <1>27, <1>0, EndMoves, GotoMoves DEF Callback, Others, Labels
<1>28. QED
  BY StepKinds, <1>1, <1>2, <1>3, <1>4, <1>5, <1>6, <1>7, <1>8, <1>9, <1>10, <1>11, <1>12, <1>13, <1>14, <1>15, <1>16, <1>17, <1>18, <1>19, <1>20, <1>21, <1>22, <1>23, <1>24, <1>25, <1>26, <1>27 DEF Step

\* Every step keeps to issued tokens.
LEMMA TokensStep ==
    ASSUME TypeOK, TokensIssued, StationsKept, HandIsStored, [Next]_vars
    PROVE  TokensIssued'
<1>1. FamiliesGrow
  BY FamStep
<1>2. /\ store' # NoToken => IssuedNext(store')
      /\ session' # NoSession => IssuedNext(session')
      /\ \A t \in late' : IssuedNext(t)
      /\ \A p \in Procs : cmd'[p].hand # NoToken => IssuedNext(cmd'[p].hand)
  BY <1>1, FilesIssued, LateIssued, HandsIssued
<1>3. QED
  BY <1>1, <1>2 DEF TokensIssued, FamiliesGrow, Issued, IssuedNext

-----------------------------------------------------------------------------
(* The cache and the store.                                                *)

\* Where a token that is about to be stored comes from.
LEMMA Savers ==
    ASSUME TypeOK, TokensIssued, HandIsStored, StationsKept, NEW p \in Procs, Step(p),
           cmd'[p].pc \in {"save", "revokeOld"}, cmd'[p].hand # NoToken
    PROVE  /\ UNCHANGED <<session, store, lossy>> /\ cmd'[p].kind = cmd[p].kind
           /\ \/ RevokeOld(p) /\ cmd'[p].pc = "save" /\ cmd'[p].hand = cmd[p].hand
              \/ /\ RefreshAnswer(p) /\ cmd'[p].pc = "save"
                 /\ fam' = Rotated(store) /\ cmd'[p].hand \in Tokens
                 /\ cmd'[p].hand.fam = store.fam
                 /\ cmd'[p].hand.gen = fam[store.fam].cur + 1
              \/ /\ Poll(p) \/ Exchange(p)
                 /\ cmd'[p].hand \in Tokens
                 /\ cmd'[p].hand.fam = Len(fam) + 1 /\ cmd'[p].hand.gen = 1
                 /\ DOMAIN fam' = 1 .. (Len(fam) + 1) /\ fam'[Len(fam) + 1] = NewFamily
                 /\ \A f \in DOMAIN fam : fam'[f] = fam[f]
<1> DEFINE Saver == /\ UNCHANGED <<session, store, lossy>> /\ cmd'[p].kind = cmd[p].kind
           /\ \/ RevokeOld(p) /\ cmd'[p].pc = "save" /\ cmd'[p].hand = cmd[p].hand
              \/ /\ RefreshAnswer(p) /\ cmd'[p].pc = "save"
                 /\ fam' = Rotated(store) /\ cmd'[p].hand \in Tokens
                 /\ cmd'[p].hand.fam = store.fam
                 /\ cmd'[p].hand.gen = fam[store.fam].cur + 1
              \/ /\ Poll(p) \/ Exchange(p)
                 /\ cmd'[p].hand \in Tokens
                 /\ cmd'[p].hand.fam = Len(fam) + 1 /\ cmd'[p].hand.gen = 1
                 /\ DOMAIN fam' = 1 .. (Len(fam) + 1) /\ fam'[Len(fam) + 1] = NewFamily
                 /\ \A f \in DOMAIN fam : fam'[f] = fam[f]
<1>0. StationKept(p) /\ cmd[p].kind \in Kinds
  BY CommandShape DEF StationsKept
<1>1. CASE Look(p)
  BY <1>1, LookCases, EndMoves, GotoMoves DEF Labels
<1>2. CASE RefreshAnswer(p)
  BY <1>2, AnswerCases, EndMoves, GotoMoves, GotoWithMoves DEF Labels, history
<1>3. CASE RefreshError(p)
  BY <1>3, EndMoves DEF RefreshError
<1>4. CASE RefreshLost(p)
  BY <1>4, GotoMoves DEF RefreshLost, Labels
<1>5. CASE Retry(p)
  BY <1>5, RetryCases, EndMoves
<1>6. CASE Save(p)
  BY <1>6, GotoMoves DEF Save, Labels
<1>7. CASE SaveFails(p)
  BY <1>7, EndMoves, GotoMoves DEF SaveFails, Unsaved, Labels
<1>8. CASE Record(p)
  BY <1>8, EndMoves, GotoMoves DEF Record, Labels
<1>9. CASE RecordFails(p)
  BY <1>9, EndMoves, GotoMoves DEF RecordFails, Unsaved, Labels
<1>10. CASE DefaultHost(p)
  BY <1>10, EndMoves, GotoMoves DEF DefaultHost, Unsaved, Labels
<1>11. CASE RevokeNew(p)
  BY <1>11, GotoMoves DEF RevokeNew, Labels
<1>12. CASE Forget(p)
  BY <1>12, EndMoves DEF Forget
<1>13. CASE ClearStore(p)
  BY <1>13, GotoMoves DEF ClearStore, Labels
<1>14. CASE Unfile(p)
  BY <1>14, EndMoves, GotoMoves DEF Unfile, Labels
<1>15. CASE Leave(p)
  BY <1>15, <1>0, EndMoves, GotoMoves DEF Leave, Labels, StationKept, Stations, At, Kinds
<1>16. CASE RevokeOld(p)
  BY <1>16, <1>0, GotoMoves DEF RevokeOld, Labels, StationKept
<1>17. CASE SignIn(p)
  BY <1>17, EndMoves, GotoMoves DEF SignIn, Labels
<1>18. CASE Poll(p)
  BY <1>18, GrantCases, EndMoves, GotoMoves, GotoWithMoves DEF Poll, Labels, history
<1>19. CASE PollFails(p)
  BY <1>19, EndMoves DEF PollFails
<1>20. CASE Device(p)
  BY <1>20, EndMoves DEF Device
<1>21. CASE Exchange(p)
  BY <1>21, GrantCases, EndMoves, GotoWithMoves DEF Exchange, Labels, history
<1>22. QED
  BY <1>1, <1>2, <1>3, <1>4, <1>5, <1>6, <1>7, <1>8, <1>9, <1>10, <1>11, <1>12, <1>13, <1>14, <1>15, <1>16, <1>17, <1>18, <1>19, <1>20, <1>21 DEF Step

\* session.json is not newer than t by the end of the step.
NotAheadNext(t) ==
    session' # NoSession =>
        \/ session'.fam < t.fam
        \/ session'.fam = t.fam /\ session'.gen <= t.gen

\* A stored token stays at least as new as session.json.
LEMMA StoreBehind ==
    ASSUME TypeOK, HandIsStored, StationsKept, Excluded, CacheBehind, [Next]_vars, store' # NoToken
    PROVE  NotAheadNext(store')
<1>1. \A p \in Procs : Save(p) \/ SaveFails(p) => cmd[p].hand # NoToken /\ NotAhead(cmd[p].hand)
  BY DEF Save, SaveFails, StationsKept, StationKept, CacheBehind, At
<1>2. CASE /\ session' = NoSession <=> session = NoSession
           /\ session # NoSession => session'.fam = session.fam /\ session'.gen = session.gen
  <2>1. NotAhead(store')
    BY <1>1, StoreChanges DEF CacheBehind
  <2>2. QED
    BY <1>2, <2>1 DEF NotAhead, NotAheadNext
<1>3. ASSUME NEW p \in Procs, Record(p),
             session'.fam = cmd[p].hand.fam /\ session'.gen = cmd[p].hand.gen
      PROVE  NotAheadNext(store')
  <2>1. store' = store /\ store = cmd[p].hand /\ store \in Tokens
    BY <1>3 DEF Record, HandIsStored, HandStored, At, TypeOK
  <2>2. QED
    BY <1>3, <2>1 DEF NotAheadNext, Tokens
<1>4. QED
  BY <1>2, <1>3, SessionChanges DEF NotAheadNext

\* So does a token that is about to be stored.
LEMMA SaverBehind ==
    ASSUME TypeOK, TokensIssued, HandIsStored, StationsKept, Excluded, CacheBehind,
           NEW p \in Procs, Step(p), cmd'[p].pc \in {"save", "revokeOld"}, cmd'[p].hand # NoToken
    PROVE  NotAheadNext(cmd'[p].hand)
<1>0. session' = session /\ (session # NoSession => session.fam \in Nat /\ session.gen \in Nat)
  BY Savers DEF TypeOK
<1>1. CASE RevokeOld(p) /\ cmd'[p].hand = cmd[p].hand
  BY <1>0, <1>1 DEF RevokeOld, CacheBehind, NotAhead, NotAheadNext, At
<1>2. CASE /\ RefreshAnswer(p) /\ cmd'[p].hand.fam = store.fam
           /\ cmd'[p].hand.gen = fam[store.fam].cur + 1
  <2>1. store \in Tokens /\ store.gen <= fam[store.fam].cur /\ fam[store.fam].cur \in Nat
    BY <1>2, AnswerCases, FamShape DEF Issued, Families
  <2>2. NotAhead(store)
    BY <2>1, AbsenceAssumption DEF CacheBehind, Tokens
  <2>3. QED
    BY <1>0, <1>2, <2>1, <2>2 DEF NotAhead, NotAheadNext, Tokens
<1>3. CASE cmd'[p].hand.fam = Len(fam) + 1
  BY <1>0, <1>3, FamShape DEF NotAheadNext, TokensIssued, Issued
<1>4. QED
  BY <1>1, <1>2, <1>3, Savers

\* Every step keeps the cache behind.
LEMMA CacheStep ==
    ASSUME TypeOK, TokensIssued, HandIsStored, StationsKept, Excluded, CacheBehind, [Next]_vars
    PROVE  CacheBehind'
<1> DEFINE Behind == \A q \in Procs : cmd'[q].pc \in {"save", "revokeOld"} /\ cmd'[q].hand # NoToken =>
                        NotAheadNext(cmd'[q].hand)
<1>1. ASSUME NEW p \in Procs, Step(p) PROVE Behind
  BY <1>1, StepMoves, Holder, SaverBehind DEF Others, Outside
<1>2. ASSUME NEW p \in Procs, Others(p), cmd'[p].pc \notin {"save", "revokeOld"}, session' = session
      PROVE  Behind
  BY <1>2 DEF Others, CacheBehind, At, NotAhead, NotAheadNext
<1>3. ASSUME NEW p \in Procs, Busy(p) \/ Crash(p) PROVE Behind
  BY <1>2, <1>3, EndMoves DEF Busy, Crash
<1>4. ASSUME NEW p \in Procs, Acquire(p) PROVE Behind
  BY <1>2, <1>4, AcquireMoves DEF Entry
<1>5. ASSUME NEW p \in Procs, NEW k \in Kinds, Begin(p, k) PROVE Behind
  BY <1>2, <1>5, BeginMoves
<1>6. ASSUME World PROVE Behind
  BY <1>6, WorldFrame DEF CacheBehind, At, NotAhead, NotAheadNext
<1>7. ASSUME NEW p \in Procs, Callback(p) PROVE Behind
  BY <1>2, <1>7, CallbackMoves
<1> HIDE DEF Behind
<1>8. Behind
  BY StepKinds, <1>1, <1>3, <1>4, <1>5, <1>6, <1>7
<1>9. store' # NoToken => NotAheadNext(store')
  BY StoreBehind
<1>10. QED
  BY <1>8, <1>9 DEF Behind, CacheBehind, NotAhead, NotAheadNext, At

-----------------------------------------------------------------------------
(* What may be given up.                                                   *)

\* Loose by the end of the step.
LooseNext(t) == ~fam'[t.fam].alive \/ t.fam \in adrift'

\* A family that was cut loose is not forgotten.
LEMMA AdriftGrows ==
    ASSUME TypeOK, HandIsStored, [Next]_vars
    PROVE  adrift \subseteq adrift'
<1> DEFINE Grows == adrift \subseteq adrift'
<1>1. ASSUME NEW p \in Procs, Look(p) PROVE Grows
  BY <1>1, LookCases DEF history
<1>2. ASSUME NEW p \in Procs, RefreshAnswer(p) PROVE Grows
  BY <1>2 DEF RefreshAnswer, history
<1>3. ASSUME NEW p \in Procs, RefreshError(p) PROVE Grows
  BY <1>3 DEF RefreshError, history
<1>4. ASSUME NEW p \in Procs, RefreshLost(p) PROVE Grows
  BY <1>4 DEF RefreshLost, history
<1>5. ASSUME NEW p \in Procs, Retry(p) PROVE Grows
  BY <1>5, RetryCases DEF history
<1>6. ASSUME NEW p \in Procs, Save(p) PROVE Grows
  BY <1>6 DEF Save, history
<1>7. ASSUME NEW p \in Procs, SaveFails(p) PROVE Grows
  BY <1>7 DEF SaveFails, history
<1>8. ASSUME NEW p \in Procs, Record(p) PROVE Grows
  BY <1>8 DEF Record, history
<1>9. ASSUME NEW p \in Procs, RecordFails(p) PROVE Grows
  BY <1>9 DEF RecordFails, history
<1>10. ASSUME NEW p \in Procs, DefaultHost(p) PROVE Grows
  BY <1>10 DEF DefaultHost, history
<1>11. ASSUME NEW p \in Procs, RevokeNew(p) PROVE Grows
  BY <1>11 DEF RevokeNew, history
<1>12. ASSUME NEW p \in Procs, Forget(p) PROVE Grows
  BY <1>12 DEF Forget, history
<1>13. ASSUME NEW p \in Procs, ClearStore(p) PROVE Grows
  BY <1>13 DEF ClearStore, history
<1>14. ASSUME NEW p \in Procs, Unfile(p) PROVE Grows
  BY <1>14 DEF Unfile, history
<1>15. ASSUME NEW p \in Procs, Leave(p) PROVE Grows
  BY <1>15 DEF Leave, history
<1>16. ASSUME NEW p \in Procs, RevokeOld(p) PROVE Grows
  BY <1>16 DEF RevokeOld, history
<1>17. ASSUME NEW p \in Procs, SignIn(p) PROVE Grows
  BY <1>17 DEF SignIn, history
<1>18. ASSUME NEW p \in Procs, Poll(p) PROVE Grows
  BY <1>18 DEF Poll, history
<1>19. ASSUME NEW p \in Procs, PollFails(p) PROVE Grows
  BY <1>19 DEF PollFails, history
<1>20. ASSUME NEW p \in Procs, Device(p) PROVE Grows
  BY <1>20 DEF Device, history
<1>21. ASSUME NEW p \in Procs, Exchange(p) PROVE Grows
  BY <1>21 DEF Exchange, history
<1>22. ASSUME NEW p \in Procs, Acquire(p) PROVE Grows
  BY <1>22 DEF Acquire, history
<1>23. ASSUME NEW p \in Procs, Busy(p) PROVE Grows
  BY <1>23 DEF Busy, history
<1>24. ASSUME NEW p \in Procs, Crash(p) PROVE Grows
  BY <1>24 DEF Crash, history
<1>25. ASSUME NEW p \in Procs, NEW k \in Kinds, Begin(p, k) PROVE Grows
  BY <1>25 DEF Begin, history
<1>26. CASE World
  BY <1>26, WorldFrame
<1>27. ASSUME NEW p \in Procs, Callback(p) PROVE Grows
  BY <1>27 DEF Callback, history
<1>28. QED
  BY StepKinds, <1>1, <1>2, <1>3, <1>4, <1>5, <1>6, <1>7, <1>8, <1>9, <1>10, <1>11, <1>12, <1>13, <1>14, <1>15, <1>16, <1>17, <1>18, <1>19, <1>20, <1>21, <1>22, <1>23, <1>24, <1>25, <1>26, <1>27 DEF Step

\* A loose token stays loose, a dead one dead.
LEMMA LooseStays ==
    ASSUME TypeOK, TokensIssued, HandIsStored, FamiliesGrow, [Next]_vars
    PROVE  /\ store # NoToken =>
                 (Loose(store) => LooseNext(store)) /\ (Dead(store) => ~fam'[store.fam].alive)
           /\ \A p \in Procs : cmd[p].hand # NoToken => (Loose(cmd[p].hand) => LooseNext(cmd[p].hand))
BY AdriftGrows, AllIssued DEF FamiliesGrow, Issued, Loose, LooseNext, Dead

\* A stored token that session.json does not go with is loose, unless its
\* command is still settling.
LEMMA UnmatchedLoose ==
    ASSUME StoreExpendable, Excluded, NEW p \in Procs, cmd[p].pc \notin Outside, ~Settling(p),
           store # NoToken, Unmatched
    PROVE  Loose(store)
BY Holder DEF StoreExpendable, Settling, At, Outside

\* A command that is about to give a stored token up finds it loose.
LEMMA ExpendsStep ==
    ASSUME TypeOK, TokensIssued, HandIsStored, StationsKept, Excluded, StoreExpendable,
           FamiliesGrow, NEW p \in Procs, Step(p), [Next]_vars, store' # NoToken
    PROVE  Expends(p)'
<1>0. /\ StationKept(p) /\ cmd[p].kind \in Kinds
      /\ store # NoToken => Expends(p) /\ store \in Tokens /\ Issued(store)
  BY CommandShape, AllIssued DEF StationsKept, StoreExpendable
<1>1. store # NoToken => (Loose(store) => LooseNext(store)) /\ (Dead(store) => ~fam'[store.fam].alive)
  BY LooseStays
<1>2. store # NoToken /\ Unmatched /\ ~Settling(p) => Loose(store)
  BY StepMoves, UnmatchedLoose
<1> DEFINE Spares == /\ cmd'[p].pc = "save" /\ cmd'[p].hand.gen = 1 => LooseNext(store')
                     /\ cmd'[p].pc \in {"clear", "unfile"} => LooseNext(store')
                     /\ cmd'[p].pc \in {"clear", "unfile"} /\ cmd'[p].kind # "logout" => ~fam'[store'.fam].alive
<1>3. Spares => Expends(p)'
  BY DEF Expends, Loose, LooseNext, Dead, At, NewSignIn
<1> HIDE DEF Spares
<1>4. ASSUME Look(p) PROVE Spares
  BY <1>4, LookCases, EndMoves, GotoMoves DEF Spares, Labels
<1>5. ASSUME RefreshAnswer(p) PROVE Spares
  <2>1. CASE End(p)
    BY <2>1, EndMoves DEF Spares
  <2>2. CASE fam' = Refused(store) /\ Goto(p, "clear")
    <3>1. store' = store /\ store \in Tokens /\ Issued(store)
      BY <1>5, AnswerCases
    <3>2. ~fam'[store.fam].alive
      BY <2>2, <3>1, RefusedFam DEF Issued
    <3>3. QED
      BY <2>2, <3>1, <3>2, GotoMoves DEF Spares, LooseNext, Labels
  <2>3. ASSUME NEW t \in Tokens, t.gen = fam[store.fam].cur + 1, GotoWith(p, "save", t)
        PROVE  Spares
    <3>1. t.gen # 1
      BY <1>5, <2>3, AnswerCases, FamShape DEF Issued, Families, Tokens
    <3>2. QED
      BY <2>3, <3>1, GotoWithMoves DEF Spares, Labels
  <2>4. QED
    BY <1>5, <2>1, <2>2, <2>3, AnswerCases
<1>6. ASSUME RefreshError(p) PROVE Spares
  BY <1>6, EndMoves DEF Spares, RefreshError
<1>7. ASSUME RefreshLost(p) PROVE Spares
  BY <1>7, GotoMoves DEF Spares, RefreshLost, Labels
<1>8. ASSUME Retry(p) PROVE Spares
  BY <1>8, RetryCases, EndMoves DEF Spares
<1>9. ASSUME Save(p) PROVE Spares
  BY <1>9, GotoMoves DEF Spares, Save, Labels
<1>10. ASSUME SaveFails(p) PROVE Spares
  BY <1>10, EndMoves, GotoMoves DEF Spares, SaveFails, Unsaved, Labels
<1>11. ASSUME Record(p) PROVE Spares
  BY <1>11, EndMoves, GotoMoves DEF Spares, Record, Labels
<1>12. ASSUME RecordFails(p) PROVE Spares
  BY <1>12, EndMoves, GotoMoves DEF Spares, RecordFails, Unsaved, Labels
<1>13. ASSUME DefaultHost(p) PROVE Spares
  BY <1>13, EndMoves, GotoMoves DEF Spares, DefaultHost, Unsaved, Labels
<1>14. ASSUME RevokeNew(p) PROVE Spares
  BY <1>14, GotoMoves DEF Spares, RevokeNew, Labels
<1>15. ASSUME Forget(p) PROVE Spares
  BY <1>15, EndMoves DEF Spares, Forget
<1>16. ASSUME ClearStore(p) PROVE Spares
  <2>1. store' = store /\ Goto(p, "unfile") /\ cmd[p].pc = "clear"
    BY <1>16 DEF ClearStore
  <2>2. QED
    BY <1>0, <1>1, <2>1, GotoMoves DEF Spares, Labels, Expends, At
<1>17. ASSUME Unfile(p) PROVE Spares
  BY <1>17, EndMoves, GotoMoves DEF Spares, Unfile, Labels
<1>18. ASSUME Leave(p) PROVE Spares
  <2>1. CASE Goto(p, "unfile") /\ store' = store /\ session # NoSession /\ adrift' = adrift \union {session.fam}
    <3>1. cmd[p].pc = "leave" /\ cmd[p].kind = "logout"
      BY <1>18, <1>0 DEF Leave, StationKept, Stations, At, Kinds
    <3>2. LooseNext(store)
      BY <1>1, <1>2, <2>1, <3>1 DEF LooseNext, Loose, Unmatched, Settling, At
    <3>3. QED
      BY <2>1, <3>1, <3>2, GotoMoves DEF Spares, Labels
  <2>2. QED
    BY <1>18, <2>1, EndMoves, GotoMoves DEF Spares, Leave, Labels
<1>19. ASSUME RevokeOld(p) PROVE Spares
  <2>1. LooseNext(store) /\ store' = store
    <3>1. store \in Tokens /\ Issued(store)
      BY <1>19, <1>0 DEF RevokeOld
    <3>2. ~Revoked(store)[store.fam].alive
      BY <3>1, RevokedFam DEF Issued
    <3>3. QED
      BY <1>19, <3>2 DEF RevokeOld, LooseNext
  <2>2. QED
    BY <1>19, <2>1, GotoMoves DEF Spares, RevokeOld, Labels
<1>20. ASSUME SignIn(p) PROVE Spares
  BY <1>20, EndMoves, GotoMoves DEF Spares, SignIn, Labels
<1>21. ASSUME Poll(p) PROVE Spares
  <2>1. cmd[p].pc = "poll" /\ session = NoSession /\ store' = store
    BY <1>21, <1>0 DEF Poll, StationKept, At
  <2>2. LooseNext(store')
    BY <1>1, <1>2, <2>1 DEF Unmatched, Settling, At
  <2>3. QED
    BY <1>21, <2>2, GrantCases, EndMoves, GotoMoves, GotoWithMoves DEF Spares, Poll, Labels
<1>22. ASSUME PollFails(p) PROVE Spares
  BY <1>22, EndMoves DEF Spares, PollFails
<1>23. ASSUME Device(p) PROVE Spares
  BY <1>23, EndMoves DEF Spares, Device
<1>24. ASSUME Exchange(p) PROVE Spares
  <2>1. store' = store /\ cmd[p].pc = "exchange"
    BY <1>24 DEF Exchange
  <2>2. CASE session = NoSession \/ adrift' = adrift \union {store.fam}
    <3>1. LooseNext(store')
      BY <1>1, <1>2, <2>1, <2>2 DEF Unmatched, Settling, LooseNext, At
    <3>2. QED
      BY <1>24, <3>1, GrantCases, EndMoves, GotoWithMoves DEF Spares, Exchange, Labels
  <2>3. CASE Granted(p, "revokeOld")
    BY <2>3, GrantCases, GotoWithMoves DEF Spares, Labels
  <2>4. QED
    BY <1>24, <2>1, <2>2, <2>3, EndMoves DEF Spares, Exchange
<1>25. QED
  BY <1>3, <1>4, <1>5, <1>6, <1>7, <1>8, <1>9, <1>10, <1>11, <1>12, <1>13, <1>14, <1>15, <1>16, <1>17, <1>18, <1>19, <1>20, <1>21, <1>22, <1>23, <1>24 DEF Step

\* By the end of the step the stored token goes with session.json, or is
\* loose, or its command is still settling.
SettledNext ==
    \/ session' # NoSession /\ session'.fam = store'.fam
    \/ LooseNext(store')
    \/ \E q \in Procs : /\ cmd'[q].pc \in {"record", "revoke"}
                        /\ cmd'[q].hand # NoToken /\ cmd'[q].hand.gen = 1
                        /\ cmd'[q].hand.fam = store'.fam

\* So it is when the files stay and the command, if it was settling, cut its
\* family loose.
LEMMA SettledStays ==
    ASSUME TypeOK, TokensIssued, HandIsStored, FamiliesGrow, StoreExpendable, [Next]_vars,
           NEW p \in Procs, Others(p), store' = store, store # NoToken,
           session' = NoSession <=> session = NoSession,
           session # NoSession => session'.fam = session.fam,
           Settling(p) => cmd[p].hand.fam \in adrift'
    PROVE  SettledNext
<1>1. CASE ~Unmatched
  BY <1>1 DEF Unmatched, SettledNext
<1>2. CASE Loose(store)
  BY <1>2, LooseStays DEF SettledNext
<1>3. ASSUME NEW q \in Procs, Settling(q), cmd[q].hand.fam = store.fam PROVE SettledNext
  BY <1>3 DEF Settling, Others, SettledNext, LooseNext, At, NewSignIn
<1>4. QED
  BY <1>1, <1>2, <1>3 DEF StoreExpendable

\* Every step of a command leaves the stored token settled.
LEMMA SettledStep ==
    ASSUME TypeOK, TokensIssued, HandIsStored, StationsKept, Excluded, StoreExpendable,
           FamiliesGrow, NEW p \in Procs, Step(p), [Next]_vars, store' # NoToken
    PROVE  SettledNext
<1>0. /\ StationKept(p) /\ HandStored(p) /\ cmd[p].kind \in Kinds /\ Others(p)
      /\ cmd[p].hand \in Tokens \union {NoToken}
      /\ store # NoToken => Expends(p) /\ store \in Tokens /\ Issued(store)
      /\ cmd[p].hand # NoToken => cmd[p].hand \in Tokens /\ Issued(cmd[p].hand)
  BY CommandShape, AllIssued, StepMoves DEF StationsKept, HandIsStored, StoreExpendable
<1>1. /\ store # NoToken => (Loose(store) => LooseNext(store))
      /\ store # NoToken /\ Unmatched /\ ~Settling(p) => Loose(store)
  BY StepMoves, UnmatchedLoose, LooseStays
<1>2. ASSUME store' = store, session' = session, ~At(p, {"record", "revoke"}) PROVE SettledNext
  BY <1>0, <1>2, SettledStays DEF Settling, At
<1>3. ASSUME Look(p) PROVE SettledNext
  BY <1>3, <1>2, LookCases DEF At
<1>4. ASSUME RefreshAnswer(p) PROVE SettledNext
  BY <1>4, <1>2 DEF RefreshAnswer, At
<1>5. ASSUME RefreshError(p) PROVE SettledNext
  BY <1>5, <1>2 DEF RefreshError, At
<1>6. ASSUME RefreshLost(p) PROVE SettledNext
  BY <1>6, <1>2 DEF RefreshLost, At
<1>7. ASSUME Retry(p) PROVE SettledNext
  BY <1>7, <1>2, RetryCases DEF At
<1>8. ASSUME Save(p) PROVE SettledNext
  <2>1. /\ cmd[p].pc = "save" /\ store' = cmd[p].hand /\ session' = session /\ fam' = fam /\ adrift' = adrift
        /\ cmd'[p].pc = "record" /\ cmd'[p].hand = cmd[p].hand
    BY <1>8, GotoMoves DEF Save, Labels, issuer, history
  <2>2. CASE NewSignIn(cmd[p].hand)
    BY <2>1, <2>2 DEF SettledNext, NewSignIn
  <2>3. CASE ~NewSignIn(cmd[p].hand)
    <3>1. store # NoToken /\ store.fam = cmd[p].hand.fam
      BY <1>0, <2>1, <2>3 DEF HandStored, At
    <3>2. QED
      BY <1>1, <2>1, <3>1 DEF Settling, At, Unmatched, Loose, LooseNext, Dead, SettledNext
  <2>4. QED
    BY <2>2, <2>3
<1>9. ASSUME SaveFails(p) PROVE SettledNext
  <2>1. /\ cmd[p].pc = "save" /\ store' \in {store, cmd[p].hand} /\ session' = session /\ fam' = fam
        /\ adrift \subseteq adrift'
        /\ cmd[p].kind = "loopback" => cmd[p].hand.fam \in adrift'
    BY <1>9 DEF SaveFails, issuer
  <2>2. CASE store' = store
    BY <1>9, <1>2, <2>1, <2>2 DEF At
  <2>3. CASE store' = cmd[p].hand /\ NewSignIn(cmd[p].hand) /\ cmd[p].kind = "command"
    BY <1>9, <2>3, GotoMoves DEF SaveFails, Unsaved, Labels, SettledNext, NewSignIn
  <2>4. CASE store' = cmd[p].hand /\ cmd[p].kind = "loopback"
    BY <2>1, <2>4 DEF SettledNext, LooseNext
  <2>5. CASE store' = cmd[p].hand /\ ~NewSignIn(cmd[p].hand)
    <3>1. store # NoToken /\ store.fam = cmd[p].hand.fam
      BY <1>0, <2>1, <2>5 DEF HandStored, At
    <3>2. QED
      BY <1>1, <2>1, <2>5, <3>1 DEF Settling, At, Unmatched, Loose, LooseNext, Dead, SettledNext
  <2>6. QED
    BY <1>0, <2>1, <2>2, <2>3, <2>4, <2>5 DEF StationKept, Stations, At, Kinds
<1>10. ASSUME Record(p) PROVE SettledNext
  <2>1. store' = store /\ store = cmd[p].hand /\ store \in Tokens
    BY <1>10, <1>0 DEF Record, HandStored, At
  <2>2. session' = [fam |-> store.fam, gen |-> store.gen, fresh |-> TRUE]
    BY <1>10, <2>1 DEF Record
  <2>3. session' \in [fam : Nat, gen : Nat, fresh : BOOLEAN] /\ session'.fam = store'.fam
    BY <2>1, <2>2 DEF Tokens
  <2>4. QED
    BY <2>3, AbsenceAssumption DEF SettledNext
<1>11. ASSUME RecordFails(p) PROVE SettledNext
  <2>1. /\ cmd[p].pc = "record" /\ store' = store /\ session' = session
        /\ store # NoToken /\ cmd[p].hand = store
        /\ cmd[p].kind = "loopback" => cmd[p].hand.fam \in adrift'
    BY <1>11, <1>0 DEF RecordFails, HandStored, At
  <2>2. CASE NewSignIn(cmd[p].hand) /\ cmd[p].kind = "command"
    BY <1>11, <2>1, <2>2, GotoMoves DEF RecordFails, Unsaved, Labels, SettledNext, NewSignIn
  <2>3. CASE cmd[p].kind = "loopback"
    BY <2>1, <2>3 DEF SettledNext, LooseNext
  <2>4. CASE ~NewSignIn(cmd[p].hand)
    BY <1>0, <2>1, <2>4, SettledStays DEF Settling
  <2>5. QED
    BY <1>0, <2>1, <2>2, <2>3, <2>4 DEF StationKept, Stations, At, Kinds
<1>12. ASSUME DefaultHost(p) PROVE SettledNext
  BY <1>12, <1>2 DEF DefaultHost, At
<1>13. ASSUME RevokeNew(p) PROVE SettledNext
  <2>1. /\ cmd[p].pc = "revoke" /\ store' = store /\ session' = session
        /\ cmd[p].hand # NoToken
    BY <1>13, <1>0 DEF RevokeNew, StationKept, At
  <2>2. CASE cmd[p].hand.fam \in adrift'
    BY <1>0, <2>1, <2>2, SettledStays
  <2>3. CASE fam' = Revoked(cmd[p].hand)
    <3>1. ~fam'[cmd[p].hand.fam].alive
      BY <1>0, <2>1, <2>3, RevokedFam DEF Issued
    <3>2. CASE cmd[p].hand.fam = store.fam
      BY <2>1, <3>1, <3>2 DEF SettledNext, LooseNext
    <3>3. CASE cmd[p].hand.fam # store.fam
      BY <1>1, <2>1, <3>3, StepMoves, Holder DEF StoreExpendable, SettledNext, Settling, At, Outside, Unmatched
    <3>4. QED
      BY <3>2, <3>3
  <2>4. QED
    BY <1>13, <2>2, <2>3 DEF RevokeNew
<1>14. ASSUME Forget(p) PROVE SettledNext
  BY <1>14, <1>2 DEF Forget, At
<1>15. ASSUME ClearStore(p) PROVE SettledNext
  BY <1>15, <1>2 DEF ClearStore, At
<1>16. ASSUME Unfile(p) PROVE SettledNext
  <2>1. store' = store /\ cmd[p].pc = "unfile"
    BY <1>16 DEF Unfile
  <2>2. QED
    BY <1>0, <1>1, <2>1 DEF Expends, At, SettledNext
<1>17. ASSUME Leave(p) PROVE SettledNext
  BY <1>17, <1>2 DEF Leave, At
<1>18. ASSUME RevokeOld(p) PROVE SettledNext
  BY <1>18, <1>2 DEF RevokeOld, At
<1>19. ASSUME SignIn(p) PROVE SettledNext
  BY <1>19, <1>2 DEF SignIn, At
<1>20. ASSUME Poll(p) PROVE SettledNext
  BY <1>20, <1>2 DEF Poll, At
<1>21. ASSUME PollFails(p) PROVE SettledNext
  BY <1>21, <1>2 DEF PollFails, At
<1>22. ASSUME Device(p) PROVE SettledNext
  BY <1>22, <1>2 DEF Device, At
<1>23. ASSUME Exchange(p) PROVE SettledNext
  BY <1>23, <1>2 DEF Exchange, At
<1>24. QED
  BY <1>3, <1>4, <1>5, <1>6, <1>7, <1>8, <1>9, <1>10, <1>11, <1>12, <1>13, <1>14, <1>15, <1>16, <1>17, <1>18, <1>19, <1>20, <1>21, <1>22, <1>23 DEF Step

\* Every step spares a stored token that is not loose.
LEMMA ExpendableStep ==
    ASSUME TypeOK, TokensIssued, HandIsStored, StationsKept, Excluded, StoreExpendable, [Next]_vars
    PROVE  StoreExpendable'
<1>1. FamiliesGrow
  BY FamStep
<1> DEFINE Spared == \A q \in Procs :
                        /\ cmd'[q].pc = "save" /\ cmd'[q].hand.gen = 1 => LooseNext(store')
                        /\ cmd'[q].pc \in {"clear", "unfile"} => LooseNext(store')
                        /\ cmd'[q].pc \in {"clear", "unfile"} /\ cmd'[q].kind # "logout" =>
                              ~fam'[store'.fam].alive
<1> DEFINE Expendable == store' # NoToken => Spared /\ SettledNext
<1>2. ASSUME NEW p \in Procs, Step(p) PROVE Expendable
  <2>1. CASE store' # NoToken
    <3>1. SettledNext
      BY <1>1, <1>2, <2>1, SettledStep
    <3>2. \A q \in Procs : q # p => cmd'[q].pc \in Outside
      BY <1>2, StepMoves, Holder DEF Others
    <3>3. Expends(p)'
      BY <1>1, <1>2, <2>1, ExpendsStep
    <3>4. Spared
      BY <3>2, <3>3 DEF Expends, Loose, LooseNext, Dead, At, NewSignIn, Outside
    <3>5. QED
      BY <3>1, <3>4
  <2>2. QED
    BY <2>1
<1>3. store # NoToken => (Loose(store) => LooseNext(store)) /\ (Dead(store) => ~fam'[store.fam].alive)
  BY <1>1, LooseStays
<1>4. ASSUME NEW p \in Procs, Others(p), store' = store,
             cmd'[p].pc \notin {"save", "clear", "unfile"}
      PROVE  Spared \/ store' = NoToken
  BY <1>3, <1>4 DEF Others, StoreExpendable, Expends, At, NewSignIn
<1>5. ASSUME NEW p \in Procs, Busy(p) \/ Crash(p) PROVE Expendable
  <2>1. /\ Others(p) /\ store' = store /\ session' = session /\ cmd'[p].pc = "idle"
        /\ Settling(p) => cmd[p].hand.fam \in adrift'
    BY <1>5, EndMoves DEF Busy, Crash, Settling, At
  <2>2. QED
    BY <1>1, <1>4, <2>1, SettledStays
<1>6. ASSUME NEW p \in Procs, Acquire(p) PROVE Expendable
  <2>1. /\ Others(p) /\ store' = store /\ session' = session
        /\ cmd'[p].pc \in {"leave", "exchange", "look"} /\ ~Settling(p)
    BY <1>6, AcquireMoves DEF Entry, Settling, At
  <2>2. QED
    BY <1>1, <1>4, <2>1, SettledStays
<1>7. ASSUME NEW p \in Procs, NEW k \in Kinds, Begin(p, k) PROVE Expendable
  <2>1. /\ Others(p) /\ store' = store /\ session' = session
        /\ cmd'[p].pc \in {"browse", "want"} /\ ~Settling(p)
    BY <1>7, BeginMoves DEF Settling, At
  <2>2. QED
    BY <1>1, <1>4, <2>1, SettledStays
<1>8. ASSUME World PROVE Expendable
  <2>1. /\ \A p \in Procs : /\ cmd'[p].pc = cmd[p].pc /\ cmd'[p].kind = cmd[p].kind
                            /\ cmd'[p].hand = cmd[p].hand
        /\ store' = store
        /\ session' = NoSession <=> session = NoSession
        /\ session # NoSession => session'.fam = session.fam
    BY <1>8, WorldFrame
  <2>2. store' # NoToken => Spared
    BY <1>3, <2>1 DEF StoreExpendable, Expends, At, NewSignIn
  <2>3. store' # NoToken => SettledNext
    BY <1>3, <2>1 DEF StoreExpendable, Unmatched, Settling, At, NewSignIn, SettledNext
  <2>4. QED
    BY <2>2, <2>3
<1>9. ASSUME NEW p \in Procs, Callback(p) PROVE Expendable
  <2>1. /\ Others(p) /\ store' = store /\ session' = session
        /\ cmd'[p].pc \in {"idle", "want"} /\ ~Settling(p)
    BY <1>9, CallbackMoves DEF Settling, At
  <2>2. QED
    BY <1>1, <1>4, <2>1, SettledStays
<1> HIDE DEF Expendable
<1>10. Expendable
  BY StepKinds, <1>2, <1>5, <1>6, <1>7, <1>8, <1>9
<1>11. QED
  BY <1>10 DEF Expendable, StoreExpendable, Expends, Unmatched, Settling, SettledNext, LooseNext, Loose, Dead, At, NewSignIn

-----------------------------------------------------------------------------
(* After a logout.                                                         *)

\* What a command's step owes to a logout.
QuietNext(p) ==
    /\ loggedOut' /\ ~outrun' =>
          /\ session' = NoSession /\ pending' = NoPending
          /\ cmd'[p].pc \in {"idle", "browse", "want", "look", "signin", "device", "leave", "exchange"}
    /\ cmd'[p].kind = "logout" /\ cmd'[p].pc \in {"revokeOld", "clear", "unfile"} =>
          pending' = NoPending

\* Every step of a command gives it.
LEMMA QuietCommand ==
    ASSUME TypeOK, TokensIssued, HandIsStored, StationsKept, LogoutQuiet,
           NEW p \in Procs, Step(p)
    PROVE  QuietNext(p)
<1>0. /\ cmd[p].kind \in Kinds
      /\ cmd[p].pc \in Stations(cmd[p].kind)
      /\ cmd[p].pc \in {"signin", "poll", "device"} => session = NoSession
      /\ loggedOut /\ ~outrun =>
            /\ session = NoSession /\ pending = NoPending
            /\ cmd[p].pc \in {"idle", "browse", "want", "look", "signin", "device", "leave", "exchange"}
      /\ cmd[p].kind = "logout" /\ cmd[p].pc \in {"revokeOld", "clear", "unfile"} => pending = NoPending
  BY CommandShape DEF StationsKept, StationKept, LogoutQuiet, At
<1>1. CASE Look(p)
  BY <1>1, <1>0, LookCases, EndMoves, GotoMoves DEF QuietNext, Labels, history, parting
<1>2. CASE RefreshAnswer(p)
  BY <1>2, <1>0, AnswerCases, EndMoves, GotoMoves, GotoWithMoves DEF QuietNext, Labels, history, parting, Stations, Kinds
<1>3. CASE RefreshError(p)
  BY <1>3, <1>0, EndMoves DEF RefreshError, QuietNext, history, parting, Stations, Kinds
<1>4. CASE RefreshLost(p)
  BY <1>4, <1>0, GotoMoves DEF RefreshLost, QuietNext, Labels, history, parting, Stations, Kinds
<1>5. CASE Retry(p)
  BY <1>5, <1>0, RetryCases, EndMoves DEF QuietNext, history, parting
<1>6. CASE Save(p)
  BY <1>6, <1>0, GotoMoves DEF Save, QuietNext, Labels, history, parting, Stations, Kinds
<1>7. CASE SaveFails(p)
  BY <1>7, <1>0, EndMoves, GotoMoves DEF SaveFails, QuietNext, Unsaved, Labels, history, parting, Stations, Kinds
<1>8. CASE Record(p)
  BY <1>8, <1>0, EndMoves, GotoMoves DEF Record, QuietNext, Labels, history, parting, Stations, Kinds
<1>9. CASE RecordFails(p)
  BY <1>9, <1>0, EndMoves, GotoMoves DEF RecordFails, QuietNext, Unsaved, Labels, history, parting, Stations, Kinds
<1>10. CASE DefaultHost(p)
  BY <1>10, <1>0, EndMoves, GotoMoves DEF DefaultHost, QuietNext, Unsaved, Labels, history, parting, Stations, Kinds
<1>11. CASE RevokeNew(p)
  BY <1>11, <1>0, GotoMoves DEF RevokeNew, QuietNext, Labels, history, parting, Stations, Kinds
<1>12. CASE Forget(p)
  BY <1>12, <1>0, EndMoves DEF Forget, QuietNext, history, parting, Stations, Kinds
<1>13. CASE ClearStore(p)
  BY <1>13, <1>0, GotoMoves DEF ClearStore, QuietNext, Labels, history, parting, Stations, Kinds
<1>14. CASE Unfile(p)
  BY <1>14, <1>0, EndMoves, GotoMoves DEF Unfile, Parted, QuietNext, Labels, history, parting, Stations, Kinds
<1>15. CASE Leave(p)
  BY <1>15, <1>0, EndMoves, GotoMoves DEF Leave, Parted, QuietNext, Labels, history, parting, Stations, Kinds
<1>16. CASE RevokeOld(p)
  BY <1>16, <1>0, GotoMoves DEF RevokeOld, QuietNext, Labels, history, parting, Stations, Kinds
<1>17. CASE SignIn(p)
  BY <1>17, <1>0, AbsenceAssumption, EndMoves, GotoMoves DEF QuietNext, SignIn, Labels, history, parting, Stations, Kinds
<1>18. CASE Poll(p)
  BY <1>18, <1>0, GrantCases, EndMoves, GotoMoves, GotoWithMoves DEF QuietNext, Poll, Labels, history, parting
<1>19. CASE PollFails(p)
  BY <1>19, <1>0, EndMoves DEF PollFails, QuietNext, history, parting, Stations, Kinds
<1>20. CASE Device(p)
  BY <1>20, <1>0, EndMoves DEF Device, SignedInSince, QuietNext, history, parting, Stations, Kinds
<1>21. CASE Exchange(p)
  BY <1>21, <1>0, GrantCases, EndMoves, GotoWithMoves DEF QuietNext, Exchange, SignedInSince, Labels, history, parting, Stations, Kinds
<1>22. QED
  BY <1>1, <1>2, <1>3, <1>4, <1>5, <1>6, <1>7, <1>8, <1>9, <1>10, <1>11, <1>12, <1>13, <1>14, <1>15, <1>16, <1>17, <1>18, <1>19, <1>20, <1>21 DEF Step

\* Every step leaves a logout quiet.
LEMMA QuietStep ==
    ASSUME TypeOK, TokensIssued, HandIsStored, StationsKept, Excluded, LogoutQuiet, [Next]_vars
    PROVE  LogoutQuiet'
<1> DEFINE Quiet == /\ loggedOut' /\ ~outrun' => session' = NoSession /\ pending' = NoPending
                    /\ \A q \in Procs : QuietNext(q)
<1>1. ASSUME NEW p \in Procs, Step(p) PROVE Quiet
  BY <1>1, QuietCommand, StepMoves, Holder DEF Others, Outside, QuietNext
<1>2. ASSUME NEW p \in Procs, Others(p), UNCHANGED <<session, pending, loggedOut, outrun>>,
             cmd'[p].pc \in {"idle", "browse", "want", "look", "leave", "exchange"}
      PROVE  Quiet
  BY <1>2 DEF Others, LogoutQuiet, QuietNext, At
<1>3. ASSUME NEW p \in Procs, Busy(p) \/ Crash(p) PROVE Quiet
  BY <1>2, <1>3, EndMoves DEF Busy, Crash, history, parting
<1>4. ASSUME NEW p \in Procs, Acquire(p) PROVE Quiet
  BY <1>2, <1>4, AcquireMoves DEF Entry
<1>5. ASSUME NEW p \in Procs, NEW k \in Kinds, Begin(p, k) PROVE Quiet
  BY <1>2, <1>5, BeginMoves
<1>6. ASSUME World PROVE Quiet
  <2>1. /\ \A p \in Procs : cmd'[p].pc = cmd[p].pc /\ cmd'[p].kind = cmd[p].kind
        /\ session' = NoSession <=> session = NoSession
        /\ loggedOut' = loggedOut /\ outrun' = outrun
    BY <1>6, WorldFrame
  <2>2. pending' = pending \/ pending = "waiting"
    BY <1>6 DEF World, LateArrive, FamilyEnds, LeewayEnds, Age, Interval, CodeExpires, Confirm, Deny, vars
  <2>3. QED
    BY <2>1, <2>2, AbsenceAssumption DEF LogoutQuiet, QuietNext, At
<1>7. ASSUME NEW p \in Procs, Callback(p) PROVE Quiet
  BY <1>2, <1>7, CallbackMoves
<1> HIDE DEF Quiet
<1>8. Quiet
  BY StepKinds, <1>1, <1>3, <1>4, <1>5, <1>6, <1>7
<1>9. QED
  BY <1>8 DEF Quiet, QuietNext, LogoutQuiet, At

-----------------------------------------------------------------------------
(* The newest generation, and reuse.                                       *)

\* A lost answer is not forgotten, and a request nobody waits for counts as one.
LEMMA LossesGrow ==
    ASSUME TypeOK, HandIsStored, NewestKept, [Next]_vars
    PROVE  lossy \subseteq lossy' /\ (\A t \in late' : t.fam \in lossy')
<1>0. \A t \in late : t.fam \in lossy
  BY DEF NewestKept
<1> DEFINE Grow == lossy \subseteq lossy' /\ (\A t \in late' : t.fam \in lossy')
<1>1. ASSUME NEW p \in Procs, Look(p) PROVE Grow
  BY <1>1, <1>0, LookCases DEF history, issuer
<1>2. ASSUME NEW p \in Procs, RefreshAnswer(p) PROVE Grow
  BY <1>2, <1>0 DEF RefreshAnswer, history, issuer
<1>3. ASSUME NEW p \in Procs, RefreshError(p) PROVE Grow
  BY <1>3, <1>0 DEF RefreshError, history, issuer
<1>4. ASSUME NEW p \in Procs, RefreshLost(p) PROVE Grow
  BY <1>4, <1>0 DEF RefreshLost, history, issuer
<1>5. ASSUME NEW p \in Procs, Retry(p) PROVE Grow
  BY <1>5, <1>0, RetryCases DEF history, issuer
<1>6. ASSUME NEW p \in Procs, Save(p) PROVE Grow
  BY <1>6, <1>0 DEF Save, history, issuer
<1>7. ASSUME NEW p \in Procs, SaveFails(p) PROVE Grow
  BY <1>7, <1>0 DEF SaveFails, history, issuer
<1>8. ASSUME NEW p \in Procs, Record(p) PROVE Grow
  BY <1>8, <1>0 DEF Record, history, issuer
<1>9. ASSUME NEW p \in Procs, RecordFails(p) PROVE Grow
  BY <1>9, <1>0 DEF RecordFails, history, issuer
<1>10. ASSUME NEW p \in Procs, DefaultHost(p) PROVE Grow
  BY <1>10, <1>0 DEF DefaultHost, history, issuer
<1>11. ASSUME NEW p \in Procs, RevokeNew(p) PROVE Grow
  BY <1>11, <1>0 DEF RevokeNew, history, issuer
<1>12. ASSUME NEW p \in Procs, Forget(p) PROVE Grow
  BY <1>12, <1>0 DEF Forget, history, issuer
<1>13. ASSUME NEW p \in Procs, ClearStore(p) PROVE Grow
  BY <1>13, <1>0 DEF ClearStore, history, issuer
<1>14. ASSUME NEW p \in Procs, Unfile(p) PROVE Grow
  BY <1>14, <1>0 DEF Unfile, history, issuer
<1>15. ASSUME NEW p \in Procs, Leave(p) PROVE Grow
  BY <1>15, <1>0 DEF Leave, history, issuer
<1>16. ASSUME NEW p \in Procs, RevokeOld(p) PROVE Grow
  BY <1>16, <1>0 DEF RevokeOld, history, issuer
<1>17. ASSUME NEW p \in Procs, SignIn(p) PROVE Grow
  BY <1>17, <1>0 DEF SignIn, history, issuer
<1>18. ASSUME NEW p \in Procs, Poll(p) PROVE Grow
  BY <1>18, <1>0 DEF Poll, history, issuer
<1>19. ASSUME NEW p \in Procs, PollFails(p) PROVE Grow
  BY <1>19, <1>0 DEF PollFails, history, issuer
<1>20. ASSUME NEW p \in Procs, Device(p) PROVE Grow
  BY <1>20, <1>0 DEF Device, history, issuer
<1>21. ASSUME NEW p \in Procs, Exchange(p) PROVE Grow
  BY <1>21, <1>0 DEF Exchange, history, issuer
<1>22. ASSUME NEW p \in Procs, Acquire(p) PROVE Grow
  BY <1>22, <1>0 DEF Acquire, history, issuer
<1>23. ASSUME NEW p \in Procs, Busy(p) PROVE Grow
  BY <1>23, <1>0 DEF Busy, history, issuer
<1>24. ASSUME NEW p \in Procs, Crash(p) PROVE Grow
  BY <1>24, <1>0 DEF Crash, history, issuer
<1>25. ASSUME NEW p \in Procs, NEW k \in Kinds, Begin(p, k) PROVE Grow
  BY <1>25, <1>0 DEF Begin, history, issuer
<1>26. CASE World
  BY <1>26, <1>0, WorldFrame DEF World, LateArrive, FamilyEnds, LeewayEnds, Age, Interval, CodeExpires, Confirm, Deny, issuer, vars
<1>27. ASSUME NEW p \in Procs, Callback(p) PROVE Grow
  BY <1>27, <1>0 DEF Callback, history, issuer
<1>28. QED
  BY StepKinds, <1>1, <1>2, <1>3, <1>4, <1>5, <1>6, <1>7, <1>8, <1>9, <1>10, <1>11, <1>12, <1>13, <1>14, <1>15, <1>16, <1>17, <1>18, <1>19, <1>20, <1>21, <1>22, <1>23, <1>24, <1>25, <1>26, <1>27 DEF Step

\* What becomes of a family's newest generation and of its reuse.
FamilyNext(f) ==
    \/ f \in DOMAIN fam /\ fam'[f].cur = fam[f].cur /\ fam'[f].reused = fam[f].reused
    \/ f \in DOMAIN fam /\ \E t \in late : t.fam = f
    \/ f \in DOMAIN fam /\ f = store.fam /\ \E p \in Procs : RefreshAnswer(p)
    \/ /\ f \notin DOMAIN fam /\ ~fam'[f].reused
       /\ \E p \in Procs : /\ cmd'[p].pc \in {"save", "revokeOld"}
                           /\ cmd'[p].hand # NoToken /\ cmd'[p].hand.fam = f

\* An answer or a late arrival touches one family, a revocation changes neither.
LEMMA AnswersTouch ==
    ASSUME TypeOK, NEW t \in Tokens, Issued(t), fam' \in {Rotated(t), Refused(t), Revoked(t)}
    PROVE  /\ DOMAIN fam' = DOMAIN fam
           /\ \A f \in DOMAIN fam : f # t.fam =>
                 fam'[f].cur = fam[f].cur /\ fam'[f].reused = fam[f].reused
           /\ fam' = Revoked(t) => \A f \in DOMAIN fam :
                 fam'[f].cur = fam[f].cur /\ fam'[f].reused = fam[f].reused
<1>1. CASE fam' = Rotated(t)
  <2>1. /\ DOMAIN fam' = DOMAIN fam
        /\ \A f \in DOMAIN fam : f # t.fam => fam'[f].cur = fam[f].cur
        /\ \A f \in DOMAIN fam : fam'[f].reused = fam[f].reused
    BY <1>1, RotatedFam DEF Issued
  <2>2. CASE fam' = Revoked(t)
    BY <2>2, RevokedFam DEF Issued
  <2>3. QED
    BY <2>1, <2>2
<1>2. CASE fam' = Refused(t)
  <2>1. /\ DOMAIN fam' = DOMAIN fam
        /\ \A f \in DOMAIN fam : f # t.fam => fam'[f] = fam[f]
    BY <1>2, RefusedFam DEF Issued
  <2>2. CASE fam' = Revoked(t)
    BY <2>2, RevokedFam DEF Issued
  <2>3. QED
    BY <2>1, <2>2
<1>3. CASE fam' = Revoked(t)
  BY <1>3, RevokedFam DEF Issued
<1>4. QED
  BY <1>1, <1>2, <1>3

\* A granted family is in the hands of the command it was granted to.
LEMMA GrantNext ==
    ASSUME TypeOK, NEW p \in Procs, NEW l \in {"save", "revokeOld"}, Granted(p, l),
           NEW f \in DOMAIN fam'
    PROVE  FamilyNext(f)
<1>1. PICK t \in Tokens : t.fam = Len(fam) + 1 /\ GotoWith(p, l, t)
  BY GrantCases DEF Labels
<1>2. /\ DOMAIN fam' = 1 .. (Len(fam) + 1) /\ fam'[Len(fam) + 1] = NewFamily
      /\ \A e \in DOMAIN fam : fam'[e] = fam[e]
  BY GrantCases DEF Labels
<1>3. cmd'[p].pc = l /\ cmd'[p].hand = t /\ t # NoToken
  BY <1>1, GotoWithMoves, AbsenceAssumption DEF Labels, Tokens
<1>4. CASE f \in DOMAIN fam
  BY <1>2, <1>4 DEF FamilyNext
<1>5. CASE f \notin DOMAIN fam
  <2>1. f = Len(fam) + 1
    BY <1>2, <1>5, FamShape
  <2>2. QED
    BY <1>1, <1>2, <1>3, <1>5, <2>1 DEF FamilyNext, NewFamily
<1>6. QED
  BY <1>4, <1>5

\* Every step leaves a family alone, or is one of those that may touch it.
LEMMA FamilyMoves ==
    ASSUME TypeOK, TokensIssued, StationsKept, HandIsStored, [Next]_vars
    PROVE  \A f \in DOMAIN fam' : FamilyNext(f)
<1> DEFINE Moves == \A f \in DOMAIN fam' : FamilyNext(f)
<1>0. fam' = fam => Moves
  BY DEF FamilyNext
<1>1. ASSUME NEW p \in Procs, Look(p) PROVE Moves
  BY <1>1, <1>0, LookCases DEF issuer
<1>2. ASSUME NEW p \in Procs, RefreshAnswer(p) PROVE Moves
  <2>1. store \in Tokens /\ Issued(store) /\ fam' \in {Rotated(store), Refused(store)}
    BY <1>2, AnswerCases
  <2>2. /\ DOMAIN fam' = DOMAIN fam
        /\ \A f \in DOMAIN fam : f # store.fam =>
              fam'[f].cur = fam[f].cur /\ fam'[f].reused = fam[f].reused
    BY <2>1, AnswersTouch
  <2>3. QED
    BY <1>2, <2>2 DEF FamilyNext
<1>3. ASSUME NEW p \in Procs, RefreshError(p) PROVE Moves
  BY <1>3, <1>0 DEF RefreshError, issuer
<1>4. ASSUME NEW p \in Procs, RefreshLost(p) PROVE Moves
  BY <1>4, <1>0 DEF RefreshLost, issuer
<1>5. ASSUME NEW p \in Procs, Retry(p) PROVE Moves
  BY <1>5, <1>0, RetryCases DEF issuer
<1>6. ASSUME NEW p \in Procs, Save(p) PROVE Moves
  BY <1>6, <1>0 DEF Save, issuer
<1>7. ASSUME NEW p \in Procs, SaveFails(p) PROVE Moves
  BY <1>7, <1>0 DEF SaveFails, issuer
<1>8. ASSUME NEW p \in Procs, Record(p) PROVE Moves
  BY <1>8, <1>0 DEF Record, issuer
<1>9. ASSUME NEW p \in Procs, RecordFails(p) PROVE Moves
  BY <1>9, <1>0 DEF RecordFails, issuer
<1>10. ASSUME NEW p \in Procs, DefaultHost(p) PROVE Moves
  BY <1>10, <1>0 DEF DefaultHost, issuer
<1>11. ASSUME NEW p \in Procs, RevokeNew(p) PROVE Moves
  <2>1. cmd[p].hand \in Tokens /\ Issued(cmd[p].hand)
    BY <1>11, CommandShape DEF RevokeNew, StationsKept, StationKept, At, TokensIssued
  <2>2. CASE fam' = Revoked(cmd[p].hand)
    BY <2>1, <2>2, AnswersTouch DEF FamilyNext
  <2>3. QED
    BY <1>11, <1>0, <2>2 DEF RevokeNew
<1>12. ASSUME NEW p \in Procs, Forget(p) PROVE Moves
  BY <1>12, <1>0 DEF Forget, issuer
<1>13. ASSUME NEW p \in Procs, ClearStore(p) PROVE Moves
  BY <1>13, <1>0 DEF ClearStore, issuer
<1>14. ASSUME NEW p \in Procs, Unfile(p) PROVE Moves
  BY <1>14, <1>0 DEF Unfile, issuer
<1>15. ASSUME NEW p \in Procs, Leave(p) PROVE Moves
  BY <1>15, <1>0 DEF Leave, issuer
<1>16. ASSUME NEW p \in Procs, RevokeOld(p) PROVE Moves
  <2>1. store \in Tokens /\ Issued(store)
    BY <1>16 DEF RevokeOld, StationsKept, StationKept, At, TokensIssued, TypeOK
  <2>2. CASE fam' = Revoked(store)
    BY <2>1, <2>2, AnswersTouch DEF FamilyNext
  <2>3. QED
    BY <1>16, <1>0, <2>2 DEF RevokeOld
<1>17. ASSUME NEW p \in Procs, SignIn(p) PROVE Moves
  BY <1>17, <1>0 DEF SignIn, issuer
<1>18. ASSUME NEW p \in Procs, Poll(p) PROVE Moves
  BY <1>18, <1>0, GrantNext DEF Poll
<1>19. ASSUME NEW p \in Procs, PollFails(p) PROVE Moves
  BY <1>19, <1>0 DEF PollFails, issuer
<1>20. ASSUME NEW p \in Procs, Device(p) PROVE Moves
  BY <1>20, <1>0 DEF Device, issuer
<1>21. ASSUME NEW p \in Procs, Exchange(p) PROVE Moves
  BY <1>21, <1>0, GrantNext DEF Exchange
<1>22. ASSUME NEW p \in Procs, Acquire(p) PROVE Moves
  BY <1>22, <1>0 DEF Acquire, issuer
<1>23. ASSUME NEW p \in Procs, Busy(p) PROVE Moves
  BY <1>23, <1>0 DEF Busy, issuer
<1>24. ASSUME NEW p \in Procs, Crash(p) PROVE Moves
  BY <1>24, <1>0 DEF Crash, issuer
<1>25. ASSUME NEW p \in Procs, NEW k \in Kinds, Begin(p, k) PROVE Moves
  BY <1>25, <1>0 DEF Begin, issuer
<1>26. CASE World
  <2>1. ASSUME NEW t \in late, LateArrive(t) PROVE Moves
    <3>1. t \in Tokens /\ Issued(t)
      BY DEF TokensIssued, TypeOK
    <3>2. fam' \in {Rotated(t), Refused(t)}
      BY <2>1 DEF LateArrive
    <3>3. /\ DOMAIN fam' = DOMAIN fam
          /\ \A f \in DOMAIN fam : f # t.fam =>
                fam'[f].cur = fam[f].cur /\ fam'[f].reused = fam[f].reused
      BY <3>1, <3>2, AnswersTouch
    <3>4. QED
      BY <3>3 DEF FamilyNext
  <2>2. CASE Age \/ Interval \/ CodeExpires \/ Confirm \/ Deny \/ UNCHANGED vars
    BY <2>2, <1>0 DEF Age, Interval, CodeExpires, Confirm, Deny, issuer, vars
  <2>3. CASE LeewayEnds
    BY <2>3, LeewayGrow DEF FamilyNext
  <2>4. ASSUME NEW f \in DOMAIN fam, FamilyEnds(f) PROVE Moves
    BY <2>4, EndedGrow DEF FamilyNext
  <2>5. QED
    BY <1>26, <2>1, <2>2, <2>3, <2>4 DEF World
<1>27. ASSUME NEW p \in Procs, Callback(p) PROVE Moves
  BY <1>27, <1>0 DEF Callback, issuer
<1>28. QED
  BY StepKinds, <1>1, <1>2, <1>3, <1>4, <1>5, <1>6, <1>7, <1>8, <1>9, <1>10, <1>11, <1>12, <1>13, <1>14, <1>15, <1>16, <1>17, <1>18, <1>19, <1>20, <1>21, <1>22, <1>23, <1>24, <1>25, <1>26, <1>27 DEF Step

\* The command at a station steps, dies, or stays where it is.
LEMMA HolderSteps ==
    ASSUME TypeOK, TokensIssued, HandIsStored, Excluded, [Next]_vars,
           NEW p \in Procs, cmd[p].pc \notin Outside
    PROVE  \/ Step(p) \/ Crash(p)
           \/ cmd'[p].pc = cmd[p].pc /\ cmd'[p].kind = cmd[p].kind /\ cmd'[p].hand = cmd[p].hand
<1>1. ASSUME NEW q \in Procs, Step(q) PROVE q = p
  BY <1>1, StepMoves, Holder
<1>2. ASSUME NEW q \in Procs, NEW k \in Kinds, Begin(q, k) PROVE cmd'[p] = cmd[p]
  BY <1>2, BeginMoves DEF Others, Outside
<1>3. ASSUME NEW q \in Procs, Acquire(q) PROVE cmd'[p] = cmd[p]
  BY <1>3, AcquireMoves DEF Others, Outside
<1>4. ASSUME NEW q \in Procs, Busy(q) PROVE cmd'[p] = cmd[p]
  BY <1>4, EndMoves DEF Busy, Others, Outside
<1>5. ASSUME NEW q \in Procs, Crash(q), q # p PROVE cmd'[p] = cmd[p]
  BY <1>5, EndMoves DEF Crash, Others
<1>6. ASSUME NEW q \in Procs, Callback(q) PROVE cmd'[p] = cmd[p]
  BY <1>6, CallbackMoves DEF Others, Outside
<1>7. QED
  BY StepKinds, WorldFrame, <1>1, <1>2, <1>3, <1>4, <1>5, <1>6

\* Only the command that holds the lock gets to a station by a step.
LEMMA StationSteps ==
    ASSUME TypeOK, TokensIssued, HandIsStored, Excluded, [Next]_vars,
           NEW p \in Procs, cmd'[p].pc \in {"save", "revokeOld"}
    PROVE  \/ Step(p)
           \/ cmd'[p].pc = cmd[p].pc /\ cmd'[p].kind = cmd[p].kind /\ cmd'[p].hand = cmd[p].hand
<1>1. ASSUME NEW q \in Procs, Step(q), q # p PROVE cmd'[p] = cmd[p]
  BY <1>1, StepMoves DEF Others
<1>2. ASSUME NEW q \in Procs, NEW k \in Kinds, Begin(q, k) PROVE cmd'[p] = cmd[p]
  BY <1>2, BeginMoves DEF Others
<1>3. ASSUME NEW q \in Procs, Acquire(q) PROVE cmd'[p] = cmd[p]
  BY <1>3, AcquireMoves DEF Others, Entry
<1>4. ASSUME NEW q \in Procs, Busy(q) \/ Crash(q) PROVE cmd'[p] = cmd[p]
  BY <1>4, EndMoves DEF Busy, Crash, Others
<1>5. ASSUME NEW q \in Procs, Callback(q) PROVE cmd'[p] = cmd[p]
  BY <1>5, CallbackMoves DEF Others
<1>6. QED
  BY StepKinds, WorldFrame, <1>1, <1>2, <1>3, <1>4, <1>5

\* A family that lost no answer is rotated only for the command whose refresh
\* is answered.
LEMMA CurStays ==
    ASSUME TypeOK, TokensIssued, StationsKept, HandIsStored, NewestKept, [Next]_vars,
           NEW f \in DOMAIN fam, f \notin lossy, \A p \in Procs : ~RefreshAnswer(p)
    PROVE  fam'[f].cur = fam[f].cur
<1>1. f \in DOMAIN fam'
  BY FamStep DEF FamiliesGrow
<1>2. QED
  BY <1>1, FamilyMoves DEF FamilyNext, NewestKept

\* While a command saves, no refresh is answered.
LEMMA NoAnswer ==
    ASSUME Excluded, NEW p \in Procs, cmd[p].pc \in {"save", "revokeOld"}
    PROVE  \A q \in Procs : ~RefreshAnswer(q)
BY Holder DEF RefreshAnswer, Outside

\* A token that is about to be stored stays the newest of its family.
LEMMA SaversNewest ==
    ASSUME TypeOK, TokensIssued, StationsKept, HandIsStored, Excluded, NewestKept, [Next]_vars,
           NEW p \in Procs, cmd'[p].pc \in {"save", "revokeOld"}, cmd'[p].hand # NoToken,
           cmd'[p].hand.fam \notin lossy'
    PROVE  cmd'[p].hand.gen = fam'[cmd'[p].hand.fam].cur
<1>0. lossy \subseteq lossy'
  BY LossesGrow
<1>1. CASE cmd'[p].hand = cmd[p].hand /\ cmd[p].pc \in {"save", "revokeOld"}
  <2>1. cmd[p].hand.fam \in DOMAIN fam /\ cmd[p].hand.gen = fam[cmd[p].hand.fam].cur
    BY <1>0, <1>1 DEF TokensIssued, Issued, NewestKept, At
  <2>2. QED
    BY <1>0, <1>1, <2>1, NoAnswer, CurStays
<1>2. CASE Step(p)
  <2>1. CASE RevokeOld(p) /\ cmd'[p].hand = cmd[p].hand
    BY <1>1, <2>1 DEF RevokeOld
  <2>2. CASE /\ RefreshAnswer(p) /\ fam' = Rotated(store)
             /\ cmd'[p].hand.fam = store.fam /\ cmd'[p].hand.gen = fam[store.fam].cur + 1
    BY <2>2, AnswerCases, RotatedFam DEF Issued
  <2>3. CASE /\ cmd'[p].hand.fam = Len(fam) + 1 /\ cmd'[p].hand.gen = 1
             /\ fam'[Len(fam) + 1] = NewFamily
    BY <2>3 DEF NewFamily
  <2>4. QED
    BY <1>2, <2>1, <2>2, <2>3, Savers
<1>3. QED
  BY <1>1, <1>2, StationSteps

\* A saver's next step saves, fails to, or dies.
LEMMA SaverSteps ==
    ASSUME TypeOK, NEW p \in Procs, cmd[p].pc = "save", Step(p)
    PROVE  Save(p) \/ SaveFails(p)
BY DEF Step, Look, RefreshAnswer, RefreshError, RefreshLost, Retry, Record, RecordFails,
       DefaultHost, RevokeNew, Forget, ClearStore, Unfile, Leave, RevokeOld, SignIn, Poll,
       PollFails, Device, Exchange

\* The stored token stays its family's newest, or its successor is being saved.
LEMMA StoreNewest ==
    ASSUME TypeOK, TokensIssued, StationsKept, HandIsStored, Excluded, NewestKept, [Next]_vars,
           store' # NoToken, store'.fam \notin lossy'
    PROVE  \/ store'.gen = fam'[store'.fam].cur
           \/ \E p \in Procs : /\ cmd'[p].pc = "save"
                               /\ cmd'[p].hand # NoToken /\ cmd'[p].hand.fam = store'.fam
<1> DEFINE Newest == \/ store'.gen = fam'[store'.fam].cur
                     \/ \E p \in Procs : /\ cmd'[p].pc = "save"
                                         /\ cmd'[p].hand # NoToken /\ cmd'[p].hand.fam = store'.fam
<1>0. lossy \subseteq lossy'
  BY LossesGrow
<1>1. \A p \in Procs : cmd[p].pc = "save" => cmd[p].hand # NoToken
  BY DEF StationsKept, StationKept, At
<1>2. ASSUME NEW p \in Procs, Save(p) \/ SaveFails(p), store' = cmd[p].hand
      PROVE  Newest
  <2>1. cmd[p].pc = "save" /\ fam' = fam
    BY <1>2 DEF Save, SaveFails, issuer
  <2>2. QED
    BY <1>0, <1>1, <1>2, <2>1 DEF NewestKept, At
<1>3. CASE store' = store
  <2>1. store # NoToken /\ store.fam \in DOMAIN fam /\ store.fam \notin lossy
    BY <1>0, <1>3 DEF TokensIssued, Issued
  <2>2. ASSUME NEW p \in Procs, RefreshAnswer(p) PROVE Newest
    <3>1. ASSUME NEW t \in Tokens, t.fam = store.fam, GotoWith(p, "save", t) PROVE Newest
      BY <1>3, <3>1, GotoWithMoves, AbsenceAssumption DEF Labels, Tokens
    <3>2. CASE fam' = Refused(store)
      <4>1. fam'[store.fam].cur = fam[store.fam].cur
        BY <2>1, <2>2, <3>2, AnswerCases, RefusedFam
      <4>2. \A q \in Procs : cmd[q].pc # "save"
        BY <2>2, NoAnswer
      <4>3. QED
        BY <1>3, <2>1, <4>1, <4>2 DEF NewestKept, At
    <3>3. QED
      BY <2>2, <3>1, <3>2, AnswerCases
  <2>3. ASSUME NEW p \in Procs, cmd[p].pc = "save", cmd[p].hand.fam = store.fam PROVE Newest
    <3>1. cmd[p].hand.gen = fam[store.fam].cur
      BY <1>1, <2>1, <2>3 DEF NewestKept, At
    <3>2. fam'[store.fam].cur = fam[store.fam].cur
      BY <2>1, <2>3, NoAnswer, CurStays
    <3>3. CASE Save(p)
      BY <1>3, <3>1, <3>2, <3>3 DEF Save
    <3>4. CASE SaveFails(p) \/ Crash(p)
      BY <1>3, <2>3, <3>4 DEF SaveFails, Crash
    <3>5. CASE cmd'[p].pc = cmd[p].pc /\ cmd'[p].hand = cmd[p].hand
      BY <1>1, <1>3, <2>3, <3>5
    <3>6. QED
      BY <2>3, <3>3, <3>4, <3>5, HolderSteps, SaverSteps DEF Outside
  <2>4. CASE store.gen = fam[store.fam].cur /\ \A p \in Procs : ~RefreshAnswer(p)
    BY <1>3, <2>1, <2>4, CurStays
  <2>5. QED
    BY <2>1, <2>2, <2>3, <2>4 DEF NewestKept, At
<1>4. QED
  BY <1>2, <1>3, StoreChanges

\* Every step keeps the newest generations.
LEMMA NewestStep ==
    ASSUME TypeOK, TokensIssued, StationsKept, HandIsStored, Excluded, NewestKept, [Next]_vars
    PROVE  NewestKept'
BY LossesGrow, SaversNewest, StoreNewest DEF NewestKept, At

\* A spent token is refused to a command only after a loss.
LEMMA ReuseStep ==
    ASSUME TypeOK, TokensIssued, StationsKept, HandIsStored, Excluded, NewestKept,
           ReuseOnlyAfterLoss, [Next]_vars
    PROVE  ReuseOnlyAfterLoss'
<1>0. lossy \subseteq lossy' /\ \A t \in late : t.fam \in lossy
  BY LossesGrow DEF NewestKept
<1>1. ASSUME NEW p \in Procs, RefreshAnswer(p), fam'[store.fam].reused
      PROVE  store.fam \in lossy
  <2>1. store \in Tokens /\ Issued(store) /\ cmd[p].pc = "sent" /\ store # NoToken
    BY <1>1, AnswerCases, AbsenceAssumption DEF Tokens
  <2>2. CASE fam' = Rotated(store)
    BY <1>1, <2>1, <2>2, RotatedFam DEF Issued, ReuseOnlyAfterLoss
  <2>3. CASE ~Accepts(store) /\ fam' = Refused(store)
    <3>1. CASE ~fam[store.fam].alive
      BY <1>1, <2>1, <2>3, <3>1, RefusedFam DEF Issued, ReuseOnlyAfterLoss
    <3>2. CASE ~(store.gen >= fam[store.fam].spent)
      <4>1. /\ fam[store.fam].spent \in Nat /\ fam[store.fam].cur \in Nat
            /\ fam[store.fam].spent <= fam[store.fam].cur
        BY <2>1, FamShape DEF Issued, Families, TokensIssued
      <4>2. store.gen # fam[store.fam].cur
        BY <2>1, <3>2, <4>1 DEF Tokens
      <4>3. \A q \in Procs : cmd[q].pc # "save"
        BY <2>1, Holder DEF Outside
      <4>4. QED
        BY <2>1, <4>2, <4>3 DEF NewestKept, At
    <3>3. QED
      BY <2>3, <3>1, <3>2 DEF Accepts
  <2>4. QED
    BY <1>1, <2>2, <2>3, AnswerCases
<1>2. ASSUME NEW f \in DOMAIN fam', fam'[f].reused PROVE f \in lossy'
  BY <1>0, <1>1, <1>2, FamilyMoves DEF FamilyNext, ReuseOnlyAfterLoss
<1>3. QED
  BY <1>2 DEF ReuseOnlyAfterLoss

-----------------------------------------------------------------------------
(* Families that can be reached.                                           *)

\* By the end of the step family f is stored, held, ended or cut loose.
ReachedNext(f) ==
    \/ ~fam'[f].alive \/ f \in adrift'
    \/ store' # NoToken /\ store'.fam = f
    \/ \E q \in Procs : /\ cmd'[q].pc \in {"save", "record", "revoke", "revokeOld"}
                        /\ cmd'[q].hand # NoToken /\ cmd'[q].hand.fam = f

\* The command that holds a token stores it, revokes it or cuts it loose.
LEMMA HolderReaches ==
    ASSUME TypeOK, TokensIssued, HandIsStored, StationsKept, NEW p \in Procs, Step(p),
           cmd[p].pc \in {"save", "record", "revoke", "revokeOld"}, cmd[p].hand # NoToken
    PROVE  ReachedNext(cmd[p].hand.fam)
<1>0. /\ StationKept(p) /\ HandStored(p) /\ cmd[p].kind \in Kinds
      /\ cmd[p].hand \in Tokens /\ Issued(cmd[p].hand)
  BY CommandShape DEF StationsKept, HandIsStored, TokensIssued
<1>1. CASE Save(p)
  BY <1>0, <1>1, AbsenceAssumption DEF Save, ReachedNext, Tokens
<1>2. CASE SaveFails(p)
  <2>1. /\ cmd[p].pc = "save" /\ store' \in {store, cmd[p].hand}
        /\ cmd[p].kind = "loopback" => cmd[p].hand.fam \in adrift'
    BY <1>2 DEF SaveFails
  <2>2. CASE NewSignIn(cmd[p].hand) /\ cmd[p].kind = "command"
    BY <1>0, <1>2, <2>2, GotoMoves DEF SaveFails, Unsaved, Labels, ReachedNext
  <2>3. CASE cmd[p].kind = "loopback"
    BY <2>1, <2>3 DEF ReachedNext
  <2>4. CASE ~NewSignIn(cmd[p].hand)
    BY <1>0, <2>1, <2>4 DEF HandStored, At, ReachedNext
  <2>5. QED
    BY <1>0, <2>1, <2>2, <2>3, <2>4 DEF StationKept, Stations, At, Kinds
<1>3. CASE Record(p)
  BY <1>0, <1>3 DEF Record, HandStored, At, ReachedNext
<1>4. CASE RecordFails(p)
  BY <1>0, <1>4 DEF RecordFails, HandStored, At, ReachedNext
<1>5. CASE RevokeNew(p)
  BY <1>0, <1>5, RevokedFam DEF RevokeNew, Issued, ReachedNext
<1>6. CASE RevokeOld(p)
  <2>1. cmd[p].kind # "logout"
    BY <1>0 DEF StationKept
  <2>2. Goto(p, "save")
    BY <1>6, <2>1 DEF RevokeOld
  <2>3. QED
    BY <1>0, <2>2, GotoMoves DEF Labels, ReachedNext
<1>7. QED
  BY <1>1, <1>2, <1>3, <1>4, <1>5, <1>6
     DEF Step, Look, RefreshAnswer, RefreshError, RefreshLost, Retry, DefaultHost, Forget,
         ClearStore, Unfile, Leave, SignIn, Poll, PollFails, Device, Exchange

\* A family that can be reached stays so, or ends, or is cut loose.
LEMMA ReachedStays ==
    ASSUME TypeOK, TokensIssued, HandIsStored, StationsKept, Excluded, StoreExpendable,
           NoFamilyAdrift, [Next]_vars, NEW f \in DOMAIN fam
    PROVE  ReachedNext(f)
<1>1. FamiliesGrow /\ adrift \subseteq adrift'
  BY FamStep, AdriftGrows
<1>2. CASE ~fam[f].alive \/ f \in adrift
  BY <1>1, <1>2 DEF FamiliesGrow, ReachedNext
<1>3. CASE store # NoToken /\ store.fam = f
  <2>1. Loose(store) => ReachedNext(f)
    BY <1>2, <1>3 DEF Loose, Dead
  <2>2. ASSUME NEW p \in Procs, ClearStore(p) PROVE ReachedNext(f)
    BY <1>3, <2>1, <2>2 DEF ClearStore, StoreExpendable, Expends, At
  <2>3. ASSUME NEW p \in Procs, Save(p) \/ SaveFails(p), store' = cmd[p].hand PROVE ReachedNext(f)
    <3>1. cmd[p].pc = "save" /\ cmd[p].hand # NoToken
      BY <2>3 DEF Save, SaveFails, StationsKept, StationKept, At
    <3>2. CASE NewSignIn(cmd[p].hand)
      BY <1>3, <2>1, <3>1, <3>2 DEF StoreExpendable, Expends, At
    <3>3. CASE ~NewSignIn(cmd[p].hand)
      BY <1>3, <2>3, <3>1, <3>3 DEF HandIsStored, HandStored, At, ReachedNext
    <3>4. QED
      BY <3>2, <3>3
  <2>4. CASE store' = store
    BY <1>3, <2>4 DEF ReachedNext
  <2>5. QED
    BY <2>2, <2>3, <2>4, StoreChanges
<1>4. ASSUME NEW p \in Procs, cmd[p].pc \in {"save", "record", "revoke", "revokeOld"},
             cmd[p].hand # NoToken, cmd[p].hand.fam = f
      PROVE  ReachedNext(f)
  <2>1. CASE Step(p)
    BY <1>4, <2>1, HolderReaches
  <2>2. CASE Crash(p)
    <3>1. CASE NewSignIn(cmd[p].hand)
      BY <1>4, <2>2, <3>1 DEF Crash, ReachedNext
    <3>2. CASE ~NewSignIn(cmd[p].hand)
      <4>1. StationKept(p) /\ HandStored(p) /\ cmd[p].kind \in Kinds
        BY CommandShape DEF StationsKept, HandIsStored
      <4>2. cmd[p].pc \in {"save", "record"}
        BY <1>4, <3>2, <4>1 DEF StationKept, Stations, At, Kinds
      <4>3. store # NoToken /\ store.fam = f
        BY <1>4, <3>2, <4>1, <4>2 DEF HandStored, At
      <4>4. QED
        BY <1>3, <4>3
    <3>3. QED
      BY <3>1, <3>2
  <2>3. CASE cmd'[p].pc = cmd[p].pc /\ cmd'[p].hand = cmd[p].hand
    BY <1>4, <2>3 DEF ReachedNext
  <2>4. QED
    BY <1>4, <2>1, <2>2, <2>3, HolderSteps DEF Outside
<1>5. QED
  BY <1>2, <1>3, <1>4 DEF NoFamilyAdrift

\* Every step keeps the families that are not adrift within reach.
LEMMA AdriftStep ==
    ASSUME TypeOK, TokensIssued, HandIsStored, StationsKept, Excluded, StoreExpendable,
           NoFamilyAdrift, [Next]_vars
    PROVE  NoFamilyAdrift'
<1>1. ASSUME NEW f \in DOMAIN fam' PROVE ReachedNext(f)
  <2>1. CASE f \in DOMAIN fam
    BY <2>1, ReachedStays
  <2>2. CASE f \notin DOMAIN fam
    BY <1>1, <2>2, FamilyMoves DEF FamilyNext, ReachedNext
  <2>3. QED
    BY <2>1, <2>2
<1>2. QED
  BY <1>1 DEF ReachedNext, NoFamilyAdrift

-----------------------------------------------------------------------------
(* The invariant.                                                          *)

\* Every step keeps the types.
LEMMA TypeStep ==
    ASSUME TypeOK, TokensIssued, StationsKept, HandIsStored, [Next]_vars
    PROVE  TypeOK'
BY ControlTyped, FamTyped, FilesTyped, HistoryTyped, BoundsTyped, LossesTyped DEF TypeOK

\* The machine starts signed out, with no command at work.
LEMMA InitInv == Init => SessionInv
<1> SUFFICES ASSUME Init PROVE SessionInv
  OBVIOUS
<1>1. TypeOK
  <2>1. Running("idle", "command") \in Commands
    BY DEF Running, Commands, Labels, Kinds
  <2>2. cmd \in [Procs -> Commands]
    BY <2>1 DEF Init
  <2>3. fam \in Seq(Families)
    BY DEF Init
  <2>4. QED
    BY <2>2, <2>3 DEF Init, TypeOK, Codes
<1>2. \A p \in Procs : cmd[p].pc = "idle" /\ cmd[p].kind = "command" /\ cmd[p].hand = NoToken
  BY DEF Init, Running
<1>3. /\ lock = NoProc /\ session = NoSession /\ store = NoToken /\ pending = NoPending
      /\ fam = <<>> /\ late = {}
      /\ loggedOut = FALSE /\ early = {} /\ outrun = FALSE
  BY DEF Init
<1>4. Excluded /\ TokensIssued /\ HandIsStored
  BY <1>2, <1>3, SessionAssumption DEF Excluded, TokensIssued, HandIsStored, HandStored, At
<1>5. StationsKept
  BY <1>2, <1>3 DEF StationsKept, StationKept, Stations, At
<1>6. CacheBehind /\ StoreExpendable /\ LogoutQuiet /\ NewestKept
  BY <1>2, <1>3 DEF CacheBehind, StoreExpendable, LogoutQuiet, NewestKept, At
<1>7. ReuseOnlyAfterLoss /\ NoFamilyAdrift
  BY <1>3 DEF ReuseOnlyAfterLoss, NoFamilyAdrift
<1>8. QED
  BY <1>1, <1>4, <1>5, <1>6, <1>7 DEF SessionInv

\* Every step keeps the invariant.
LEMMA StepInv == SessionInv /\ [Next]_vars => SessionInv'
<1> SUFFICES ASSUME SessionInv, [Next]_vars PROVE SessionInv'
  OBVIOUS
<1>1. /\ TypeOK /\ Excluded /\ TokensIssued /\ StationsKept /\ HandIsStored
      /\ CacheBehind /\ StoreExpendable /\ LogoutQuiet /\ NewestKept
      /\ ReuseOnlyAfterLoss /\ NoFamilyAdrift
  BY DEF SessionInv
<1>2. TypeOK' /\ Excluded' /\ TokensIssued' /\ StationsKept' /\ HandIsStored'
  BY <1>1, TypeStep, ExcludedStep, TokensStep, StationsStep, HandsStep
<1>3. CacheBehind' /\ StoreExpendable' /\ LogoutQuiet'
  BY <1>1, CacheStep, ExpendableStep, QuietStep
<1>4. NewestKept' /\ ReuseOnlyAfterLoss' /\ NoFamilyAdrift'
  BY <1>1, NewestStep, ReuseStep, AdriftStep
<1>5. QED
  BY <1>2, <1>3, <1>4 DEF SessionInv

\* SessionInv holds in every reachable state, whatever the commands, the
\* issuer and the faults do.
THEOREM Invariance == Spec => []SessionInv
<1>1. Init => SessionInv
  BY InitInv
<1>2. SessionInv /\ [Next]_vars => SessionInv'
  BY StepInv
<1>3. QED
  BY <1>1, <1>2, PTL DEF Spec

-----------------------------------------------------------------------------
(* What follows from it.                                                   *)

\* Types are kept, session.json and the store never hold anything else.
THEOREM TypeCorrect == Spec => []TypeOK
<1>1. SessionInv => TypeOK
  BY DEF SessionInv
<1>2. QED
  BY <1>1, Invariance, PTL

\* One command at a time is at a station where it reads or writes the
\* session, and it holds the lock.
THEOREM OneAtWork ==
    Spec => [](\A p, q \in Procs : cmd[p].pc \notin Outside /\ cmd[q].pc \notin Outside => p = q)
<1>1. SessionInv => \A p, q \in Procs : cmd[p].pc \notin Outside /\ cmd[q].pc \notin Outside => p = q
  BY DEF SessionInv, Excluded, At, Outside
<1>2. QED
  BY <1>1, Invariance, PTL

\* No command trips the issuer's reuse detection unless an answer was lost.
THEOREM NoSelfReuse == Spec => []ReuseOnlyAfterLoss
<1>1. SessionInv => ReuseOnlyAfterLoss
  BY DEF SessionInv
<1>2. QED
  BY <1>1, Invariance, PTL

\* A reader without the lock never sees a cache ahead of its refresh token.
THEOREM CacheHonest == Spec => []CacheNeverAhead
<1>1. SessionInv => CacheNeverAhead
  BY DEF SessionInv, CacheBehind, NotAhead, CacheNeverAhead
<1>2. QED
  BY <1>1, Invariance, PTL

\* Only a sign-in begun after a logout brings a session back.
THEOREM LogoutHolds == Spec => []LogoutFinal
<1>1. SessionInv => LogoutFinal
  BY DEF SessionInv, LogoutQuiet, LogoutFinal
<1>2. QED
  BY <1>1, Invariance, PTL

\* Every family the issuer honours is stored or held, or a fault cut it loose.
THEOREM FamiliesReached == Spec => []NoFamilyAdrift
<1>1. SessionInv => NoFamilyAdrift
  BY DEF SessionInv
<1>2. QED
  BY <1>1, Invariance, PTL

\* A step that clears the store is a logout's or finds the family ended.
LEMMA StoreGivenUp ==
    ASSUME SessionInv, [Next]_vars, store # NoToken, store' = NoToken
    PROVE  (\E p \in Procs : cmd[p].pc = "clear" /\ cmd[p].kind = "logout") \/ ~fam[store.fam].alive
<1>1. /\ TypeOK /\ HandIsStored /\ StationsKept /\ StoreExpendable
  BY DEF SessionInv
<1>2. PICK p \in Procs : ClearStore(p)
  BY <1>1, StoreChanges DEF Save, SaveFails, StationsKept, StationKept, At
<1>3. cmd[p].pc = "clear"
  BY <1>2 DEF ClearStore
<1>4. QED
  BY <1>1, <1>3 DEF StoreExpendable, Expends, At, Dead

\* So is a step that removes session.json, unless the store is empty.
LEMMA SessionGivenUp ==
    ASSUME SessionInv, [Next]_vars, session # NoSession, session' = NoSession
    PROVE  \/ \E p \in Procs : cmd[p].pc = "unfile" /\ cmd[p].kind = "logout"
           \/ store = NoToken
           \/ ~fam[store.fam].alive
<1>1. /\ TypeOK /\ HandIsStored /\ StationsKept /\ StoreExpendable
  BY DEF SessionInv
<1>2. PICK p \in Procs : Unfile(p)
  BY <1>1, SessionChanges
<1>3. cmd[p].pc = "unfile"
  BY <1>2 DEF Unfile
<1>4. QED
  BY <1>1, <1>3 DEF StoreExpendable, Expends, At, Dead

\* A session is given up only by a logout, or when it is worth nothing.
THEOREM SessionsKept == Spec => GivenUpOnlyWhenDead
<1>1. SessionInv /\ [Next]_vars =>
        [ /\ store # NoToken /\ store' = NoToken =>
                (\E p \in Procs : cmd[p].pc = "clear" /\ cmd[p].kind = "logout") \/ ~fam[store.fam].alive
          /\ session # NoSession /\ session' = NoSession =>
                \/ \E p \in Procs : cmd[p].pc = "unfile" /\ cmd[p].kind = "logout"
                \/ store = NoToken
                \/ ~fam[store.fam].alive ]_vars
  BY StoreGivenUp, SessionGivenUp
<1>2. QED
  BY <1>1, Invariance, PTL DEF Spec, GivenUpOnlyWhenDead

=============================================================================
