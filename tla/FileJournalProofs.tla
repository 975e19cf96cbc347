-------------------------- MODULE FileJournalProofs --------------------------
(***************************************************************************)
(* Proofs about FileJournal: what recovery makes of a log and a snapshot,   *)
(* the invariant of the files and the handle, and that the log and snapshot *)
(* store implements DurableStore.                                          *)
(*                                                                         *)
(* Replay is a recursive function, so its value is proved by induction.     *)
(* The induction principle is stated with a set, the numbers for which the  *)
(* claim holds, and follows from the well-foundedness of < .                *)
(***************************************************************************)
EXTENDS FileJournal, SequenceTheorems, WellFoundedInduction, TLAPS

-----------------------------------------------------------------------------
(* Induction over the natural numbers *)

NatLess == {p \in Nat \X Nat : p[1] < p[2]}

\* Every non-empty set of natural numbers has a least element.
LEMMA LeastElement ==
    ASSUME NEW S, S \subseteq Nat, S # {}
    PROVE  \E x \in S : \A y \in S : x <= y
<1>1. IsWellFoundedOn(NatLess, Nat)
  BY NatLessThanWellFounded DEF OpToRel, NatLess
<1>2. PICK x \in S : \A y \in S : ~ (<<y, x>> \in NatLess)
  BY <1>1, WFMin
<1>3. ASSUME NEW y \in S PROVE x <= y
  <2>1. x \in Nat /\ y \in Nat /\ ~ (<<y, x>> \in NatLess)
    BY <1>2
  <2>2. ~ (y < x)
    BY <2>1 DEF NatLess
  <2> QED
    BY <2>1, <2>2
<1> QED
  BY <1>3

\* A set that holds 0 and the successor of each of its numbers holds them all.
LEMMA Induction ==
    ASSUME NEW S, 0 \in S, \A n \in Nat : n \in S => n + 1 \in S
    PROVE  Nat \subseteq S
<1> SUFFICES ASSUME ~ (Nat \subseteq S) PROVE FALSE
  OBVIOUS
<1>1. PICK m \in Nat \ S : \A y \in Nat \ S : m <= y
  BY LeastElement
<1>2. m # 0
  OBVIOUS
<1>3. m - 1 \in Nat /\ m - 1 \in S
  BY <1>1, <1>2
<1> QED
  BY <1>1, <1>3

-----------------------------------------------------------------------------
(* Replay *)

States == [ok : BOOLEAN, txn : Nat, format : 1..3, index : Seq(Ops)]

\* f holds the state after each of the first records of w.
IsReplay(f, st, w) ==
    f = [n \in 0 .. Len(w) |-> IF n = 0 THEN st ELSE Replayed(f[n - 1], w[n])]

\* The recursive function in Replay exists.
LEMMA ReplayExists ==
    ASSUME NEW st, NEW w \in Seq(Record)
    PROVE  \E f : IsReplay(f, st, w)
<1> DEFINE Upto(n, f) == f = [k \in 0 .. n |-> IF k = 0 THEN st ELSE Replayed(f[k - 1], w[k])]
<1> DEFINE Good == {n \in Nat : \E f : Upto(n, f)}
<1>1. 0 \in Good
  <2>1. Upto(0, [k \in 0 .. 0 |-> st])
    OBVIOUS
  <2> QED
    BY <2>1
<1>2. \A n \in Nat : n \in Good => n + 1 \in Good
  <2> SUFFICES ASSUME NEW n \in Nat, NEW f, Upto(n, f) PROVE n + 1 \in Good
    OBVIOUS
  <2> DEFINE g == [k \in 0 .. n + 1 |-> IF k <= n THEN f[k] ELSE Replayed(f[n], w[n + 1])]
  <2>1. \A k \in 0 .. n : g[k] = f[k]
    OBVIOUS
  <2>2. ASSUME NEW k \in 0 .. n + 1
        PROVE  g[k] = IF k = 0 THEN st ELSE Replayed(g[k - 1], w[k])
    <3>1. CASE k = 0
      BY <3>1
    <3>2. CASE k \in 1 .. n
      <4>1. k - 1 \in 0 .. n /\ k \in 0 .. n /\ k # 0
        BY <3>2
      <4>2. g[k] = f[k] /\ g[k - 1] = f[k - 1]
        BY <2>1, <4>1
      <4>3. f[k] = Replayed(f[k - 1], w[k])
        BY <4>1
      <4> HIDE DEF g
      <4> QED
        BY <4>1, <4>2, <4>3
    <3>3. CASE k = n + 1
      <4>1. g[k] = Replayed(f[n], w[n + 1])
        BY <3>3
      <4>2. g[n] = f[n]
        BY <2>1
      <4> HIDE DEF g
      <4> QED
        BY <3>3, <4>1, <4>2
    <3> QED
      BY <3>1, <3>2, <3>3
  <2>3. g = [k \in 0 .. n + 1 |-> g[k]]
    OBVIOUS
  <2> HIDE DEF g
  <2>4. Upto(n + 1, g)
    BY <2>2, <2>3
  <2> QED
    BY <2>4
<1> HIDE DEF Good
<1>3. Len(w) \in Good
  BY <1>1, <1>2, Induction
<1> QED
  BY <1>3 DEF Good, IsReplay

\* The value of Replay is the last of those states.
LEMMA ReplayTrace ==
    ASSUME NEW st, NEW w \in Seq(Record)
    PROVE  \E f : IsReplay(f, st, w) /\ Replay(st, w) = f[Len(w)]
<1> DEFINE after == CHOOSE f : IsReplay(f, st, w)
<1>1. IsReplay(after, st, w)
  BY ReplayExists
<1>2. Replay(st, w) = after[Len(w)]
  BY DEF Replay, IsReplay
<1> QED
  BY <1>1, <1>2

\* Two replays agree as far as their records do.
LEMMA ReplaysAgree ==
    ASSUME NEW st, NEW v \in Seq(Record), NEW w \in Seq(Record), NEW f, NEW g,
           IsReplay(f, st, v), IsReplay(g, st, w),
           Len(v) <= Len(w), \A n \in 1 .. Len(v) : v[n] = w[n]
    PROVE  \A n \in 0 .. Len(v) : f[n] = g[n]
<1> DEFINE Good == {n \in Nat : n <= Len(v) => f[n] = g[n]}
<1>1. 0 \in Good
  BY DEF IsReplay
<1>2. \A n \in Nat : n \in Good => n + 1 \in Good
  <2> SUFFICES ASSUME NEW n \in Nat, n \in Good, n + 1 <= Len(v) PROVE f[n + 1] = g[n + 1]
    OBVIOUS
  <2>1. f[n] = g[n] /\ v[n + 1] = w[n + 1] /\ n + 1 \in 0 .. Len(v) /\ n + 1 \in 0 .. Len(w)
    OBVIOUS
  <2>2. f[n + 1] = Replayed(f[n], v[n + 1]) /\ g[n + 1] = Replayed(g[n], w[n + 1])
    BY <2>1 DEF IsReplay
  <2> QED
    BY <2>1, <2>2
<1> HIDE DEF Good
<1>3. Nat \subseteq Good
  BY <1>1, <1>2, Induction
<1> QED
  BY <1>3 DEF Good

\* No record, no change.
LEMMA ReplayNothing ==
    ASSUME NEW st
    PROVE  Replay(st, <<>>) = st
<1>1. <<>> \in Seq(Record) /\ Len(<<>>) = 0
  OBVIOUS
<1>2. PICK f : IsReplay(f, st, <<>>) /\ Replay(st, <<>>) = f[0]
  BY <1>1, ReplayTrace
<1> QED
  BY <1>1, <1>2 DEF IsReplay

\* One more record is replayed after all the others.
LEMMA ReplayAppend ==
    ASSUME NEW st, NEW w \in Seq(Record), NEW r \in Record
    PROVE  Replay(st, Append(w, r)) = Replayed(Replay(st, w), r)
<1> DEFINE v == Append(w, r)
<1>1. v \in Seq(Record) /\ Len(v) = Len(w) + 1 /\ v[Len(w) + 1] = r
      /\ \A n \in 1 .. Len(w) : w[n] = v[n]
  OBVIOUS
<1>2. PICK f : IsReplay(f, st, w) /\ Replay(st, w) = f[Len(w)]
  BY ReplayTrace
<1> HIDE DEF v
<1>3. PICK g : IsReplay(g, st, v) /\ Replay(st, v) = g[Len(v)]
  BY <1>1, ReplayTrace
<1>4. f[Len(w)] = g[Len(w)]
  BY <1>1, <1>2, <1>3, ReplaysAgree
<1>5. g[Len(w) + 1] = Replayed(g[Len(w)], v[Len(w) + 1])
  BY <1>1, <1>3 DEF IsReplay
<1> QED
  BY <1>1, <1>2, <1>3, <1>4, <1>5 DEF v

\* A non-empty sequence is its front and its last element.
LEMMA FrontAndLast ==
    ASSUME NEW S, NEW w \in Seq(S), NEW n \in Nat, Len(w) = n + 1
    PROVE  /\ SubSeq(w, 1, n) \in Seq(S) /\ Len(SubSeq(w, 1, n)) = n
           /\ w = Append(SubSeq(w, 1, n), w[n + 1]) /\ w[n + 1] \in S
           /\ \A i \in 1 .. n : SubSeq(w, 1, n)[i] = w[i]
  OBVIOUS

\* One record leaves a state a state, and never lowers its transaction.
LEMMA ReplayedType ==
    ASSUME NEW st \in States, NEW r \in Record
    PROVE  /\ Replayed(st, r) \in States
           /\ Replayed(st, r).txn >= st.txn /\ Replayed(st, r).txn >= r.txn
  BY DEF States, Record, Replayed

\* Replay returns a state whose transaction is at least that of the start and
\* of every record.
LEMMA ReplayType ==
    ASSUME NEW st \in States, NEW w \in Seq(Record)
    PROVE  /\ Replay(st, w) \in States
           /\ Replay(st, w).txn >= st.txn
           /\ \A i \in DOMAIN w : Replay(st, w).txn >= w[i].txn
<1> DEFINE Holds(v) == /\ Replay(st, v) \in States
                       /\ Replay(st, v).txn >= st.txn
                       /\ \A i \in DOMAIN v : Replay(st, v).txn >= v[i].txn
<1> DEFINE Good == {n \in Nat : \A v \in Seq(Record) : Len(v) = n => Holds(v)}
<1>1. 0 \in Good
  <2> SUFFICES ASSUME NEW v \in Seq(Record), Len(v) = 0 PROVE Holds(v)
    OBVIOUS
  <2>1. v = <<>>
    OBVIOUS
  <2> QED
    BY <2>1, ReplayNothing DEF States
<1>2. \A n \in Nat : n \in Good => n + 1 \in Good
  <2> SUFFICES ASSUME NEW n \in Nat, n \in Good, NEW v \in Seq(Record), Len(v) = n + 1
               PROVE  Holds(v)
    OBVIOUS
  <2> DEFINE u == SubSeq(v, 1, n)
             r == v[n + 1]
  <2>1. u \in Seq(Record) /\ Len(u) = n /\ v = Append(u, r) /\ r \in Record
        /\ \A i \in 1 .. n : u[i] = v[i]
    BY FrontAndLast
  <2> HIDE DEF u, r
  <2>2. Holds(u)
    BY <2>1
  <2>3. Replay(st, v) = Replayed(Replay(st, u), r)
    BY <2>1, ReplayAppend
  <2>4. /\ Replay(st, v) \in States
        /\ Replay(st, v).txn >= Replay(st, u).txn /\ Replay(st, v).txn >= r.txn
    BY <2>1, <2>2, <2>3, ReplayedType
  <2>5. Replay(st, u).txn \in Nat /\ Replay(st, v).txn \in Nat /\ st.txn \in Nat
    BY <2>2, <2>4 DEF States
  <2>6. ASSUME NEW i \in DOMAIN v PROVE Replay(st, v).txn >= v[i].txn
    <3>1. CASE i = n + 1
      BY <2>4, <3>1 DEF r
    <3>2. CASE i \in 1 .. n
      <4>0. u[i] = v[i] /\ i \in DOMAIN u /\ u[i] \in Record
        BY <2>1, <3>2
      <4>1. v[i].txn \in Nat /\ Replay(st, u).txn >= v[i].txn
        BY <2>2, <4>0 DEF Record
      <4>2. Replay(st, v).txn >= Replay(st, u).txn
        BY <2>4
      <4> QED
        BY <2>5, <4>1, <4>2
    <3> QED
      BY <3>1, <3>2
  <2> QED
    BY <2>2, <2>4, <2>5, <2>6
<1> HIDE DEF Good, Holds
<1>3. Len(w) \in Good
  BY <1>1, <1>2, Induction
<1>4. Holds(w)
  BY <1>3 DEF Good
<1> QED
  BY <1>4 DEF Holds

\* Records the start covers change nothing.
LEMMA ReplayCovered ==
    ASSUME NEW st \in States, NEW w \in Seq(Record), \A i \in DOMAIN w : w[i].txn <= st.txn
    PROVE  Replay(st, w) = st
<1> DEFINE Covered(v) == \A i \in DOMAIN v : v[i].txn <= st.txn
<1> DEFINE Good == {n \in Nat : \A v \in Seq(Record) :
                       Len(v) = n /\ Covered(v) => Replay(st, v) = st}
<1> HIDE DEF Covered
<1>1. 0 \in Good
  <2> SUFFICES ASSUME NEW v \in Seq(Record), Len(v) = 0 PROVE Replay(st, v) = st
    OBVIOUS
  <2>1. v = <<>>
    OBVIOUS
  <2> QED
    BY <2>1, ReplayNothing
<1>2. \A n \in Nat : n \in Good => n + 1 \in Good
  <2> SUFFICES ASSUME NEW n \in Nat, n \in Good, NEW v \in Seq(Record), Len(v) = n + 1, Covered(v)
               PROVE  Replay(st, v) = st
    OBVIOUS
  <2> DEFINE u == SubSeq(v, 1, n)
             r == v[n + 1]
  <2>1. u \in Seq(Record) /\ Len(u) = n /\ v = Append(u, r) /\ r \in Record
        /\ \A i \in 1 .. n : u[i] = v[i]
    BY FrontAndLast
  <2>2. r.txn <= st.txn /\ Covered(u)
    BY <2>1 DEF Covered
  <2> HIDE DEF u, r
  <2>3. Replay(st, u) = st
    BY <2>1, <2>2
  <2>4. Replay(st, v) = Replayed(Replay(st, u), r)
    BY <2>1, ReplayAppend
  <2> QED
    BY <2>2, <2>3, <2>4 DEF Replayed
<1> HIDE DEF Good
<1>3. Len(w) \in Good
  BY <1>1, <1>2, Induction
<1> QED
  BY <1>3 DEF Good, Covered

-----------------------------------------------------------------------------
(* Reading the files *)

\* A log of whole records is read as it is.
LEMMA WholeRecords ==
    ASSUME NEW w \in Seq(Record)
    PROVE  /\ w \in Logs /\ w # NoFile /\ Cells(w) = w /\ Whole(w) = w
           /\ ~ DamagedInside(w) /\ TornTailOnly(w)
<1>1. w \in Seq(Record \union {Torn}) /\ \A i \in DOMAIN w : w[i] # Torn
  BY SentinelAssumption
<1>2. w # NoFile /\ Cells(w) = w
  BY <1>1, SentinelAssumption DEF Cells
<1> QED
  BY <1>1, <1>2 DEF Logs, Whole, DamagedInside, TornTailOnly

\* A torn tail is left out.
LEMMA WholeTorn ==
    ASSUME NEW w \in Seq(Record)
    PROVE  /\ Append(w, Torn) \in Logs /\ Append(w, Torn) # NoFile
           /\ Cells(Append(w, Torn)) = Append(w, Torn)
           /\ Whole(Append(w, Torn)) = w
           /\ ~ DamagedInside(Append(w, Torn)) /\ TornTailOnly(Append(w, Torn))
<1> DEFINE l == Append(w, Torn)
<1>1. /\ l \in Seq(Record \union {Torn}) /\ Len(l) = Len(w) + 1 /\ l[Len(w) + 1] = Torn
      /\ \A i \in 1 .. Len(w) : l[i] = w[i] /\ w[i] # Torn
      /\ SubSeq(l, 1, Len(w)) = w
  BY SentinelAssumption
<1> HIDE DEF l
<1>2. l # NoFile /\ Cells(l) = l
  BY <1>1, SentinelAssumption DEF Cells
<1>3. \A i \in DOMAIN l : l[i] = Torn <=> i = Len(w) + 1
  BY <1>1
<1>4. {i \in DOMAIN l : l[i] = Torn} = {Len(w) + 1}
  <2>1. Len(w) + 1 \in DOMAIN l
    BY <1>1
  <2> QED
    BY <1>3, <2>1
<1>5. (CHOOSE i \in {Len(w) + 1} : \A j \in {Len(w) + 1} : i <= j) = Len(w) + 1
  OBVIOUS
<1>6. Whole(l) = SubSeq(l, 1, Len(w) + 1 - 1)
  <2> DEFINE torn == {i \in DOMAIN l : l[i] = Torn}
  <2>1. Whole(l) = IF torn = {} THEN l
                   ELSE SubSeq(l, 1, (CHOOSE i \in torn : \A j \in torn : i <= j) - 1)
    BY <1>2 DEF Whole
  <2>2. torn = {Len(w) + 1}
    BY <1>4
  <2> HIDE DEF torn
  <2> QED
    BY <1>5, <2>1, <2>2
<1>7. Whole(l) = w
  BY <1>1, <1>6
<1> QED
  BY <1>1, <1>2, <1>3, <1>7 DEF l, Logs, DamagedInside, TornTailOnly

\* Without a log there is no record.
LEMMA WholeNone ==
    /\ NoFile \in Logs /\ Cells(NoFile) = <<>> /\ Whole(NoFile) = <<>>
    /\ ~ DamagedInside(NoFile) /\ TornTailOnly(NoFile)
  BY DEF Logs, Cells, Whole, DamagedInside, TornTailOnly

\* The forms of a log whose only torn bytes are its last.
LEMMA LogForms ==
    ASSUME NEW l \in Logs, TornTailOnly(l)
    PROVE  l = NoFile \/ l \in Seq(Record) \/ \E w \in Seq(Record) : l = Append(w, Torn)
<1> SUFFICES ASSUME l # NoFile
             PROVE  l \in Seq(Record) \/ \E w \in Seq(Record) : l = Append(w, Torn)
  OBVIOUS
<1>1. l \in Seq(Record \union {Torn}) /\ \A i \in DOMAIN l : l[i] = Torn => i = Len(l)
  BY DEF Logs, TornTailOnly, Cells
<1>2. CASE l = <<>>
  BY <1>2
<1>3. CASE l # <<>>
  <2> DEFINE n == Len(l) - 1
  <2>1. n \in Nat /\ Len(l) = n + 1
    BY <1>1, <1>3
  <2> DEFINE w == SubSeq(l, 1, n)
  <2>2. /\ w \in Seq(Record \union {Torn}) /\ Len(w) = n
        /\ l = Append(w, l[n + 1]) /\ l[n + 1] \in Record \union {Torn}
        /\ \A i \in 1 .. n : w[i] = l[i]
    BY <1>1, <2>1, FrontAndLast
  <2> HIDE DEF w, n
  <2>3. \A i \in 1 .. n : w[i] \in Record
    BY <1>1, <2>1, <2>2
  <2>4. w \in Seq(Record)
    BY <2>1, <2>2, <2>3
  <2>5. l[n + 1] \in Record => l \in Seq(Record)
    BY <2>2, <2>4
  <2> QED
    BY <2>2, <2>4, <2>5
<1> QED
  BY <1>2, <1>3

\* The state of a snapshot, and the empty one without.
LEMMA LoadedType ==
    ASSUME NEW s \in Snapshots
    PROVE  Loaded(s) \in States
  BY SentinelAssumption DEF Snapshots, Snapshot, Loaded, States

\* Recovery is the replay of the whole records where no record is behind torn
\* bytes.
LEMMA RecoverIsReplay ==
    ASSUME NEW l \in Logs, TornTailOnly(l), NEW s \in Snapshots
    PROVE  /\ Whole(l) \in Seq(Record) /\ Recover(l, s) = Replay(Loaded(s), Whole(l))
           /\ Recover(l, s) \in States
<1>1. Whole(l) \in Seq(Record) /\ ~ DamagedInside(l)
  <2>1. CASE l = NoFile
    BY <2>1, WholeNone
  <2>2. CASE l \in Seq(Record)
    BY <2>2, WholeRecords
  <2>3. ASSUME NEW w \in Seq(Record), l = Append(w, Torn)
        PROVE  Whole(l) \in Seq(Record) /\ ~ DamagedInside(l)
    BY <2>3, WholeTorn
  <2> QED
    BY <2>1, <2>2, <2>3, LogForms
<1>2. Replay(Loaded(s), Whole(l)) \in States
  BY <1>1, LoadedType, ReplayType
<1>3. \A st \in States : [st EXCEPT !.ok = @ /\ TRUE] = st
  BY DEF States
<1>4. Recover(l, s) = Replay(Loaded(s), Whole(l))
  BY <1>1, <1>2, <1>3 DEF Recover
<1> QED
  BY <1>1, <1>2, <1>4

\* An empty log, and none, leave the snapshot.
LEMMA RecoverNothing ==
    ASSUME NEW s \in Snapshots
    PROVE  Recover(<<>>, s) = Loaded(s) /\ Recover(NoFile, s) = Loaded(s)
<1>1. <<>> \in Seq(Record)
  OBVIOUS
<1> QED
  BY <1>1, WholeRecords, WholeNone, RecoverIsReplay, ReplayNothing

\* A record more is replayed last; torn bytes are not there.
LEMMA RecoverAppend ==
    ASSUME NEW w \in Seq(Record), NEW r \in Record, NEW s \in Snapshots
    PROVE  /\ Recover(Append(w, r), s) = Replayed(Recover(w, s), r)
           /\ Recover(Append(w, Torn), s) = Recover(w, s)
<1>1. Append(w, r) \in Seq(Record)
  OBVIOUS
<1>2. Recover(Append(w, r), s) = Replay(Loaded(s), Append(w, r))
  BY <1>1, WholeRecords, RecoverIsReplay
<1>3. Recover(Append(w, Torn), s) = Replay(Loaded(s), w)
  <2> DEFINE l == Append(w, Torn)
  <2>1. l \in Logs /\ TornTailOnly(l) /\ Whole(l) = w
    BY WholeTorn
  <2> HIDE DEF l
  <2>2. Recover(l, s) = Replay(Loaded(s), Whole(l))
    BY <2>1, RecoverIsReplay
  <2> QED
    BY <2>1, <2>2 DEF l
<1>4. Recover(w, s) = Replay(Loaded(s), w)
  BY WholeRecords, RecoverIsReplay
<1> QED
  BY <1>2, <1>3, <1>4, ReplayAppend

\* No record of a log is beyond what is recovered from it.
LEMMA RecoverReaches ==
    ASSUME NEW l \in Logs, TornTailOnly(l), NEW s \in Snapshots
    PROVE  \A i \in DOMAIN Whole(l) : Whole(l)[i].txn <= Recover(l, s).txn
<1>1. /\ Whole(l) \in Seq(Record) /\ Recover(l, s) = Replay(Loaded(s), Whole(l))
      /\ Recover(l, s) \in States
  BY RecoverIsReplay
<1>2. \A i \in DOMAIN Whole(l) : Recover(l, s).txn >= Whole(l)[i].txn
  BY <1>1, LoadedType, ReplayType
<1>3. \A i \in DOMAIN Whole(l) : Whole(l)[i] \in Record
  BY <1>1
<1>4. \A r \in Record : r.txn \in Nat
  BY DEF Record
<1> QED
  BY <1>1, <1>2, <1>3, <1>4 DEF States

\* A snapshot that covers a log except for its last record, at most, recovers
\* to itself or to itself with that record.
LEMMA RecoverBeyond ==
    ASSUME NEW l \in Logs, TornTailOnly(l), NEW s \in Snapshot, OneBeyond(l, Loaded(s))
    PROVE  \/ Recover(l, s) = Loaded(s)
           \/ \E r \in Record : /\ r.txn = s.txn + 1 /\ r.format >= s.format
                                /\ r.op \in asked \ refused
                                /\ Recover(l, s) = Replayed(Loaded(s), r)
<1>1. s \in Snapshots /\ s # NoFile /\ s # Torn
  BY SentinelAssumption DEF Snapshots
<1>2. /\ Loaded(s).txn = s.txn /\ Loaded(s).format = s.format /\ s.txn \in Nat
      /\ Loaded(s) \in States
  BY <1>1, LoadedType DEF Loaded, Snapshot
<1>3. Whole(l) \in Seq(Record) /\ Recover(l, s) = Replay(Loaded(s), Whole(l))
  BY <1>1, RecoverIsReplay
<1> DEFINE w == Whole(l)
<1>4. CASE \A i \in DOMAIN w : w[i].txn <= s.txn
  BY <1>2, <1>3, <1>4, ReplayCovered
<1>5. CASE ~ \A i \in DOMAIN w : w[i].txn <= s.txn
  <2>1. PICK i \in DOMAIN w : ~ (w[i].txn <= s.txn)
    BY <1>5
  <2>r. w[i] \in Record
    BY <1>3
  <2>2. w[i].txn > s.txn /\ w[i] \in Record
    BY <1>2, <2>1, <2>r DEF Record
  <2>3. /\ i = Len(w) /\ w[i].txn = s.txn + 1 /\ w[i].format >= s.format
        /\ w[i].op \in asked \ refused
    BY <1>2, <2>2 DEF OneBeyond
  <2> DEFINE n == Len(w) - 1
             u == SubSeq(w, 1, n)
  <2>4. n \in Nat /\ Len(w) = n + 1
    BY <1>3, <2>3
  <2>5. /\ u \in Seq(Record) /\ Len(u) = n /\ w = Append(u, w[i])
        /\ \A j \in 1 .. n : u[j] = w[j]
    BY <1>3, <2>3, <2>4, FrontAndLast
  <2>6. ASSUME NEW j \in DOMAIN u PROVE u[j].txn <= s.txn
    <3>1. j \in 1 .. n /\ j \in DOMAIN w /\ j # Len(w) /\ w[j] \in Record /\ u[j] = w[j]
      BY <1>3, <2>4, <2>5
    <3>2. ~ (w[j].txn > s.txn)
      BY <1>2, <3>1 DEF OneBeyond
    <3> QED
      BY <1>2, <3>1, <3>2 DEF Record
  <2> HIDE DEF u, n
  <2>7. Replay(Loaded(s), u) = Loaded(s)
    BY <1>2, <2>5, <2>6, ReplayCovered
  <2>8. Replay(Loaded(s), Append(u, w[i])) = Replayed(Loaded(s), w[i])
    BY <2>2, <2>5, <2>7, ReplayAppend
  <2> QED
    BY <1>3, <2>2, <2>3, <2>5, <2>8
<1> QED
  BY <1>4, <1>5

-----------------------------------------------------------------------------
(* Sequences of mutations *)

\* A prefix, element by element.
LEMMA PrefixIs ==
    ASSUME NEW S, NEW s \in Seq(S), NEW t \in Seq(S)
    PROVE  IsPrefix(s, t) <=> Len(s) <= Len(t) /\ \A i \in 1 .. Len(s) : s[i] = t[i]
<1>1. CASE Len(s) <= Len(t)
  <2>1. /\ SubSeq(s, 1, Len(s)) \in Seq(S) /\ SubSeq(t, 1, Len(s)) \in Seq(S)
        /\ Len(SubSeq(s, 1, Len(s))) = Len(s) /\ Len(SubSeq(t, 1, Len(s))) = Len(s)
        /\ \A i \in 1 .. Len(s) : SubSeq(s, 1, Len(s))[i] = s[i] /\ SubSeq(t, 1, Len(s))[i] = t[i]
    BY <1>1
  <2> QED
    BY <1>1, <2>1, SeqEqual DEF IsPrefix
<1>2. CASE ~ (Len(s) <= Len(t))
  BY <1>2 DEF IsPrefix
<1> QED
  BY <1>1, <1>2

\* What an appended element keeps and adds.
LEMMA PrefixAppend ==
    ASSUME NEW S, NEW s \in Seq(S), NEW t \in Seq(S), NEW e \in S
    PROVE  /\ IsPrefix(s, t) => IsPrefix(s, Append(t, e))
           /\ IsPrefix(Append(t, e), Append(t, e))
           /\ ToSet(Append(t, e)) = ToSet(t) \union {e}
<1> DEFINE u == Append(t, e)
<1>1. /\ u \in Seq(S) /\ Len(u) = Len(t) + 1
      /\ \A i \in 1 .. Len(t) : u[i] = t[i]
      /\ u[Len(t) + 1] = e
  OBVIOUS
<1> HIDE DEF u
<1>2. IsPrefix(s, t) => IsPrefix(s, u)
  <2> SUFFICES ASSUME IsPrefix(s, t) PROVE IsPrefix(s, u)
    OBVIOUS
  <2>1. Len(s) <= Len(t) /\ \A i \in 1 .. Len(s) : s[i] = t[i]
    BY PrefixIs
  <2>2. Len(s) <= Len(u) /\ \A i \in 1 .. Len(s) : s[i] = u[i]
    BY <1>1, <2>1
  <2> QED
    BY <1>1, <2>2, PrefixIs
<1>3. IsPrefix(u, u)
  <2>1. Len(u) <= Len(u) /\ \A i \in 1 .. Len(u) : u[i] = u[i]
    BY <1>1
  <2> QED
    BY <1>1, <2>1, PrefixIs
<1>4. ToSet(u) \subseteq ToSet(t) \union {e}
  BY <1>1 DEF ToSet
<1>5. ToSet(t) \subseteq ToSet(u)
  BY <1>1 DEF ToSet
<1>6. e \in ToSet(u)
  <2>1. Len(t) + 1 \in DOMAIN u
    BY <1>1
  <2> QED
    BY <1>1, <2>1 DEF ToSet
<1> QED
  BY <1>2, <1>3, <1>4, <1>5, <1>6 DEF u

-----------------------------------------------------------------------------
(* What the invariant says of the images and of the log *)

\* Every image is a pair of files that recovers to a state.
LEMMA ImagesRecover ==
    ASSUME StoreInv, NEW l \in dlogs, NEW s \in dsnaps
    PROVE  /\ l \in Logs /\ s \in Snapshots /\ s # Torn
           /\ TornTailOnly(l) /\ Whole(l) \in Seq(Record)
           /\ Found(<<l, s>>) = Recover(l, s) /\ Found(<<l, s>>) \in States
<1>1. l \in Logs /\ s \in Snapshots /\ s # Torn /\ TornTailOnly(l)
  BY DEF StoreInv, TypeOK, FilesSound
<1>2. Found(<<l, s>>) = Recover(l, s)
  BY DEF Found
<1> QED
  BY <1>1, <1>2, RecoverIsReplay

\* So do the files as they are.
LEMMA FilesRecover ==
    ASSUME StoreInv
    PROVE  /\ log \in dlogs /\ snap \in dsnaps
           /\ log \in Logs /\ snap \in Snapshots /\ snap # Torn
           /\ TornTailOnly(log) /\ Whole(log) \in Seq(Record) /\ Len(Whole(log)) \in Nat
           /\ Found(<<log, snap>>) = Recover(log, snap) /\ Found(<<log, snap>>) \in States
<1>1. log \in dlogs /\ snap \in dsnaps
  BY DEF StoreInv, FilesSound
<1> QED
  BY <1>1, ImagesRecover

\* A log as long as its whole records holds nothing else.
LEMMA LogIsWhole ==
    ASSUME NEW l \in Logs, TornTailOnly(l), l # NoFile, Len(l) = Len(Whole(l))
    PROVE  l \in Seq(Record) /\ Whole(l) = l
<1>1. ASSUME NEW w \in Seq(Record), l = Append(w, Torn) PROVE FALSE
  <2>1. Whole(l) = w
    BY <1>1, WholeTorn
  <2>2. Len(l) = Len(w) + 1
    BY <1>1
  <2> QED
    BY <2>1, <2>2
<1>2. l \in Seq(Record)
  BY <1>1, LogForms
<1> QED
  BY <1>2, WholeRecords

\* The records a torn log keeps are its beginning.
LEMMA WholeIsPrefix ==
    ASSUME NEW l \in Logs, TornTailOnly(l), l # NoFile
    PROVE  /\ SubSeq(l, 1, Len(Whole(l))) = Whole(l)
           /\ Len(Whole(l)) <= Len(l) /\ Len(l) \in Nat
<1>1. CASE l \in Seq(Record)
  BY <1>1, WholeRecords
<1>2. ASSUME NEW w \in Seq(Record), l = Append(w, Torn)
      PROVE  /\ SubSeq(l, 1, Len(Whole(l))) = Whole(l)
             /\ Len(Whole(l)) <= Len(l) /\ Len(l) \in Nat
  <2>1. Whole(l) = w
    BY <1>2, WholeTorn
  <2>2. SubSeq(Append(w, Torn), 1, Len(w)) = w /\ Len(Append(w, Torn)) = Len(w) + 1
    OBVIOUS
  <2> QED
    BY <1>2, <2>1, <2>2
<1> QED
  BY <1>1, <1>2, LogForms

\* Nothing of the files or the history changes.
FilesStay == UNCHANGED <<log, dlogs, snap, dsnaps, committed, refused, asked>>

LEMMA FilesSoundStays ==
    ASSUME FilesSound, FilesStay
    PROVE  FilesSound'
  BY DEF FilesSound, FilesStay, OneBeyond, Sound

-----------------------------------------------------------------------------
(* Steps that change no contents of the log or the snapshot *)

LEMMA OpenStep ==
    ASSUME StoreInv, Open
    PROVE  StoreInv'
<1>1. /\ Found(<<log, snap>>) = Recover(log, snap) /\ Found(<<log, snap>>) \in States
      /\ Len(Whole(log)) \in Nat
  BY FilesRecover
<1>2. /\ Found(<<log, snap>>).ok
      /\ index' = Found(<<log, snap>>).index /\ txn' = Found(<<log, snap>>).txn
      /\ format' = Found(<<log, snap>>).format
      /\ logLen' = Len(Whole(log)) /\ unavailable' = FALSE /\ cur' = NoOp
      /\ \/ pc' = "prune" /\ opening' = TRUE
         \/ pc' = "readonly" /\ opening' = FALSE
      /\ UNCHANGED <<fileVars, histVars, countVars>>
  BY <1>1 DEF Open, Goto
<1>3. Memory' = Found(<<log, snap>>)
  BY <1>1, <1>2 DEF Memory, States
<1>4. TypeOK'
  BY <1>1, <1>2 DEF StoreInv, TypeOK, States, fileVars, histVars, countVars
<1>5. FilesSound'
  BY <1>2, FilesSoundStays DEF StoreInv, FilesStay, fileVars, histVars
<1>6. \A l \in dlogs' : OneBeyond(l, Memory)'
  BY <1>2, <1>3 DEF StoreInv, FilesSound, OneBeyond, fileVars, histVars
<1>7. AtRest'
  BY <1>2, <1>3 DEF AtRest, Booting, Compacting, Idle, fileVars
<1>8. InAppend' /\ InCompaction'
  BY <1>2 DEF InAppend, Appending, InCompaction
<1>9. HandleSound'
  BY <1>2, <1>6, <1>7, <1>8 DEF StoreInv, HandleSound, Booting, histVars
<1> QED
  BY <1>4, <1>5, <1>9 DEF StoreInv

\* Memory, log and snapshot stay, and so does everything said about them.
HandleStays ==
    /\ FilesStay
    /\ UNCHANGED <<index, txn, format, logLen, unavailable>>

LEMMA BeyondStays ==
    ASSUME StoreInv, HandleStays, pc # "closed"
    PROVE  Memory' = Memory /\ \A l \in dlogs' : OneBeyond(l, Memory)'
<1>1. Memory' = Memory
  BY DEF HandleStays, Memory
<1> QED
  BY <1>1 DEF StoreInv, HandleSound, HandleStays, FilesStay, OneBeyond

\* A call of open fails.
LEMMA OpenFailsStep ==
    ASSUME StoreInv, Fault, OpenFails, HandleStays, UNCHANGED <<cur, temp, dtemps>>,
           pc \in Booting \union Compacting
    PROVE  StoreInv'
<1>1. pc' = "closed" /\ opening' = FALSE /\ faults' \in 0 .. MaxFaults /\ crashes' = crashes
  BY FileAssumption DEF Fault, OpenFails, Goto, StoreInv, TypeOK
<1>2. TypeOK'
  BY <1>1 DEF StoreInv, TypeOK, HandleStays, FilesStay
<1>3. FilesSound'
  BY FilesSoundStays DEF StoreInv, HandleStays
<1>4. AtRest' /\ InAppend' /\ InCompaction'
  BY <1>1 DEF AtRest, Idle, InAppend, InCompaction, Booting, Compacting, Appending
<1>5. HandleSound'
  BY <1>1, <1>4 DEF StoreInv, HandleSound, HandleStays, FilesStay
<1> QED
  BY <1>2, <1>3, <1>5 DEF StoreInv

LEMMA PruneStep ==
    ASSUME StoreInv, Prune
    PROVE  StoreInv'
<1>0. pc = "prune" /\ HandleStays /\ cur' = cur
  BY DEF Prune, HandleStays, FilesStay, histVars
<1>1. CASE /\ temp' = NoFile /\ dtemps' = {}
           /\ Goto(IF log = NoFile THEN "create" ELSE "openlog")
           /\ NoFault /\ UNCHANGED opening
  <2>1. pc' = IF log = NoFile THEN "create" ELSE "openlog"
    BY <1>1 DEF Goto
  <2>2. TypeOK'
    BY <1>0, <1>1, <2>1 DEF StoreInv, TypeOK, HandleStays, FilesStay, NoFault, countVars, Snapshots
  <2>3. FilesSound'
    BY <1>0, FilesSoundStays DEF StoreInv, HandleStays
  <2>4. Memory' = Memory /\ \A l \in dlogs' : OneBeyond(l, Memory)'
    BY <1>0, BeyondStays
  <2>5. AtRest'
    BY <1>0, <2>1, <2>4
    DEF StoreInv, HandleSound, AtRest, Idle, Booting, Compacting, HandleStays, FilesStay
  <2>6. InAppend' /\ InCompaction'
    BY <2>1 DEF InAppend, Appending, InCompaction
  <2>7. HandleSound'
    BY <1>0, <1>1, <2>1, <2>4, <2>5, <2>6
    DEF StoreInv, HandleSound, Booting, HandleStays, FilesStay
  <2> QED
    BY <2>2, <2>3, <2>7 DEF StoreInv
<1>2. CASE Fault /\ OpenFails /\ UNCHANGED <<temp, dtemps>>
  BY <1>0, <1>2, OpenFailsStep DEF Booting
<1> QED
  BY <1>1, <1>2 DEF Prune

\* open is past the log: the log is clean, and open ends or compacts.
LEMMA OpenedStep ==
    ASSUME StoreInv, FilesSound', TypeOK', pc \in {"openlog", "mendsync"}, Opened,
           UNCHANGED <<index, txn, format, logLen, unavailable, histVars, log, snap>>,
           dlogs' \subseteq dlogs, Len(log) = logLen
    PROVE  StoreInv'
<1>1. opening' \in BOOLEAN /\ unavailable' = FALSE
      /\ \/ pc' = "snapwrite" /\ opening' = opening
         \/ pc' = "idle" /\ opening' = FALSE
  BY DEF Opened, Goto, StoreInv, TypeOK, HandleSound
<1>2. Memory' = Memory
  BY DEF Memory
<1>3. \A l \in dlogs' : OneBeyond(l, Memory)'
  BY <1>2 DEF StoreInv, HandleSound, OneBeyond, histVars
<1>4. AtRest'
  BY <1>1, <1>2 DEF StoreInv, HandleSound, AtRest, Idle, Booting, Compacting
<1>5. InAppend' /\ InCompaction'
  BY <1>1 DEF InAppend, Appending, InCompaction
<1>6. HandleSound'
  BY <1>1, <1>3, <1>4, <1>5 DEF StoreInv, HandleSound, Compacting, histVars
<1> QED
  BY <1>6 DEF StoreInv

LEMMA OpenLogStep ==
    ASSUME StoreInv, OpenLog
    PROVE  StoreInv'
<1>0. pc = "openlog" /\ HandleStays /\ UNCHANGED <<cur, temp, dtemps>>
  BY DEF OpenLog, HandleStays, FilesStay, fileVars, histVars
<1>1. CASE /\ IF Len(log) # logLen THEN Goto("mend") /\ UNCHANGED opening ELSE Opened
           /\ NoFault
  <2>1. pc' \in {"mend", "snapwrite", "idle"} /\ opening' \in BOOLEAN
    BY <1>1 DEF Goto, Opened, StoreInv, TypeOK
  <2>2. TypeOK'
    BY <1>0, <1>1, <2>1 DEF StoreInv, TypeOK, HandleStays, FilesStay, NoFault, countVars
  <2>3. FilesSound'
    BY <1>0, FilesSoundStays DEF StoreInv, HandleStays
  <2>4. CASE Len(log) = logLen
    BY <1>0, <1>1, <2>2, <2>3, <2>4, OpenedStep DEF HandleStays, FilesStay, histVars
  <2>5. CASE Len(log) # logLen
    <3>1. pc' = "mend" /\ opening' = opening
      BY <1>1, <2>5 DEF Goto
    <3>2. Memory' = Memory /\ \A l \in dlogs' : OneBeyond(l, Memory)'
      BY <1>0, BeyondStays
    <3>3. AtRest'
      BY <1>0, <3>1, <3>2
      DEF StoreInv, HandleSound, AtRest, Idle, Booting, Compacting, HandleStays, FilesStay
    <3>4. InAppend' /\ InCompaction'
      BY <3>1 DEF InAppend, Appending, InCompaction
    <3>5. HandleSound'
      BY <1>0, <3>1, <3>2, <3>3, <3>4
      DEF StoreInv, HandleSound, Booting, HandleStays, FilesStay
    <3> QED
      BY <2>2, <2>3, <3>5 DEF StoreInv
  <2> QED
    BY <2>4, <2>5
<1>2. CASE Fault /\ OpenFails
  BY <1>0, <1>2, OpenFailsStep DEF Booting
<1> QED
  BY <1>1, <1>2 DEF OpenLog

LEMMA CloseStep ==
    ASSUME StoreInv, Close
    PROVE  StoreInv'
<1>1. pc' = "closed" /\ UNCHANGED <<fileVars, memVars, histVars, countVars>> /\ pc \in {"idle", "readonly"}
  BY DEF Close, Goto
<1>2. TypeOK'
  BY <1>1 DEF StoreInv, TypeOK, fileVars, memVars, histVars, countVars
<1>3. FilesSound'
  BY <1>1, FilesSoundStays DEF StoreInv, FilesStay, fileVars, histVars
<1>4. AtRest' /\ InAppend' /\ InCompaction'
  BY <1>1 DEF AtRest, Idle, InAppend, InCompaction, Booting, Compacting, Appending
<1>5. HandleSound'
  BY <1>1, <1>4
  DEF StoreInv, HandleSound, memVars, histVars, Booting, Compacting
<1> QED
  BY <1>2, <1>3, <1>5 DEF StoreInv

LEMMA KillStep ==
    ASSUME StoreInv, Kill
    PROVE  StoreInv'
<1>1. /\ pc' = "closed" /\ opening' = FALSE /\ cur' = NoOp
      /\ index' = <<>> /\ txn' = 0 /\ format' = 1 /\ logLen' = 0 /\ unavailable' = FALSE
      /\ crashes' \in 0 .. MaxCrashes /\ faults' = faults
      /\ UNCHANGED <<fileVars, histVars>>
  BY FileAssumption DEF Kill, Forget, Goto, StoreInv, TypeOK
<1>2. TypeOK'
  <2>1. <<>> \in Seq(Ops) /\ 0 \in Nat /\ 1 \in 1..3
    OBVIOUS
  <2> QED
    BY <1>1, <2>1 DEF StoreInv, TypeOK, fileVars, histVars
<1>3. FilesSound'
  BY <1>1, FilesSoundStays DEF StoreInv, FilesStay, fileVars, histVars
<1>4. AtRest' /\ InAppend' /\ InCompaction'
  BY <1>1 DEF AtRest, Idle, InAppend, InCompaction, Booting, Compacting, Appending
<1>5. HandleSound'
  BY <1>1, <1>4 DEF StoreInv, HandleSound, histVars
<1> QED
  BY <1>2, <1>3, <1>5 DEF StoreInv

-----------------------------------------------------------------------------
(* Steps that change the log *)

\* A log that takes the place of the present one: with every snapshot it leads
\* to one sound state, beyond which no log goes by more than a record.
LEMMA NewLog ==
    ASSUME StoreInv, NEW st, NEW P,
           log' \in dlogs', dlogs' \subseteq dlogs \union P,
           UNCHANGED <<snap, dsnaps, committed, refused, asked>>,
           \A l \in P : TornTailOnly(l),
           \A l \in P, s \in dsnaps : Sound(Found(<<l, s>>)),
           \A l \in dlogs \union P : OneBeyond(l, st),
           \A s \in dsnaps : Found(<<log', s>>) = st
    PROVE  FilesSound'
<1>1. snap \in dsnaps /\ Found(<<log, snap>>)' = st
  BY DEF StoreInv, FilesSound
<1>2. \A l \in dlogs' : TornTailOnly(l) /\ OneBeyond(l, st)'
  BY DEF StoreInv, FilesSound, OneBeyond
<1>3. \A l \in dlogs', s \in dsnaps' : Sound(Found(<<l, s>>))'
  BY DEF StoreInv, FilesSound, Sound
<1>4. \A s \in dsnaps' : Found(<<log, s>>)' = st
  OBVIOUS
<1> QED
  BY <1>1, <1>2, <1>3, <1>4 DEF StoreInv, FilesSound, OneBeyond

\* Fewer images, with the present files among them.
LEMMA FewerImages ==
    ASSUME StoreInv, log' = log, snap' = snap, log \in dlogs', snap \in dsnaps',
           dlogs' \subseteq dlogs, dsnaps' \subseteq dsnaps,
           UNCHANGED <<committed, refused, asked>>
    PROVE  FilesSound'
  BY DEF StoreInv, FilesSound, OneBeyond, Sound

\* An fsync of the log leaves the present one.
LEMMA SyncedLog ==
    ASSUME StoreInv, SyncLog
    PROVE  /\ log' = log /\ log \in dlogs' /\ dlogs' \subseteq dlogs
           /\ dlogs' \in SUBSET Logs /\ dlogs' # {}
           /\ \A l \in dlogs' : l = log \/ (l = NoFile /\ ~ EntryWithFile)
  BY FileAssumption DEF StoreInv, TypeOK, FilesSound, SyncLog

\* What a state with every snapshot and no log beyond it is: not beyond itself.
LEMMA NotBeyondItself ==
    ASSUME NEW l \in Logs, TornTailOnly(l), NEW s \in Snapshots
    PROVE  OneBeyond(l, Recover(l, s))
<1>1. \A i \in DOMAIN Whole(l) : Whole(l)[i].txn <= Recover(l, s).txn
  BY RecoverReaches
<1>2. Recover(l, s).txn \in Nat /\ Whole(l) \in Seq(Record)
  BY RecoverIsReplay DEF States
<1>3. \A i \in DOMAIN Whole(l) : Whole(l)[i] \in Record
  BY <1>2
<1>4. \A i \in DOMAIN Whole(l) : ~ (Whole(l)[i].txn > Recover(l, s).txn)
  BY <1>1, <1>2, <1>3 DEF Record
<1> QED
  BY <1>4 DEF OneBeyond

LEMMA CreateStep ==
    ASSUME StoreInv, Create
    PROVE  StoreInv'
<1>0. pc = "create" /\ log = NoFile
      /\ UNCHANGED <<snap, dsnaps, temp, dtemps, cur, index, txn, format, logLen, unavailable,
                     committed, refused, asked>>
  BY DEF Create, histVars, StoreInv, HandleSound, AtRest, Booting
<1>1. CASE WriteLog(<<>>) /\ Goto("logdir") /\ NoFault /\ UNCHANGED opening
  <2>1. log' = <<>> /\ dlogs' = dlogs \union {<<>>} /\ pc' = "logdir" /\ opening' = opening
        /\ UNCHANGED <<faults, crashes>>
    BY <1>1 DEF WriteLog, Goto, NoFault, countVars
  <2>2. /\ <<>> \in Seq(Record) /\ <<>> \in Logs /\ <<>> # NoFile /\ TornTailOnly(<<>>)
        /\ Whole(<<>>) = <<>>
    <3>1. <<>> \in Seq(Record)
      OBVIOUS
    <3> QED
      BY <3>1, WholeRecords
  <2>3. \A s \in dsnaps : Found(<<<<>>, s>>) = Found(<<log, s>>)
    BY <1>0, RecoverNothing DEF Found, StoreInv, TypeOK
  <2>4. TypeOK'
    BY <1>0, <2>1, <2>2 DEF StoreInv, TypeOK
  <2>5. FilesSound'
    <3> DEFINE P == {<<>>}
               st == Found(<<log, snap>>)
    <3>1. \A l \in P, s \in dsnaps : Sound(Found(<<l, s>>))
      BY <2>3 DEF StoreInv, FilesSound
    <3>2. \A l \in dlogs \union P : OneBeyond(l, st)
      BY <2>2 DEF StoreInv, FilesSound, OneBeyond
    <3>3. \A s \in dsnaps : Found(<<log', s>>) = st
      BY <2>1, <2>3 DEF StoreInv, FilesSound
    <3>4. log' \in dlogs' /\ dlogs' \subseteq dlogs \union P /\ \A l \in P : TornTailOnly(l)
      BY <2>1, <2>2
    <3> HIDE DEF P, st
    <3> QED
      BY <1>0, <3>1, <3>2, <3>3, <3>4, NewLog
  <2>6. Memory' = Memory
    BY <1>0 DEF Memory
  <2>7. \A l \in dlogs' : OneBeyond(l, Memory)'
    BY <1>0, <2>1, <2>2, <2>6 DEF StoreInv, HandleSound, OneBeyond
  <2>8. Found(<<log, snap>>)' = Memory /\ logLen = Len(Whole(<<>>))
    <3>1. Found(<<log, snap>>) = Memory /\ logLen = Len(Whole(log))
      BY <1>0 DEF StoreInv, HandleSound, AtRest, Booting
    <3>2. snap \in dsnaps /\ Whole(log) = <<>>
      BY <1>0, WholeNone DEF StoreInv, FilesSound
    <3> QED
      BY <1>0, <2>1, <2>2, <2>3, <3>1, <3>2
  <2>9. AtRest'
    BY <1>0, <2>1, <2>2, <2>6, <2>8 DEF AtRest, Idle, Booting, Compacting
  <2>10. InAppend' /\ InCompaction'
    BY <2>1 DEF InAppend, Appending, InCompaction
  <2>11. HandleSound'
    BY <1>0, <2>1, <2>7, <2>9, <2>10 DEF StoreInv, HandleSound, Booting
  <2> QED
    BY <2>4, <2>5, <2>11 DEF StoreInv
<1>2. CASE Fault /\ OpenFails /\ UNCHANGED <<log, dlogs>>
  BY <1>0, <1>2, OpenFailsStep DEF Booting, HandleStays, FilesStay
<1> QED
  BY <1>1, <1>2 DEF Create

LEMMA SyncLogEntryStep ==
    ASSUME StoreInv, SyncLogEntry
    PROVE  StoreInv'
<1>0. pc = "logdir" /\ log # NoFile
      /\ UNCHANGED <<snap, temp, dtemps, cur, index, txn, format, logLen, unavailable,
                     committed, refused, asked>>
  BY DEF SyncLogEntry, histVars, StoreInv, HandleSound, AtRest, Booting
<1>1. CASE dlogs' = dlogs \ {NoFile} /\ dsnaps' = {snap} /\ UNCHANGED log /\ Goto("openlog") /\ NoFault /\ UNCHANGED opening
  <2>1. /\ log \in dlogs' /\ dlogs' \subseteq dlogs /\ snap \in dsnaps' /\ dsnaps' \subseteq dsnaps
        /\ pc' = "openlog" /\ opening' = opening /\ UNCHANGED <<faults, crashes>>
    BY <1>0, <1>1 DEF StoreInv, FilesSound, Goto, NoFault, countVars
  <2>2. TypeOK'
    BY <1>0, <1>1, <2>1 DEF StoreInv, TypeOK
  <2>3. FilesSound'
    BY <1>0, <1>1, <2>1, FewerImages
  <2>4. Memory' = Memory
    BY <1>0 DEF Memory
  <2>5. \A l \in dlogs' : OneBeyond(l, Memory)'
    BY <1>0, <2>1, <2>4 DEF StoreInv, HandleSound, OneBeyond
  <2>6. AtRest'
    BY <1>0, <1>1, <2>1, <2>4 DEF StoreInv, HandleSound, AtRest, Idle, Booting, Compacting
  <2>7. InAppend' /\ InCompaction'
    BY <2>1 DEF InAppend, Appending, InCompaction
  <2>8. HandleSound'
    BY <1>0, <2>1, <2>5, <2>6, <2>7 DEF StoreInv, HandleSound, Booting
  <2> QED
    BY <2>2, <2>3, <2>8 DEF StoreInv
<1>2. CASE Fault /\ OpenFails /\ UNCHANGED <<log, dlogs, dsnaps>>
  BY <1>0, <1>2, OpenFailsStep DEF Booting, HandleStays, FilesStay
<1> QED
  BY <1>1, <1>2 DEF SyncLogEntry

LEMMA MendStep ==
    ASSUME StoreInv, Mend
    PROVE  StoreInv'
<1>0. pc = "mend" /\ log # NoFile /\ Found(<<log, snap>>) = Memory /\ logLen = Len(Whole(log))
      /\ UNCHANGED <<snap, dsnaps, temp, dtemps, cur, index, txn, format, logLen, unavailable,
                     committed, refused, asked>>
  BY DEF Mend, histVars, StoreInv, HandleSound, AtRest, Booting
<1>1. CASE WriteLog(SubSeq(log, 1, logLen)) /\ Goto("mendsync") /\ NoFault /\ UNCHANGED opening
  <2> DEFINE m == Whole(log)
  <2>1. log \in Logs /\ TornTailOnly(log) /\ m \in Seq(Record) /\ SubSeq(log, 1, logLen) = m
    BY <1>0, FilesRecover, WholeIsPrefix
  <2>2. m \in Logs /\ m # NoFile /\ TornTailOnly(m) /\ Whole(m) = m
    BY <2>1, WholeRecords
  <2> HIDE DEF m
  <2>3. log' = m /\ dlogs' = dlogs \union {m} /\ pc' = "mendsync" /\ opening' = opening
        /\ UNCHANGED <<faults, crashes>>
    BY <1>1, <2>1 DEF WriteLog, Goto, NoFault, countVars
  <2>4. \A s \in dsnaps : Found(<<m, s>>) = Found(<<log, s>>)
    <3> SUFFICES ASSUME NEW s \in dsnaps PROVE Recover(m, s) = Recover(log, s)
      BY DEF Found
    <3>1. s \in Snapshots
      BY DEF StoreInv, TypeOK
    <3>2. Recover(m, s) = Replay(Loaded(s), m) /\ Recover(log, s) = Replay(Loaded(s), m)
      BY <2>1, <2>2, <3>1, RecoverIsReplay DEF m
    <3> QED
      BY <3>2
  <2>5. TypeOK'
    BY <1>0, <2>2, <2>3 DEF StoreInv, TypeOK
  <2>6. OneBeyond(m, Memory)
    BY <1>0, <2>2 DEF StoreInv, FilesSound, OneBeyond, m
  <2>7. FilesSound'
    <3> DEFINE P == {m}
    <3>1. \A l \in P, s \in dsnaps : Sound(Found(<<l, s>>))
      BY <2>4 DEF StoreInv, FilesSound
    <3>2. \A l \in dlogs \union P : OneBeyond(l, Memory)
      BY <1>0, <2>6 DEF StoreInv, FilesSound
    <3>3. \A s \in dsnaps : Found(<<log', s>>) = Memory
      BY <1>0, <2>3, <2>4 DEF StoreInv, FilesSound
    <3>4. log' \in dlogs' /\ dlogs' \subseteq dlogs \union P /\ \A l \in P : TornTailOnly(l)
      BY <2>2, <2>3
    <3> HIDE DEF P
    <3> QED
      BY <1>0, <3>1, <3>2, <3>3, <3>4, NewLog
  <2>8. Memory' = Memory
    BY <1>0 DEF Memory
  <2>9. \A l \in dlogs' : OneBeyond(l, Memory)'
    BY <1>0, <2>3, <2>6, <2>8 DEF StoreInv, HandleSound, OneBeyond
  <2>10. AtRest'
    <3>1. Found(<<log, snap>>)' = Memory /\ logLen' = Len(Whole(log))' /\ logLen' = Len(log)'
      <4>1. snap \in dsnaps
        BY DEF StoreInv, FilesSound
      <4> QED
        BY <1>0, <2>2, <2>3, <2>4, <4>1 DEF m
    <3> QED
      BY <2>2, <2>3, <2>8, <3>1 DEF AtRest, Idle, Booting, Compacting
  <2>11. InAppend' /\ InCompaction'
    BY <2>3 DEF InAppend, Appending, InCompaction
  <2>12. HandleSound'
    BY <1>0, <2>3, <2>9, <2>10, <2>11 DEF StoreInv, HandleSound, Booting
  <2> QED
    BY <2>5, <2>7, <2>12 DEF StoreInv
<1>2. CASE Fault /\ OpenFails /\ UNCHANGED <<log, dlogs>>
  BY <1>0, <1>2, OpenFailsStep DEF Booting, HandleStays, FilesStay
<1> QED
  BY <1>1, <1>2 DEF Mend

LEMMA MendSyncStep ==
    ASSUME StoreInv, MendSync
    PROVE  StoreInv'
<1>0. pc = "mendsync" /\ logLen = Len(log)
      /\ UNCHANGED <<snap, dsnaps, temp, dtemps, cur, index, txn, format, logLen, unavailable,
                     committed, refused, asked>>
  BY DEF MendSync, histVars, StoreInv, HandleSound, AtRest, Booting
<1>1. CASE SyncLog /\ Opened /\ NoFault
  <2>1. log' = log /\ log \in dlogs' /\ dlogs' \subseteq dlogs /\ dlogs' \in SUBSET Logs /\ dlogs' # {}
    BY <1>1, SyncedLog
  <2>2. pc' \in {"snapwrite", "idle"} /\ opening' \in BOOLEAN /\ UNCHANGED <<faults, crashes>>
    BY <1>1 DEF Opened, Goto, StoreInv, TypeOK, NoFault, countVars
  <2>3. TypeOK'
    BY <1>0, <2>1, <2>2 DEF StoreInv, TypeOK
  <2>4. FilesSound'
    <3>1. snap \in dsnaps
      BY DEF StoreInv, FilesSound
    <3> QED
      BY <1>0, <2>1, <3>1, FewerImages
  <2> QED
    BY <1>0, <1>1, <2>1, <2>3, <2>4, OpenedStep DEF histVars
<1>2. CASE Fault /\ OpenFails /\ UNCHANGED <<log, dlogs>>
  BY <1>0, <1>2, OpenFailsStep DEF Booting, HandleStays, FilesStay
<1> QED
  BY <1>1, <1>2 DEF MendSync

-----------------------------------------------------------------------------
(* The steps of a mutation *)

\* Replay keeps the mutations it starts with.
LEMMA ReplayKeeps ==
    ASSUME NEW st \in States, NEW w \in Seq(Record)
    PROVE  ToSet(st.index) \subseteq ToSet(Replay(st, w).index)
<1> DEFINE Keeps(v) == ToSet(st.index) \subseteq ToSet(Replay(st, v).index)
<1> DEFINE Good == {n \in Nat : \A v \in Seq(Record) : Len(v) = n => Keeps(v)}
<1>1. 0 \in Good
  <2> SUFFICES ASSUME NEW v \in Seq(Record), Len(v) = 0 PROVE Keeps(v)
    OBVIOUS
  <2>1. v = <<>>
    OBVIOUS
  <2> QED
    BY <2>1, ReplayNothing
<1>2. \A n \in Nat : n \in Good => n + 1 \in Good
  <2> SUFFICES ASSUME NEW n \in Nat, n \in Good, NEW v \in Seq(Record), Len(v) = n + 1
               PROVE  Keeps(v)
    OBVIOUS
  <2> DEFINE u == SubSeq(v, 1, n)
             r == v[n + 1]
  <2>1. u \in Seq(Record) /\ Len(u) = n /\ v = Append(u, r) /\ r \in Record
    BY FrontAndLast
  <2> HIDE DEF u, r
  <2>2. Keeps(u)
    BY <2>1
  <2>3. Replay(st, v) = Replayed(Replay(st, u), r) /\ Replay(st, u) \in States
    BY <2>1, ReplayAppend, ReplayType
  <2>4. r.op \in Ops /\ Replay(st, u).index \in Seq(Ops)
    BY <2>1, <2>3 DEF Record, States
  <2>5. ToSet(Append(Replay(st, u).index, r.op)) = ToSet(Replay(st, u).index) \union {r.op}
    BY <2>4, PrefixAppend
  <2> QED
    BY <2>2, <2>3, <2>5 DEF Replayed
<1> HIDE DEF Good, Keeps
<1>3. Len(w) \in Good
  BY <1>1, <1>2, Induction
<1>4. Keeps(w)
  BY <1>3 DEF Good
<1> QED
  BY <1>4 DEF Keeps

\* The memory as a state.
LEMMA MemoryType ==
    ASSUME StoreInv
    PROVE  Memory \in States /\ Memory.txn = txn /\ Memory.format = format /\ Memory.index = index
  BY DEF StoreInv, TypeOK, Memory, States

\* The record a mutation writes, and the state it leads to.
LEMMA NextRecordIs ==
    ASSUME StoreInv, cur \in Ops
    PROVE  /\ NextRecord \in Record /\ NextRecord.txn = txn + 1 /\ NextRecord.op = cur
           /\ NextRecord.format >= format
           /\ NextRecord.format = Fmax(format, Need[cur])
           /\ Replayed(Memory, NextRecord) =
                [ok |-> TRUE, txn |-> txn + 1, format |-> Fmax(format, Need[cur]),
                 index |-> Append(index, cur)]
<1>1. Need[cur] \in 1 .. 3 /\ format \in 1 .. 3 /\ txn \in Nat
  BY FileAssumption DEF StoreInv, TypeOK
<1>2. Fmax(format, Need[cur]) \in 1 .. 3 /\ Fmax(format, Need[cur]) >= format
  BY <1>1 DEF Fmax
<1>3. /\ NextRecord \in Record /\ NextRecord.txn = txn + 1 /\ NextRecord.op = cur
      /\ NextRecord.format = Fmax(format, Need[cur])
  BY <1>1, <1>2 DEF NextRecord, Record
<1>4. ~ (NextRecord.txn <= Memory.txn) /\ NextRecord.txn = Memory.txn + 1
      /\ NextRecord.format >= Memory.format /\ Memory.ok
  BY <1>1, <1>2, <1>3 DEF Memory
<1>5. Replayed(Memory, NextRecord) =
        [ok |-> TRUE, txn |-> NextRecord.txn, format |-> NextRecord.format,
         index |-> Append(Memory.index, NextRecord.op)]
  BY <1>4 DEF Replayed
<1> QED
  BY <1>2, <1>3, <1>5 DEF Memory

\* The log while an append is under way or in doubt.
LEMMA SettledIs ==
    ASSUME StoreInv, pc \in Appending \/ (pc = "idle" /\ unavailable)
    PROVE  /\ log # NoFile /\ logLen \in Nat /\ Settled \in dlogs
           /\ Settled \in Seq(Record) /\ Settled \in Logs /\ Settled # NoFile
           /\ Len(Settled) = logLen /\ Whole(Settled) = Settled /\ TornTailOnly(Settled)
           /\ \A s \in dsnaps : Found(<<Settled, s>>) = Memory
           /\ Sound(Memory) /\ OneBeyond(Settled, Memory)
<1>1. /\ log # NoFile /\ logLen \in Nat /\ logLen <= Len(log) /\ Settled \in dlogs
      /\ Settled \in Seq(Record) /\ \A s \in dsnaps : Found(<<Settled, s>>) = Memory
      /\ pc # "closed" /\ log \in Seq(Record \union {Torn})
  BY DEF StoreInv, TypeOK, HandleSound, InAppend, Appending, Logs
<1>2. Len(Settled) = logLen
  BY <1>1 DEF Settled
<1>3. Sound(Memory) /\ OneBeyond(Settled, Memory)
  BY <1>1 DEF StoreInv, FilesSound, HandleSound
<1> QED
  BY <1>1, <1>2, <1>3, WholeRecords

LEMMA BeginStep ==
    ASSUME StoreInv, NEW o \in Ops, Begin(o)
    PROVE  StoreInv'
<1>0. /\ pc = "idle" /\ ~ unavailable /\ o \notin asked /\ asked' = asked \union {o}
      /\ UNCHANGED <<log, dlogs, snap, dsnaps, temp, dtemps, opening, index, txn, format, logLen,
                     unavailable, committed, faults, crashes>>
  BY DEF Begin, Idle, fileVars, countVars
<1>1. refused \subseteq asked /\ refused' \in {refused, refused \union {o}}
      /\ asked \ refused \subseteq asked' \ refused'
  BY <1>0 DEF Begin, StoreInv, HandleSound
<1>2. FilesSound'
  BY <1>0, <1>1 DEF StoreInv, FilesSound, OneBeyond, Sound
<1>3. Memory' = Memory
  BY <1>0 DEF Memory
<1>4. \A l \in dlogs' : OneBeyond(l, Memory)'
  BY <1>0, <1>1, <1>3 DEF StoreInv, HandleSound, OneBeyond
<1>5. /\ Found(<<log, snap>>) = Memory /\ logLen = Len(Whole(log)) /\ log # NoFile
      /\ logLen = Len(log) /\ ~ opening
  BY <1>0 DEF StoreInv, HandleSound, AtRest, Idle, Booting, Compacting
<1>6. CASE cur' = o /\ Goto("append") /\ UNCHANGED refused
  <2>1. pc' = "append" /\ cur' = o /\ refused' = refused
    BY <1>6 DEF Goto
  <2>2. TypeOK'
    BY <1>0, <2>1 DEF StoreInv, TypeOK
  <2>3. log \in Seq(Record) /\ log \in dlogs /\ Settled = log
    <3>1. log \in Seq(Record) /\ log \in dlogs
      BY <1>5, FilesRecover, LogIsWhole
    <3> QED
      BY <1>5, <3>1 DEF Settled
  <2>4. \A s \in dsnaps : Found(<<log, s>>) = Memory
    BY <1>5 DEF StoreInv, FilesSound
  <2>5. o \notin ToSet(index)
    <3>1. Sound(Found(<<log, snap>>))
      BY FilesRecover DEF StoreInv, FilesSound
    <3> QED
      BY <1>0, <1>5, <3>1 DEF Sound, Memory
  <2>6. InAppend'
    <3>1. Settled' = log /\ Len(log) \in Nat
      BY <1>0, <2>3 DEF Settled
    <3> QED
      BY <1>0, <1>1, <1>3, <1>5, <2>1, <2>3, <2>4, <2>5, <3>1 DEF InAppend, Appending
  <2>7. AtRest' /\ InCompaction'
    BY <2>1 DEF AtRest, Idle, Booting, Compacting, InCompaction
  <2>8. HandleSound'
    BY <1>0, <1>1, <1>4, <1>5, <2>1, <2>6, <2>7 DEF StoreInv, HandleSound
  <2> QED
    BY <1>2, <2>2, <2>8 DEF StoreInv
<1>7. CASE refused' = refused \union {o} /\ UNCHANGED <<cur, pc>>
  <2>1. TypeOK'
    BY <1>0, <1>7 DEF StoreInv, TypeOK
  <2>2. AtRest'
    BY <1>0, <1>3, <1>5, <1>7 DEF StoreInv, HandleSound, AtRest, Idle, Booting, Compacting
  <2>3. InAppend' /\ InCompaction'
    BY <1>0, <1>7 DEF InAppend, InCompaction, Appending
  <2>4. HandleSound'
    BY <1>0, <1>1, <1>4, <1>5, <1>7, <2>2, <2>3 DEF StoreInv, HandleSound
  <2> QED
    BY <1>2, <2>1, <2>4 DEF StoreInv
<1> QED
  BY <1>0, <1>6, <1>7 DEF Begin

\* The log may now end in the record, in a part of it, or as it was.
LEMMA AppendedLog ==
    ASSUME StoreInv, pc \in Appending, NEW P, P = {Append(Settled, Torn), Append(Settled, NextRecord)},
           log' \in P \union {Settled}, log' \in dlogs', dlogs' \subseteq dlogs \union P,
           dlogs \subseteq dlogs',
           UNCHANGED <<snap, dsnaps, committed, refused, asked, index, txn, format, logLen, cur>>
    PROVE  /\ FilesSound' /\ (\A l \in dlogs' : OneBeyond(l, Memory)')
           /\ Settled' = Settled /\ Memory' = Memory /\ log' # NoFile /\ logLen' <= Len(log')
           /\ dlogs' \in SUBSET Logs /\ log' \in Logs
<1>0. cur \in asked \ refused /\ cur \in Ops /\ cur \notin ToSet(index)
  BY DEF StoreInv, HandleSound, InAppend, TypeOK
<1> DEFINE w == Settled
           r == NextRecord
           st == Replayed(Memory, r)
<1>1. /\ logLen \in Nat /\ w \in dlogs
      /\ w \in Seq(Record) /\ w \in Logs /\ w # NoFile
      /\ Len(w) = logLen /\ Whole(w) = w /\ TornTailOnly(w)
      /\ \A s \in dsnaps : Found(<<w, s>>) = Memory
      /\ Sound(Memory) /\ OneBeyond(w, Memory)
  BY SettledIs
<1>2. /\ r \in Record /\ r.txn = txn + 1 /\ r.op = cur /\ r.format >= format
      /\ st = [ok |-> TRUE, txn |-> txn + 1, format |-> Fmax(format, Need[cur]),
               index |-> Append(index, cur)]
  BY <1>0, NextRecordIs
<1>3. Memory \in States /\ Memory.txn = txn /\ Memory.format = format /\ Memory.index = index
      /\ txn \in Nat /\ committed \in Seq(Ops) /\ index \in Seq(Ops)
  BY MemoryType DEF StoreInv, TypeOK
<1> DEFINE part == Append(w, Torn)
           whole == Append(w, r)
<1>4. /\ part \in Logs /\ part # NoFile /\ Whole(part) = w /\ TornTailOnly(part)
      /\ Len(part) = logLen + 1 /\ SubSeq(part, 1, logLen) = w
  BY <1>1, WholeTorn
<1>5. /\ whole \in Seq(Record) /\ Len(whole) = logLen + 1 /\ SubSeq(whole, 1, logLen) = w
      /\ whole[logLen + 1] = r /\ \A i \in 1 .. logLen : whole[i] = w[i]
  BY <1>1, <1>2
<1>6. whole \in Logs /\ whole # NoFile /\ Whole(whole) = whole /\ TornTailOnly(whole)
  BY <1>5, WholeRecords
<1>7. \A s \in dsnaps : Found(<<part, s>>) = Memory /\ Found(<<whole, s>>) = st
  <2> SUFFICES ASSUME NEW s \in dsnaps PROVE Recover(part, s) = Memory /\ Recover(whole, s) = st
    BY DEF Found
  <2>1. s \in Snapshots /\ Recover(w, s) = Memory
    BY <1>1 DEF StoreInv, TypeOK, Found
  <2> QED
    BY <1>1, <1>2, <2>1, RecoverAppend
<1>8. Sound(st)
  <2>1. /\ IsPrefix(committed, index) => IsPrefix(committed, Append(index, cur))
        /\ ToSet(Append(index, cur)) = ToSet(index) \union {cur}
    BY <1>0, <1>3, PrefixAppend
  <2> QED
    BY <1>0, <1>1, <1>2, <1>3, <2>1 DEF Sound
<1> HIDE DEF w, r, part, whole, st
<1>9. \A l \in dlogs : OneBeyond(l, Memory)
  BY DEF StoreInv, HandleSound, Appending
<1>10. OneBeyond(part, Memory)
  BY <1>1, <1>4 DEF OneBeyond
<1>11. OneBeyond(whole, Memory)
  <2> SUFFICES ASSUME NEW i \in 1 .. logLen + 1, whole[i].txn > Memory.txn
               PROVE  /\ i = Len(whole) /\ whole[i].txn = Memory.txn + 1
                      /\ whole[i].format >= Memory.format /\ whole[i].op \in asked \ refused
    BY <1>5, <1>6 DEF OneBeyond
  <2>1. CASE i = logLen + 1
    BY <1>0, <1>2, <1>3, <1>5, <2>1
  <2>2. CASE i \in 1 .. logLen
    <3>1. snap \in dsnaps /\ snap \in Snapshots
      BY DEF StoreInv, FilesSound, TypeOK
    <3>2. Recover(w, snap) = Memory
      BY <1>1, <3>1 DEF Found
    <3>3. w[i].txn <= Memory.txn
      BY <1>1, <2>2, <3>1, <3>2, RecoverReaches
    <3>4. w[i] \in Record
      BY <1>1, <2>2
    <3> QED
      BY <1>3, <1>5, <2>2, <3>3, <3>4 DEF Record
  <2>3. i = logLen + 1 \/ i \in 1 .. logLen
    BY <1>1
  <2> QED
    BY <2>1, <2>2, <2>3
<1>12. ASSUME NEW l \in Logs, Whole(l) \in Seq(Record), OneBeyond(l, Memory) PROVE OneBeyond(l, st)
  <2>1. \A i \in DOMAIN Whole(l) : Whole(l)[i] \in Record
    BY <1>12
  <2>2. ASSUME NEW i \in DOMAIN Whole(l) PROVE ~ (Whole(l)[i].txn > st.txn)
    <3>1. Whole(l)[i].txn \in Nat
      BY <2>1 DEF Record
    <3>2. Whole(l)[i].txn > txn => Whole(l)[i].txn = txn + 1
      BY <1>3, <1>12 DEF OneBeyond
    <3>3. st.txn = txn + 1
      BY <1>2
    <3> QED
      BY <1>3, <3>1, <3>2, <3>3
  <2> QED
    BY <2>2 DEF OneBeyond
<1>13. P = {part, whole} /\ log' \in {part, whole, w}
  BY DEF part, whole, w, r
<1>14. \A l \in dlogs \union P : l \in Logs /\ Whole(l) \in Seq(Record) /\ OneBeyond(l, Memory)
  <2>1. \A l \in dlogs : l \in Logs /\ Whole(l) \in Seq(Record)
    BY FilesRecover, ImagesRecover
  <2> QED
    BY <1>1, <1>4, <1>5, <1>6, <1>9, <1>10, <1>11, <1>13, <2>1
<1>15. FilesSound'
  <2>1. \A l \in P : TornTailOnly(l)
    BY <1>4, <1>6, <1>13
  <2>2. \A l \in P, s \in dsnaps : Sound(Found(<<l, s>>))
    BY <1>1, <1>7, <1>8, <1>13
  <2>3. CASE log' = whole
    <3>1. \A l \in dlogs \union P : OneBeyond(l, st)
      BY <1>12, <1>14
    <3>2. \A s \in dsnaps : Found(<<log', s>>) = st
      BY <1>7, <2>3
    <3> QED
      BY <2>1, <2>2, <3>1, <3>2, NewLog
  <2>4. CASE log' \in {part, w}
    <3>1. \A s \in dsnaps : Found(<<log', s>>) = Memory
      BY <1>1, <1>7, <2>4
    <3>2. \A l \in dlogs \union P : OneBeyond(l, Memory)
      BY <1>14
    <3> QED
      BY <2>1, <2>2, <3>1, <3>2, NewLog
  <2> QED
    BY <1>13, <2>3, <2>4
<1>16. Memory' = Memory
  BY DEF Memory
<1>17. \A l \in dlogs' : OneBeyond(l, Memory)'
  BY <1>14, <1>16 DEF OneBeyond
<1>18. Settled' = Settled /\ log' # NoFile /\ logLen' <= Len(log')
  <2>1. Settled' = SubSeq(log', 1, logLen) /\ logLen' = logLen
    BY DEF Settled
  <2>2. SubSeq(w, 1, logLen) = w
    BY <1>1
  <2>3. SubSeq(log', 1, logLen) = w
    BY <1>4, <1>5, <1>13, <2>2
  <2> QED
    BY <1>1, <1>4, <1>5, <1>6, <1>13, <2>1, <2>3 DEF w
<1> QED
  BY <1>1, <1>4, <1>6, <1>13, <1>14, <1>15, <1>16, <1>17, <1>18


\* A mutation that is under way is decided, asked for and not refused.
LEMMA Deciding ==
    ASSUME StoreInv, pc \in Appending
    PROVE  /\ cur \in (asked \ refused) \ ToSet(index) /\ cur \in Ops
           /\ opening = FALSE /\ unavailable = FALSE
  BY DEF StoreInv, HandleSound, InAppend, TypeOK, Appending, Booting, Compacting

LEMMA WriteRecordStep ==
    ASSUME StoreInv, WriteRecord
    PROVE  StoreInv'
<1>0. /\ pc = "append" /\ pc \in Appending /\ log = Settled
      /\ UNCHANGED <<snap, dsnaps, temp, dtemps, opening, cur, index, txn, format, logLen,
                     unavailable, committed, refused, asked>>
  BY DEF WriteRecord, memVars, histVars, StoreInv, HandleSound, InAppend, Appending
<1>1. /\ cur \in (asked \ refused) \ ToSet(index) /\ cur \in Ops
      /\ opening = FALSE /\ unavailable = FALSE
  BY <1>0, Deciding
<1>2. /\ logLen \in Nat /\ Settled \in dlogs /\ Settled \in Seq(Record) /\ Len(Settled) = logLen
      /\ \A s \in dsnaps : Found(<<Settled, s>>) = Memory
  BY <1>0, SettledIs
<1>3. NextRecord \in Record
  BY <1>1, NextRecordIs
<1> DEFINE part == Append(Settled, Torn)
           whole == Append(Settled, NextRecord)
           P == {part, whole}
<1>4. PartOf(log, logLen) = part
  BY <1>0 DEF PartOf, Settled
<1>5. Append(SubSeq(log, 1, logLen), NextRecord) \o SubSeq(log, logLen + 2, Len(log)) = whole
  <2>1. SubSeq(log, 1, logLen) = Settled
    BY DEF Settled
  <2>2. SubSeq(log, logLen + 2, Len(log)) = <<>>
    BY <1>0, <1>2
  <2>3. \A u \in Seq(Record) : u \o <<>> = u
    OBVIOUS
  <2>4. whole \in Seq(Record)
    BY <1>2, <1>3
  <2>5. whole \o <<>> = whole
    BY <2>3, <2>4
  <2> QED
    BY <2>1, <2>2, <2>5
<1> HIDE DEF part, whole
<1>6. ASSUME log' \in P \union {Settled}, log' \in dlogs', dlogs' \subseteq dlogs \union P,
             dlogs \subseteq dlogs', UNCHANGED crashes, faults' \in 0 .. MaxFaults,
             \/ pc' = "sync" /\ log' = whole
             \/ pc' = "undo"
      PROVE  StoreInv'
  <2>1. P = {Append(Settled, Torn), Append(Settled, NextRecord)}
    BY DEF part, whole
  <2> HIDE DEF P
  <2>2. /\ FilesSound' /\ (\A l \in dlogs' : OneBeyond(l, Memory)')
        /\ Settled' = Settled /\ Memory' = Memory /\ log' # NoFile /\ logLen' <= Len(log')
        /\ dlogs' \in SUBSET Logs /\ log' \in Logs
    BY <1>0, <1>6, <2>1, AppendedLog
  <2>3. TypeOK'
    BY <1>0, <1>6, <2>2 DEF StoreInv, TypeOK
  <2>4. NextRecord' = NextRecord
    BY <1>0 DEF NextRecord
  <2>5. InAppend'
    <3>1. Settled' \in dlogs' \intersect Seq(Record) /\ \A s \in dsnaps' : Found(<<Settled, s>>)' = Memory'
      BY <1>0, <1>2, <1>6, <2>2 DEF Found
    <3>2. cur' \in (asked' \ refused') \ ToSet(index')
      BY <1>0, <1>1
    <3>3. pc' = "sync" => log' = Append(Settled', NextRecord')
      BY <1>6, <2>2, <2>4 DEF whole
    <3>4. pc' = "undo" => log' \in {Settled', Append(Settled', Torn), Append(Settled', NextRecord')}
      BY <1>6, <2>1, <2>2, <2>4
    <3> QED
      BY <1>6, <2>2, <3>1, <3>2, <3>3, <3>4 DEF InAppend
  <2>6. AtRest' /\ InCompaction'
    BY <1>6 DEF AtRest, Idle, Booting, Compacting, InCompaction
  <2>7. HandleSound'
    BY <1>0, <1>1, <1>6, <2>2, <2>5, <2>6 DEF StoreInv, HandleSound
  <2> QED
    BY <2>2, <2>3, <2>7 DEF StoreInv
<1>7. CASE log' = whole /\ dlogs' = dlogs \union {part, whole} /\ Goto("sync") /\ NoFault
  BY <1>6, <1>7 DEF Goto, NoFault, countVars, StoreInv, TypeOK
<1>8. CASE /\ Fault /\ Goto("undo")
           /\ \/ log' = part /\ dlogs' = dlogs \union {part}
              \/ UNCHANGED <<log, dlogs>>
  <2>1. faults' \in 0 .. MaxFaults /\ UNCHANGED crashes /\ pc' = "undo"
    BY <1>8, FileAssumption DEF Fault, Goto, StoreInv, TypeOK
  <2> QED
    BY <1>0, <1>2, <1>6, <1>8, <2>1
<1> QED
  BY <1>4, <1>5, <1>7, <1>8 DEF WriteRecord

\* A write or an fsync failed; the append is now removed.
LEMMA ToUndo ==
    ASSUME StoreInv, pc = "sync", Fault, Goto("undo"),
           UNCHANGED <<fileVars, memVars, histVars>>
    PROVE  StoreInv'
<1>1. pc' = "undo" /\ faults' \in 0 .. MaxFaults /\ crashes' = crashes
  BY FileAssumption DEF Fault, Goto, StoreInv, TypeOK
<1>2. TypeOK'
  BY <1>1 DEF StoreInv, TypeOK, fileVars, memVars, histVars
<1>3. FilesSound'
  BY FilesSoundStays DEF StoreInv, FilesStay, fileVars, histVars
<1>4. Memory' = Memory /\ Settled' = Settled /\ NextRecord' = NextRecord
  BY DEF Memory, Settled, NextRecord, fileVars, memVars
<1>5. \A l \in dlogs' : OneBeyond(l, Memory)'
  BY <1>4 DEF StoreInv, HandleSound, OneBeyond, fileVars, histVars
<1>6. InAppend'
  BY <1>1, <1>4 DEF StoreInv, HandleSound, InAppend, Appending, Found, fileVars, memVars, histVars
<1>7. AtRest' /\ InCompaction'
  BY <1>1 DEF AtRest, Idle, Booting, Compacting, InCompaction
<1>8. HandleSound'
  BY <1>1, <1>5, <1>6, <1>7
  DEF StoreInv, HandleSound, Booting, Compacting, memVars, histVars
<1> QED
  BY <1>2, <1>3, <1>8 DEF StoreInv

LEMMA SyncRecordStep ==
    ASSUME StoreInv, SyncRecord
    PROVE  StoreInv'
<1>0. pc = "sync" /\ pc \in Appending
      /\ UNCHANGED <<snap, dsnaps, temp, dtemps, opening, unavailable, refused, asked>>
  BY DEF SyncRecord, Appending
<1>1. CASE SyncLog /\ Commit /\ NoFault
  <2>1. /\ log' = log /\ log \in dlogs' /\ dlogs' \subseteq dlogs
        /\ dlogs' \in SUBSET Logs /\ dlogs' # {}
        /\ \A l \in dlogs' : l = log \/ (l = NoFile /\ ~ EntryWithFile)
    BY <1>1, SyncedLog
  <2>2. /\ logLen' = logLen + 1 /\ txn' = txn + 1 /\ format' = Fmax(format, Need[cur])
        /\ index' = Append(index, cur) /\ committed' = index' /\ cur' = NoOp /\ pc' = "idle"
        /\ UNCHANGED <<faults, crashes>>
    BY <1>1 DEF Commit, Goto, NoFault, countVars
  <2>3. /\ cur \in (asked \ refused) \ ToSet(index) /\ cur \in Ops
        /\ opening = FALSE /\ unavailable = FALSE
    BY <1>0, Deciding
  <2>4. /\ logLen \in Nat /\ Settled \in dlogs /\ Settled \in Seq(Record) /\ Len(Settled) = logLen
        /\ \A s \in dsnaps : Found(<<Settled, s>>) = Memory
        /\ Sound(Memory)
    BY <1>0, SettledIs
  <2>5. /\ NextRecord \in Record
        /\ Replayed(Memory, NextRecord) =
                [ok |-> TRUE, txn |-> txn + 1, format |-> Fmax(format, Need[cur]),
                 index |-> Append(index, cur)]
        /\ NextRecord.format = Fmax(format, Need[cur])
    BY <2>3, NextRecordIs
  <2>6. log = Append(Settled, NextRecord)
    BY <1>0 DEF StoreInv, HandleSound, InAppend, Appending
  <2>7. log \in Seq(Record) /\ Len(log) = logLen + 1 /\ Whole(log) = log /\ log # NoFile
    <3>1. log \in Seq(Record) /\ Len(log) = logLen + 1
      BY <2>4, <2>5, <2>6
    <3> QED
      BY <3>1, WholeRecords
  <2>8. Memory' = Replayed(Memory, NextRecord)
    BY <2>2, <2>5 DEF Memory
  <2>9. \A s \in dsnaps : Found(<<log, s>>) = Memory'
    <3> SUFFICES ASSUME NEW s \in dsnaps PROVE Recover(log, s) = Memory'
      BY DEF Found
    <3>1. s \in Snapshots /\ Recover(Settled, s) = Memory
      BY <2>4 DEF StoreInv, TypeOK, Found
    <3>2. Recover(Append(Settled, NextRecord), s) = Replayed(Recover(Settled, s), NextRecord)
      BY <2>4, <2>5, <3>1, RecoverAppend
    <3> QED
      BY <2>6, <2>8, <3>1, <3>2
  <2>10. /\ txn \in Nat /\ txn' \in Nat /\ format' \in 1..3 /\ index \in Seq(Ops)
         /\ index' \in Seq(Ops) /\ logLen' \in Nat
    <3>1. txn \in Nat /\ index \in Seq(Ops)
      BY DEF StoreInv, TypeOK
    <3>2. NextRecord.format \in 1 .. 3
      BY <2>5 DEF Record
    <3> QED
      BY <2>2, <2>3, <2>4, <2>5, <3>1, <3>2
  <2>11. TypeOK'
    BY <1>0, <2>1, <2>2, <2>10 DEF StoreInv, TypeOK
  <2>12. \A l \in dlogs' : OneBeyond(l, Memory)' /\ TornTailOnly(l)
    <3> SUFFICES ASSUME NEW l \in dlogs' PROVE OneBeyond(l, Memory)' /\ TornTailOnly(l)
      OBVIOUS
    <3>1. CASE l = log
      <4>1. snap \in dsnaps /\ snap \in Snapshots /\ log \in Logs /\ TornTailOnly(log)
        BY FilesRecover
      <4>2. Recover(log, snap) = Memory'
        BY <2>9, <4>1 DEF Found
      <4>3. \A i \in DOMAIN Whole(log) : Whole(log)[i].txn <= Memory'.txn
        BY <4>1, <4>2, RecoverReaches
      <4>4. \A i \in DOMAIN Whole(log) : Whole(log)[i] \in Record
        BY <2>7
      <4>5. \A i \in DOMAIN Whole(log) : Whole(log)[i].txn \in Nat
        BY <4>4 DEF Record
      <4>6. Memory'.txn \in Nat
        BY <2>10 DEF Memory
      <4>7. \A i \in DOMAIN Whole(log) : ~ (Whole(log)[i].txn > Memory'.txn)
        BY <4>3, <4>5, <4>6
      <4> QED
        BY <3>1, <4>1, <4>7 DEF OneBeyond
    <3>2. CASE l = NoFile
      BY <3>2, WholeNone DEF OneBeyond
    <3> QED
      BY <2>1, <3>1, <3>2
  <2>13. ToSet(index') = ToSet(index) \union {cur} /\ IsPrefix(index', index')
    BY <2>2, <2>3, <2>10, PrefixAppend
  <2>14. Sound(Memory)'
    <3>1. ToSet(index) \subseteq asked \ refused
      BY <2>4 DEF Sound, Memory
    <3> QED
      BY <1>0, <2>2, <2>3, <2>13, <3>1 DEF Sound, Memory
  <2>15. \A l \in dlogs', s \in dsnaps' : Sound(Found(<<l, s>>))'
    <3> SUFFICES ASSUME NEW l \in dlogs', NEW s \in dsnaps PROVE Sound(Found(<<l, s>>))'
      BY <1>0
    <3>1. CASE l = log
      BY <2>9, <2>14, <3>1 DEF Found
    <3>2. CASE l = NoFile /\ ~ EntryWithFile
      <4>1. l \in dlogs /\ s \in Snapshots
        BY <2>1 DEF StoreInv, TypeOK
      <4>2. Sound(Found(<<l, s>>))
        BY <4>1 DEF StoreInv, FilesSound
      <4> QED
        BY <1>0, <3>2, <4>2 DEF Sound, Found
    <3> QED
      BY <2>1, <3>1, <3>2
  <2>16. FilesSound'
    <3>1. snap \in dsnaps /\ Torn \notin dsnaps
      BY DEF StoreInv, FilesSound
    <3>2. Found(<<log, snap>>)' = Memory' /\ \A s \in dsnaps' : Found(<<log, s>>)' = Memory'
      BY <1>0, <2>1, <2>9, <3>1 DEF Found
    <3>3. \A l \in dlogs' : TornTailOnly(l)' /\ OneBeyond(l, Found(<<log, snap>>))'
      BY <2>12, <3>2 DEF OneBeyond
    <3> QED
      BY <1>0, <2>1, <2>15, <3>1, <3>2, <3>3 DEF FilesSound
  <2>17. AtRest'
    <3>1. snap \in dsnaps
      BY DEF StoreInv, FilesSound
    <3>2. Found(<<log, snap>>)' = Memory'
      BY <1>0, <2>1, <2>9, <3>1 DEF Found
    <3>3. logLen' = Len(Whole(log))' /\ logLen' = Len(log') /\ log' # NoFile
      BY <2>1, <2>2, <2>7
    <3> QED
      BY <2>2, <3>2, <3>3 DEF AtRest, Booting, Compacting
  <2>18. InAppend' /\ InCompaction'
    BY <1>0, <2>2, <2>3 DEF InAppend, Appending, InCompaction
  <2>19. HandleSound'
    BY <1>0, <2>2, <2>3, <2>12, <2>17, <2>18 DEF StoreInv, HandleSound
  <2> QED
    BY <2>11, <2>16, <2>19 DEF StoreInv
<1>2. CASE Fault /\ Goto("undo") /\ UNCHANGED <<log, dlogs, cur, index, txn, format, logLen, committed>>
  BY <1>0, <1>2, ToUndo DEF fileVars, memVars, histVars
<1> QED
  BY <1>1, <1>2 DEF SyncRecord


\* The append may be in the log: nothing is written from here on.
LEMMA InDoubtStep ==
    ASSUME StoreInv, pc \in {"undo", "undosync"}, Fault, InDoubt,
           UNCHANGED <<fileVars, opening, index, txn, format, logLen, histVars>>
    PROVE  StoreInv'
<1>1. /\ pc' = "idle" /\ unavailable' = TRUE /\ cur' = NoOp
      /\ faults' \in 0 .. MaxFaults /\ crashes' = crashes
  BY FileAssumption DEF Fault, InDoubt, Goto, StoreInv, TypeOK
<1>2. opening = FALSE /\ pc \in Appending
  BY Deciding DEF Appending
<1>3. TypeOK'
  BY <1>1 DEF StoreInv, TypeOK, fileVars, histVars
<1>4. FilesSound'
  BY FilesSoundStays DEF StoreInv, FilesStay, fileVars, histVars
<1>5. Memory' = Memory /\ Settled' = Settled
  BY DEF Memory, Settled, fileVars
<1>6. \A l \in dlogs' : OneBeyond(l, Memory)'
  BY <1>5 DEF StoreInv, HandleSound, OneBeyond, fileVars, histVars
<1>7. InAppend'
  BY <1>1, <1>2, <1>5 DEF StoreInv, HandleSound, InAppend, Appending, Found, fileVars
<1>8. AtRest' /\ InCompaction'
  BY <1>1 DEF AtRest, Idle, Booting, Compacting, InCompaction
<1>9. HandleSound'
  BY <1>1, <1>2, <1>6, <1>7, <1>8 DEF StoreInv, HandleSound, histVars
<1> QED
  BY <1>3, <1>4, <1>9 DEF StoreInv

LEMMA UndoStep ==
    ASSUME StoreInv, Undo
    PROVE  StoreInv'
<1>0. pc = "undo" /\ pc \in Appending
      /\ UNCHANGED <<snap, dsnaps, temp, dtemps, opening, index, txn, format, logLen,
                     committed, refused, asked>>
  BY DEF Undo, histVars, Appending
<1>1. CASE /\ WriteLog(SubSeq(log, 1, logLen)) /\ Goto("undosync") /\ NoFault
           /\ UNCHANGED <<cur, unavailable>>
  <2>1. /\ log' = Settled /\ dlogs' = dlogs \union {Settled} /\ pc' = "undosync"
        /\ UNCHANGED <<cur, unavailable, faults, crashes>>
    BY <1>1 DEF WriteLog, Settled, Goto, NoFault, countVars
  <2>2. /\ logLen \in Nat /\ Settled \in dlogs /\ Settled \in Logs /\ Settled \in Seq(Record)
        /\ Settled # NoFile /\ Len(Settled) = logLen
        /\ \A s \in dsnaps : Found(<<Settled, s>>) = Memory
    BY <1>0, SettledIs
  <2>3. dlogs' = dlogs
    BY <2>1, <2>2
  <2>4. /\ cur \in (asked \ refused) \ ToSet(index) /\ opening = FALSE /\ unavailable = FALSE
    BY <1>0, Deciding
  <2>5. \A l \in dlogs : OneBeyond(l, Memory)
    BY <1>0 DEF StoreInv, HandleSound
  <2>6. TypeOK'
    BY <1>0, <2>1, <2>2, <2>3 DEF StoreInv, TypeOK
  <2>7. FilesSound'
    <3> DEFINE P == {}
    <3>1. \A s \in dsnaps : Found(<<log', s>>) = Memory
      BY <2>1, <2>2
    <3>2. \A l \in dlogs \union P : OneBeyond(l, Memory)
      BY <2>5
    <3>3. /\ log' \in dlogs' /\ dlogs' \subseteq dlogs \union P
          /\ \A l \in P : TornTailOnly(l)
          /\ \A l \in P, s \in dsnaps : Sound(Found(<<l, s>>))
      BY <2>1, <2>2, <2>3
    <3> HIDE DEF P
    <3> QED
      BY <1>0, <3>1, <3>2, <3>3, NewLog
  <2>8. Memory' = Memory
    BY <1>0 DEF Memory
  <2>9. Settled' = Settled
    <3>1. SubSeq(Settled, 1, logLen) = Settled
      BY <2>2
    <3>2. Settled' = SubSeq(log', 1, logLen')
      BY DEF Settled
    <3> QED
      BY <1>0, <2>1, <3>1, <3>2
  <2>10. \A l \in dlogs' : OneBeyond(l, Memory)'
    BY <1>0, <2>3, <2>5, <2>8 DEF OneBeyond
  <2>11. InAppend'
    <3>1. \A s \in dsnaps' : Found(<<Settled, s>>)' = Memory'
      BY <1>0, <2>2, <2>8, <2>9 DEF Found
    <3>2. log' = Settled' /\ log' # NoFile /\ logLen' <= Len(log') /\ Settled' \in dlogs' \intersect Seq(Record)
      BY <1>0, <2>1, <2>2, <2>3, <2>9
    <3> QED
      BY <1>0, <2>1, <2>4, <3>1, <3>2 DEF InAppend
  <2>12. AtRest' /\ InCompaction'
    BY <2>1 DEF AtRest, Idle, Booting, Compacting, InCompaction
  <2>13. HandleSound'
    BY <1>0, <2>1, <2>4, <2>10, <2>11, <2>12 DEF StoreInv, HandleSound
  <2> QED
    BY <2>6, <2>7, <2>13 DEF StoreInv
<1>2. CASE Fault /\ InDoubt /\ UNCHANGED <<log, dlogs>>
  BY <1>0, <1>2, InDoubtStep DEF fileVars, histVars
<1> QED
  BY <1>1, <1>2 DEF Undo

LEMMA UndoSyncStep ==
    ASSUME StoreInv, UndoSync
    PROVE  StoreInv'
<1>0. pc = "undosync" /\ pc \in Appending
      /\ UNCHANGED <<snap, dsnaps, temp, dtemps, opening, index, txn, format, logLen,
                     committed, asked>>
  BY DEF UndoSync, Appending
<1>1. CASE /\ SyncLog /\ refused' = refused \union {cur} /\ cur' = NoOp
           /\ Goto("idle") /\ NoFault /\ UNCHANGED unavailable
  <2>1. /\ log' = log /\ log \in dlogs' /\ dlogs' \subseteq dlogs
        /\ dlogs' \in SUBSET Logs /\ dlogs' # {}
        /\ \A l \in dlogs' : l = log \/ (l = NoFile /\ ~ EntryWithFile)
    BY <1>1, SyncedLog
  <2>2. /\ refused' = refused \union {cur} /\ cur' = NoOp /\ pc' = "idle"
        /\ UNCHANGED <<unavailable, faults, crashes>>
    BY <1>1 DEF Goto, NoFault, countVars
  <2>3. /\ cur \in (asked \ refused) \ ToSet(index) /\ cur \in Ops
        /\ opening = FALSE /\ unavailable = FALSE
    BY <1>0, Deciding
  <2>4. /\ logLen \in Nat /\ Settled \in dlogs /\ Settled \in Seq(Record) /\ Len(Settled) = logLen
        /\ Whole(Settled) = Settled /\ Settled # NoFile /\ Settled \in Logs /\ TornTailOnly(Settled)
        /\ \A s \in dsnaps : Found(<<Settled, s>>) = Memory
        /\ Sound(Memory)
    BY <1>0, SettledIs
  <2>5. log = Settled
    BY <1>0 DEF StoreInv, HandleSound, InAppend, Appending
  <2>6. Memory' = Memory /\ Memory.index = index /\ Memory.txn = txn /\ txn \in Nat
    BY <1>0, MemoryType DEF Memory, StoreInv, TypeOK
  <2>7. Sound(Memory)'
    <3>1. ToSet(index) \subseteq asked \ refused
      BY <2>4, <2>6 DEF Sound
    <3> QED
      BY <1>0, <2>2, <2>3, <2>4, <2>6, <3>1 DEF Sound
  <2>8. TypeOK'
    BY <1>0, <2>1, <2>2, <2>3 DEF StoreInv, TypeOK
  <2>9. \A l \in dlogs' : OneBeyond(l, Memory)' /\ TornTailOnly(l)
    <3> SUFFICES ASSUME NEW l \in dlogs' PROVE OneBeyond(l, Memory)' /\ TornTailOnly(l)
      OBVIOUS
    <3>1. CASE l = log
      <4>1. snap \in dsnaps /\ snap \in Snapshots
        BY FilesRecover
      <4>2. Recover(Settled, snap) = Memory
        BY <2>4, <4>1 DEF Found
      <4>3. \A i \in DOMAIN Settled : Settled[i].txn <= txn
        BY <2>4, <2>6, <4>1, <4>2, RecoverReaches
      <4>4. \A i \in DOMAIN Settled : Settled[i] \in Record
        BY <2>4
      <4>5. \A i \in DOMAIN Settled : Settled[i].txn \in Nat
        BY <4>4 DEF Record
      <4>6. \A i \in DOMAIN Settled : ~ (Settled[i].txn > txn)
        BY <2>6, <4>3, <4>5
      <4> QED
        BY <2>4, <2>5, <2>6, <3>1, <4>6 DEF OneBeyond
    <3>2. CASE l = NoFile
      BY <3>2, WholeNone DEF OneBeyond
    <3> QED
      BY <2>1, <3>1, <3>2
  <2>10. \A l \in dlogs', s \in dsnaps' : Sound(Found(<<l, s>>))'
    <3> SUFFICES ASSUME NEW l \in dlogs', NEW s \in dsnaps PROVE Sound(Found(<<l, s>>))'
      BY <1>0
    <3>1. CASE l = log
      BY <2>4, <2>5, <2>6, <2>7, <3>1 DEF Found
    <3>2. CASE l = NoFile /\ ~ EntryWithFile
      <4>1. s \in Snapshots /\ l \in dlogs
        BY <2>1 DEF StoreInv, TypeOK
      <4>2. Found(<<l, s>>) = Loaded(s) /\ Loaded(s) \in States /\ Sound(Found(<<l, s>>))
        BY <3>2, <4>1, RecoverNothing, LoadedType DEF Found, StoreInv, FilesSound
      <4>3. Memory = Replay(Loaded(s), Settled)
        BY <2>4, <4>1, RecoverIsReplay DEF Found
      <4>4. ToSet(Loaded(s).index) \subseteq ToSet(index)
        BY <2>4, <2>6, <4>2, <4>3, ReplayKeeps
      <4>5. Loaded(s).ok /\ ToSet(Loaded(s).index) \subseteq asked \ refused
        BY <4>2 DEF Sound
      <4>6. Sound(Loaded(s))'
        BY <1>0, <2>2, <2>3, <3>2, <4>4, <4>5 DEF Sound, Loaded
      <4> QED
        BY <4>2, <4>6 DEF Found
    <3> QED
      BY <2>1, <3>1, <3>2
  <2>11. FilesSound'
    <3>1. snap \in dsnaps /\ Torn \notin dsnaps
      BY DEF StoreInv, FilesSound
    <3>2. Found(<<log, snap>>)' = Memory' /\ \A s \in dsnaps' : Found(<<log, s>>)' = Memory'
      BY <1>0, <2>1, <2>4, <2>5, <2>6, <3>1 DEF Found
    <3>3. \A l \in dlogs' : TornTailOnly(l)' /\ OneBeyond(l, Found(<<log, snap>>))'
      BY <2>9, <3>2 DEF OneBeyond
    <3> QED
      BY <1>0, <2>1, <2>10, <3>1, <3>2, <3>3 DEF FilesSound
  <2>12. AtRest'
    <3>1. snap \in dsnaps
      BY DEF StoreInv, FilesSound
    <3>2. Found(<<log, snap>>)' = Memory'
      BY <1>0, <2>1, <2>4, <2>5, <2>6, <3>1 DEF Found
    <3>3. logLen' = Len(Whole(log))' /\ logLen' = Len(log') /\ log' # NoFile
      BY <1>0, <2>1, <2>4, <2>5
    <3> QED
      BY <2>2, <3>2, <3>3 DEF AtRest, Booting, Compacting
  <2>13. InAppend' /\ InCompaction'
    BY <1>0, <2>2, <2>3 DEF InAppend, Appending, InCompaction
  <2>14. refused' \subseteq asked'
    BY <1>0, <2>2, <2>3 DEF StoreInv, HandleSound
  <2>15. HandleSound'
    BY <1>0, <2>2, <2>3, <2>9, <2>12, <2>13, <2>14 DEF StoreInv, HandleSound
  <2> QED
    BY <2>8, <2>11, <2>15 DEF StoreInv
<1>2. CASE Fault /\ InDoubt /\ UNCHANGED <<log, dlogs, refused>>
  BY <1>0, <1>2, InDoubtStep DEF fileVars, histVars
<1> QED
  BY <1>1, <1>2 DEF UndoSync

-----------------------------------------------------------------------------
(* The steps of a compaction *)

\* A call of compact fails; the log and the snapshot are as before.
LEMMA CompactFailsStep ==
    ASSUME StoreInv, Fault, CompactFails, HandleStays, UNCHANGED cur, pc \in Compacting,
           temp' \in Snapshots, dtemps' \in SUBSET Snapshots
    PROVE  StoreInv'
<1>1. /\ faults' \in 0 .. MaxFaults /\ crashes' = crashes
      /\ opening' = FALSE /\ unavailable = FALSE
      /\ pc' \in {"closed", "idle"}
  BY FileAssumption DEF Fault, CompactFails, OpenFails, Goto, StoreInv, TypeOK, HandleSound, Compacting
<1>2. TypeOK'
  BY <1>1 DEF StoreInv, TypeOK, HandleStays, FilesStay
<1>3. FilesSound'
  BY FilesSoundStays DEF StoreInv, HandleStays
<1>4. Memory' = Memory /\ \A l \in dlogs' : OneBeyond(l, Memory)'
  BY BeyondStays DEF Compacting
<1>5. AtRest'
  <2>1. Found(<<log, snap>>) = Memory /\ logLen = Len(Whole(log)) /\ log # NoFile /\ logLen = Len(log)
    BY DEF StoreInv, HandleSound, AtRest, Compacting
  <2> QED
    BY <1>1, <1>4, <2>1 DEF AtRest, Booting, Compacting, HandleStays, FilesStay
<1>6. InAppend' /\ InCompaction'
  BY <1>1 DEF InAppend, Appending, InCompaction, HandleStays
<1>7. HandleSound'
  BY <1>1, <1>4, <1>5, <1>6 DEF StoreInv, HandleSound, HandleStays, FilesStay
<1> QED
  BY <1>2, <1>3, <1>7 DEF StoreInv

\* The compaction goes on, up to the rename: the temporary file is all it changes.
LEMMA TemporaryStep ==
    ASSUME StoreInv, HandleStays, UNCHANGED cur, pc \in Compacting \/ Idle, NoFault, UNCHANGED opening,
           pc' \in {"snapwrite", "snapsync", "rename"}, InCompaction',
           temp' \in Snapshots, dtemps' \in SUBSET Snapshots
    PROVE  StoreInv'
<1>1. unavailable = FALSE /\ pc # "closed"
  BY DEF StoreInv, HandleSound, Compacting, Idle, TypeOK
<1>2. TypeOK'
  BY DEF StoreInv, TypeOK, HandleStays, FilesStay, NoFault, countVars
<1>3. FilesSound'
  BY FilesSoundStays DEF StoreInv, HandleStays
<1>4. Memory' = Memory /\ \A l \in dlogs' : OneBeyond(l, Memory)'
  BY <1>1, BeyondStays
<1>5. AtRest'
  <2>1. Found(<<log, snap>>) = Memory /\ logLen = Len(Whole(log)) /\ log # NoFile /\ logLen = Len(log)
    BY DEF StoreInv, HandleSound, AtRest, Compacting, Idle
  <2> QED
    BY <1>4, <2>1 DEF AtRest, HandleStays, FilesStay
<1>6. InAppend'
  BY DEF InAppend, Appending
<1>7. HandleSound'
  BY <1>1, <1>4, <1>5, <1>6 DEF StoreInv, HandleSound, HandleStays, FilesStay, Compacting
<1> QED
  BY <1>2, <1>3, <1>7 DEF StoreInv

LEMMA CompactStep ==
    ASSUME StoreInv, Compact
    PROVE  StoreInv'
<1>1. /\ pc' = "snapwrite" /\ HandleStays /\ UNCHANGED <<cur, temp, dtemps, opening>> /\ NoFault /\ Idle
  BY DEF Compact, Goto, HandleStays, FilesStay, NoFault, fileVars, memVars, histVars
<1>2. temp' \in Snapshots /\ dtemps' \in SUBSET Snapshots /\ InCompaction'
  BY <1>1 DEF StoreInv, TypeOK, InCompaction
<1> QED
  BY <1>1, <1>2, TemporaryStep

\* The snapshot of the memory is one, and loads as the memory.
LEMMA SnapshotNowIs ==
    ASSUME StoreInv
    PROVE  /\ SnapshotNow \in Snapshot /\ SnapshotNow \in Snapshots
           /\ Loaded(SnapshotNow) = Memory /\ SnapshotNow # Torn /\ Torn \in Snapshots /\ NoFile \in Snapshots
<1>1. SnapshotNow \in Snapshot
  BY DEF StoreInv, TypeOK, SnapshotNow, Snapshot
<1>2. SnapshotNow # Torn /\ SnapshotNow # NoFile
  BY <1>1, SentinelAssumption
<1> QED
  BY <1>1, <1>2 DEF Loaded, Memory, SnapshotNow, Snapshots

LEMMA WriteSnapshotStep ==
    ASSUME StoreInv, WriteSnapshot
    PROVE  StoreInv'
<1>0. pc = "snapwrite" /\ pc \in Compacting /\ HandleStays /\ cur' = cur
  BY DEF WriteSnapshot, Compacting, HandleStays, FilesStay, histVars
<1>1. SnapshotNow \in Snapshots /\ Torn \in Snapshots /\ NoFile \in Snapshots
  BY SnapshotNowIs
<1>2. CASE /\ temp' = SnapshotNow /\ dtemps' = {Torn, SnapshotNow}
           /\ Goto("snapsync") /\ NoFault /\ UNCHANGED opening
  <2>1. pc' = "snapsync" /\ SnapshotNow' = SnapshotNow
    BY <1>0, <1>2 DEF Goto, SnapshotNow, HandleStays
  <2>2. InCompaction'
    BY <1>2, <2>1 DEF InCompaction
  <2>3. temp' \in Snapshots /\ dtemps' \in SUBSET Snapshots
    BY <1>1, <1>2
  <2> QED
    BY <1>0, <1>2, <2>1, <2>2, <2>3, TemporaryStep
<1>3. CASE temp' = NoFile /\ dtemps' = {} /\ Fault /\ CompactFails
  BY <1>0, <1>1, <1>3, CompactFailsStep
<1> QED
  BY <1>2, <1>3 DEF WriteSnapshot

LEMMA SyncSnapshotStep ==
    ASSUME StoreInv, SyncSnapshot
    PROVE  StoreInv'
<1>0. pc = "snapsync" /\ pc \in Compacting /\ HandleStays /\ cur' = cur /\ temp = SnapshotNow
  BY DEF SyncSnapshot, Compacting, HandleStays, FilesStay, histVars, StoreInv, HandleSound, InCompaction
<1>1. temp \in Snapshots /\ NoFile \in Snapshots
  BY SnapshotNowIs DEF StoreInv, TypeOK
<1>2. CASE dtemps' = {temp} /\ Goto("rename") /\ NoFault /\ UNCHANGED <<temp, opening>>
  <2>1. pc' = "rename" /\ SnapshotNow' = SnapshotNow
    BY <1>0, <1>2 DEF Goto, SnapshotNow, HandleStays
  <2>2. InCompaction'
    BY <1>0, <1>2, <2>1 DEF InCompaction
  <2>3. temp' \in Snapshots /\ dtemps' \in SUBSET Snapshots
    BY <1>1, <1>2
  <2> QED
    BY <1>0, <1>2, <2>1, <2>2, <2>3, TemporaryStep
<1>3. CASE temp' = NoFile /\ dtemps' = {} /\ Fault /\ CompactFails
  BY <1>0, <1>1, <1>3, CompactFailsStep
<1> QED
  BY <1>2, <1>3 DEF SyncSnapshot

\* With the snapshot of the memory every log leads to the memory, or to the
\* memory with the one mutation in progress or in doubt.
LEMMA SnapshotCovers ==
    ASSUME StoreInv, pc \in Compacting, NEW l \in dlogs
    PROVE  /\ Sound(Found(<<l, SnapshotNow>>))
           /\ Found(<<log, SnapshotNow>>) = Memory
<1>1. /\ SnapshotNow \in Snapshot /\ SnapshotNow \in Snapshots /\ Loaded(SnapshotNow) = Memory
      /\ SnapshotNow.txn = txn /\ SnapshotNow.format = format
  BY SnapshotNowIs DEF SnapshotNow
<1>2. Memory \in States /\ Memory.txn = txn /\ Memory.index = index /\ Memory.format = format
      /\ txn \in Nat /\ index \in Seq(Ops) /\ committed \in Seq(Ops)
  BY MemoryType DEF StoreInv, TypeOK
<1>3. Found(<<log, snap>>) = Memory /\ Sound(Memory)
  BY FilesRecover DEF StoreInv, HandleSound, AtRest, FilesSound
<1>4. Found(<<log, SnapshotNow>>) = Memory
  <2>1. log \in Logs /\ TornTailOnly(log) /\ snap \in Snapshots /\ Recover(log, snap) = Memory
    BY <1>3, FilesRecover
  <2>2. \A i \in DOMAIN Whole(log) : Whole(log)[i].txn <= Memory.txn
    BY <2>1, RecoverReaches
  <2>3. Whole(log) \in Seq(Record) /\ Recover(log, SnapshotNow) = Replay(Memory, Whole(log))
    BY <1>1, <2>1, RecoverIsReplay
  <2>4. Replay(Memory, Whole(log)) = Memory
    BY <1>2, <2>2, <2>3, ReplayCovered
  <2> QED
    BY <2>3, <2>4 DEF Found
<1>5. l \in Logs /\ TornTailOnly(l) /\ OneBeyond(l, Loaded(SnapshotNow))
  BY <1>1 DEF StoreInv, TypeOK, FilesSound, HandleSound, Compacting
<1>f. Found(<<l, SnapshotNow>>) = Recover(l, SnapshotNow)
  BY DEF Found
<1>6. CASE Recover(l, SnapshotNow) = Memory
  BY <1>f, <1>3, <1>4, <1>6
<1>7. ASSUME NEW r \in Record, r.txn = txn + 1, r.format >= format, r.op \in asked \ refused,
             Recover(l, SnapshotNow) = Replayed(Memory, r)
      PROVE  Sound(Recover(l, SnapshotNow))
  <2>1. r.op \in Ops /\ r.txn \in Nat
    BY DEF Record
  <2>2. ~ (r.txn <= Memory.txn) /\ r.txn = Memory.txn + 1 /\ r.format >= Memory.format /\ Memory.ok
    BY <1>2, <1>7 DEF Memory
  <2>3. Replayed(Memory, r) = [ok |-> TRUE, txn |-> r.txn, format |-> r.format,
                               index |-> Append(Memory.index, r.op)]
    BY <2>2 DEF Replayed
  <2>4. /\ IsPrefix(committed, index) => IsPrefix(committed, Append(index, r.op))
        /\ ToSet(Append(index, r.op)) = ToSet(index) \union {r.op}
    BY <1>2, <2>1, PrefixAppend
  <2>5. Sound(Replayed(Memory, r))
    BY <1>2, <1>3, <1>7, <2>3, <2>4 DEF Sound
  <2> QED
    BY <1>7, <2>5
<1>8. \/ Recover(l, SnapshotNow) = Memory
      \/ \E r \in Record : /\ r.txn = txn + 1 /\ r.format >= format
                           /\ r.op \in asked \ refused
                           /\ Recover(l, SnapshotNow) = Replayed(Memory, r)
  <2> DEFINE s == SnapshotNow
  <2>1. s \in Snapshot /\ Loaded(s) = Memory /\ s.txn = txn /\ s.format = format /\ OneBeyond(l, Loaded(s))
    BY <1>1, <1>5
  <2> HIDE DEF s
  <2>2. \/ Recover(l, s) = Loaded(s)
        \/ \E r \in Record : /\ r.txn = s.txn + 1 /\ r.format >= s.format
                             /\ r.op \in asked \ refused
                             /\ Recover(l, s) = Replayed(Loaded(s), r)
    BY <1>5, <2>1, RecoverBeyond
  <2>3. \/ Recover(l, s) = Memory
        \/ \E r \in Record : /\ r.txn = txn + 1 /\ r.format >= format
                             /\ r.op \in asked \ refused
                             /\ Recover(l, s) = Replayed(Memory, r)
    BY <2>1, <2>2
  <2> QED
    BY <2>3 DEF s
<1> QED
  BY <1>f, <1>4, <1>6, <1>7, <1>8

LEMMA RenameSnapshotStep ==
    ASSUME StoreInv, RenameSnapshot
    PROVE  StoreInv'
<1>0. /\ pc = "rename" /\ pc \in Compacting /\ temp = SnapshotNow /\ dtemps = {temp}
      /\ UNCHANGED <<log, dlogs, cur, index, txn, format, logLen, unavailable, committed, refused, asked>>
  BY DEF RenameSnapshot, Compacting, histVars, StoreInv, HandleSound, InCompaction
<1>1. CASE /\ snap' = temp /\ dsnaps' = dsnaps \union dtemps
           /\ temp' = NoFile /\ dtemps' = {}
           /\ Goto("snapdir") /\ NoFault /\ UNCHANGED opening
  <2>1. /\ snap' = SnapshotNow /\ dsnaps' = dsnaps \union {SnapshotNow} /\ temp' = NoFile /\ dtemps' = {}
        /\ pc' = "snapdir" /\ UNCHANGED <<opening, faults, crashes>>
    BY <1>0, <1>1 DEF Goto, NoFault, countVars
  <2>2. SnapshotNow \in Snapshots /\ SnapshotNow # Torn /\ NoFile \in Snapshots
    BY SnapshotNowIs
  <2>3. Memory' = Memory /\ SnapshotNow' = SnapshotNow
    BY <1>0 DEF Memory, SnapshotNow
  <2>4. TypeOK'
    BY <1>0, <2>1, <2>2 DEF StoreInv, TypeOK
  <2>5. log \in dlogs /\ Found(<<log, SnapshotNow>>) = Memory
    BY <1>0, FilesRecover, SnapshotCovers
  <2>6. \A s \in dsnaps' : Found(<<log, s>>) = Memory
    <3>1. Found(<<log, snap>>) = Memory
      BY <1>0 DEF StoreInv, HandleSound, AtRest
    <3> QED
      BY <2>1, <2>5, <3>1 DEF StoreInv, FilesSound
  <2>7. \A l \in dlogs : OneBeyond(l, Memory)
    BY <1>0 DEF StoreInv, HandleSound, Compacting
  <2>8. \A l \in dlogs, s \in dsnaps' : Sound(Found(<<l, s>>))
    <3>1. \A l \in dlogs : Sound(Found(<<l, SnapshotNow>>))
      BY <1>0, SnapshotCovers
    <3> QED
      BY <2>1, <3>1 DEF StoreInv, FilesSound
  <2>9. FilesSound'
    <3>1. \A s \in dsnaps' : Found(<<log, s>>)' = Memory
      BY <1>0, <2>6 DEF Found
    <3>2. snap' \in dsnaps' /\ Torn \notin dsnaps' /\ Found(<<log, snap>>)' = Memory
      BY <1>0, <2>1, <2>2, <2>6 DEF StoreInv, FilesSound, Found
    <3>3. \A l \in dlogs' : TornTailOnly(l)' /\ OneBeyond(l, Found(<<log, snap>>))'
      BY <1>0, <2>7, <3>2 DEF StoreInv, FilesSound, OneBeyond
    <3>4. \A l \in dlogs', s \in dsnaps' : Sound(Found(<<l, s>>))'
      BY <1>0, <2>8 DEF Sound, Found
    <3> QED
      BY <1>0, <2>5, <3>1, <3>2, <3>3, <3>4 DEF FilesSound
  <2>10. \A l \in dlogs' : OneBeyond(l, Memory)'
    BY <1>0, <2>3, <2>7 DEF OneBeyond
  <2>11. AtRest'
    <3>1. logLen = Len(Whole(log)) /\ log # NoFile /\ logLen = Len(log)
      BY <1>0 DEF StoreInv, HandleSound, AtRest
    <3>2. Found(<<log, snap>>)' = Memory'
      BY <1>0, <2>1, <2>3, <2>5 DEF Found
    <3> QED
      BY <1>0, <2>1, <3>1, <3>2 DEF AtRest
  <2>12. InAppend' /\ InCompaction'
    BY <2>1, <2>3 DEF InAppend, Appending, InCompaction
  <2>13. unavailable = FALSE
    BY <1>0 DEF StoreInv, HandleSound, TypeOK
  <2>14. HandleSound'
    BY <1>0, <2>1, <2>10, <2>11, <2>12, <2>13 DEF StoreInv, HandleSound, Compacting
  <2> QED
    BY <2>4, <2>9, <2>14 DEF StoreInv
<1>2. CASE Fault /\ CompactFails /\ UNCHANGED <<snap, dsnaps, temp, dtemps>>
  <2>1. HandleStays /\ temp' \in Snapshots /\ dtemps' \in SUBSET Snapshots
    BY <1>0, <1>2 DEF HandleStays, FilesStay, StoreInv, TypeOK
  <2> QED
    BY <1>0, <1>2, <2>1, CompactFailsStep
<1> QED
  BY <1>1, <1>2 DEF RenameSnapshot


LEMMA SyncSnapshotEntryStep ==
    ASSUME StoreInv, SyncSnapshotEntry
    PROVE  StoreInv'
<1>0. /\ pc = "snapdir" /\ pc \in Compacting /\ snap = SnapshotNow /\ log # NoFile
      /\ Found(<<log, snap>>) = Memory /\ logLen = Len(Whole(log)) /\ logLen = Len(log)
      /\ unavailable = FALSE
      /\ UNCHANGED <<log, snap, temp, dtemps, cur, index, txn, format, logLen, unavailable,
                     committed, refused, asked>>
  BY DEF SyncSnapshotEntry, Compacting, histVars, StoreInv, TypeOK, HandleSound, AtRest, InCompaction
<1>1. CASE dsnaps' = {snap} /\ dlogs' = dlogs \ {NoFile} /\ Goto("empty") /\ NoFault /\ UNCHANGED opening
  <2>1. /\ log \in dlogs' /\ dlogs' \subseteq dlogs /\ snap \in dsnaps' /\ dsnaps' \subseteq dsnaps
        /\ pc' = "empty" /\ UNCHANGED <<opening, faults, crashes>>
    BY <1>0, <1>1 DEF StoreInv, FilesSound, Goto, NoFault, countVars
  <2>2. TypeOK'
    BY <1>0, <1>1, <2>1 DEF StoreInv, TypeOK
  <2>3. FilesSound'
    BY <1>0, <2>1, FewerImages
  <2>4. Memory' = Memory /\ SnapshotNow' = SnapshotNow
    BY <1>0 DEF Memory, SnapshotNow
  <2>5. \A l \in dlogs' : OneBeyond(l, Memory)'
    BY <1>0, <2>1, <2>4 DEF StoreInv, HandleSound, OneBeyond, Compacting
  <2>6. AtRest'
    BY <1>0, <2>1, <2>4 DEF AtRest, Booting, Compacting
  <2>7. InAppend' /\ InCompaction'
    BY <1>0, <1>1, <2>1, <2>4 DEF InAppend, Appending, InCompaction
  <2>8. HandleSound'
    BY <1>0, <2>1, <2>5, <2>6, <2>7 DEF StoreInv, HandleSound, Compacting
  <2> QED
    BY <2>2, <2>3, <2>8 DEF StoreInv
<1>2. CASE Fault /\ CompactFails /\ UNCHANGED <<dsnaps, dlogs>>
  <2>1. HandleStays /\ temp' \in Snapshots /\ dtemps' \in SUBSET Snapshots
    BY <1>0, <1>2 DEF HandleStays, FilesStay, StoreInv, TypeOK
  <2> QED
    BY <1>0, <1>2, <2>1, CompactFailsStep
<1> QED
  BY <1>1, <1>2 DEF SyncSnapshotEntry

LEMMA EmptyLogStep ==
    ASSUME StoreInv, EmptyLog
    PROVE  StoreInv'
<1>0. /\ pc = "empty" /\ pc \in Compacting /\ snap = SnapshotNow /\ dsnaps = {snap}
      /\ Found(<<log, snap>>) = Memory
      /\ unavailable = FALSE
      /\ UNCHANGED <<snap, dsnaps, temp, dtemps, cur, index, txn, format, unavailable,
                     committed, refused, asked>>
  BY DEF EmptyLog, Compacting, histVars, StoreInv, TypeOK, HandleSound, AtRest, InCompaction
<1>1. CASE WriteLog(<<>>) /\ logLen' = 0 /\ Goto("emptysync") /\ NoFault /\ UNCHANGED opening
  <2>1. /\ log' = <<>> /\ dlogs' = dlogs \union {<<>>} /\ logLen' = 0 /\ pc' = "emptysync"
        /\ UNCHANGED <<opening, faults, crashes>>
    BY <1>1 DEF WriteLog, Goto, NoFault, countVars
  <2>2. /\ <<>> \in Seq(Record) /\ <<>> \in Logs /\ <<>> # NoFile /\ TornTailOnly(<<>>)
        /\ Whole(<<>>) = <<>> /\ Len(<<>>) = 0
    <3>1. <<>> \in Seq(Record) /\ Len(<<>>) = 0
      OBVIOUS
    <3> QED
      BY <3>1, WholeRecords
  <2>3. \A s \in dsnaps : Found(<<<<>>, s>>) = Memory
    <3>1. snap \in Snapshots /\ Loaded(snap) = Memory
      BY <1>0, SnapshotNowIs
    <3>2. Recover(<<>>, snap) = Memory
      BY <3>1, RecoverNothing
    <3> QED
      BY <1>0, <3>2 DEF Found
  <2>4. Sound(Memory)
    BY <1>0, FilesRecover DEF StoreInv, FilesSound
  <2>5. \A l \in dlogs \union {<<>>} : OneBeyond(l, Memory)
    BY <1>0, <2>2 DEF StoreInv, HandleSound, OneBeyond
  <2>6. TypeOK'
    BY <1>0, <2>1, <2>2 DEF StoreInv, TypeOK
  <2>7. FilesSound'
    <3> DEFINE P == {<<>>}
    <3>1. \A s \in dsnaps : Found(<<log', s>>) = Memory
      BY <2>1, <2>3
    <3>2. \A l \in dlogs \union P : OneBeyond(l, Memory)
      BY <2>5
    <3>3. /\ log' \in dlogs' /\ dlogs' \subseteq dlogs \union P
          /\ \A l \in P : TornTailOnly(l)
      BY <2>1, <2>2
    <3>4. \A l \in P, s \in dsnaps : Sound(Found(<<l, s>>))
      BY <2>3, <2>4
    <3> HIDE DEF P
    <3> QED
      BY <1>0, <3>1, <3>2, <3>3, <3>4, NewLog
  <2>8. Memory' = Memory /\ SnapshotNow' = SnapshotNow
    BY <1>0 DEF Memory, SnapshotNow
  <2>9. \A l \in dlogs' : OneBeyond(l, Memory)'
    BY <1>0, <2>1, <2>5, <2>8 DEF OneBeyond
  <2>10. AtRest'
    <3>1. snap \in dsnaps
      BY <1>0
    <3>2. Found(<<log, snap>>)' = Memory'
      BY <1>0, <2>1, <2>3, <2>8, <3>1 DEF Found
    <3> QED
      BY <2>1, <2>2, <3>2 DEF AtRest
  <2>11. InAppend' /\ InCompaction'
    BY <1>0, <2>1, <2>8 DEF InAppend, Appending, InCompaction
  <2>12. HandleSound'
    BY <1>0, <2>1, <2>9, <2>10, <2>11 DEF StoreInv, HandleSound, Compacting
  <2> QED
    BY <2>6, <2>7, <2>12 DEF StoreInv
<1>2. CASE Fault /\ CompactFails /\ UNCHANGED <<log, dlogs, logLen>>
  <2>1. HandleStays /\ temp' \in Snapshots /\ dtemps' \in SUBSET Snapshots
    BY <1>0, <1>2 DEF HandleStays, FilesStay, StoreInv, TypeOK
  <2> QED
    BY <1>0, <1>2, <2>1, CompactFailsStep
<1> QED
  BY <1>1, <1>2 DEF EmptyLog

LEMMA SyncEmptyLogStep ==
    ASSUME StoreInv, SyncEmptyLog
    PROVE  StoreInv'
<1>0. /\ pc = "emptysync" /\ pc \in Compacting /\ log # NoFile
      /\ Found(<<log, snap>>) = Memory /\ logLen = Len(Whole(log)) /\ logLen = Len(log)
      /\ unavailable = FALSE
      /\ UNCHANGED <<snap, dsnaps, temp, dtemps, cur, index, txn, format, logLen, unavailable,
                     committed, refused, asked>>
  BY DEF SyncEmptyLog, Compacting, histVars, StoreInv, TypeOK, HandleSound, AtRest
<1>1. CASE SyncLog /\ Goto("idle") /\ opening' = FALSE /\ NoFault
  <2>1. log' = log /\ log \in dlogs' /\ dlogs' \subseteq dlogs /\ dlogs' \in SUBSET Logs /\ dlogs' # {}
    BY <1>1, SyncedLog
  <2>2. pc' = "idle" /\ opening' = FALSE /\ UNCHANGED <<faults, crashes>>
    BY <1>1 DEF Goto, NoFault, countVars
  <2>3. TypeOK'
    BY <1>0, <2>1, <2>2 DEF StoreInv, TypeOK
  <2>4. FilesSound'
    <3>1. snap \in dsnaps
      BY DEF StoreInv, FilesSound
    <3> QED
      BY <1>0, <2>1, <3>1, FewerImages
  <2>5. Memory' = Memory
    BY <1>0 DEF Memory
  <2>6. \A l \in dlogs' : OneBeyond(l, Memory)'
    BY <1>0, <2>1, <2>5 DEF StoreInv, HandleSound, OneBeyond, Compacting
  <2>7. AtRest'
    BY <1>0, <2>1, <2>2, <2>5 DEF AtRest, Booting, Compacting
  <2>8. InAppend' /\ InCompaction'
    BY <1>0, <2>2 DEF InAppend, Appending, InCompaction
  <2>9. HandleSound'
    BY <1>0, <2>2, <2>6, <2>7, <2>8 DEF StoreInv, HandleSound
  <2> QED
    BY <2>3, <2>4, <2>9 DEF StoreInv
<1>2. CASE Fault /\ CompactFails /\ UNCHANGED <<log, dlogs>>
  <2>1. HandleStays /\ temp' \in Snapshots /\ dtemps' \in SUBSET Snapshots
    BY <1>0, <1>2 DEF HandleStays, FilesStay, StoreInv, TypeOK
  <2> QED
    BY <1>0, <1>2, <2>1, CompactFailsStep
<1> QED
  BY <1>1, <1>2 DEF SyncEmptyLog

-----------------------------------------------------------------------------
(* A power loss *)

LEMMA PowerLossStep ==
    ASSUME StoreInv, PowerLoss
    PROVE  StoreInv'
<1>1. /\ pc' = "closed" /\ opening' = FALSE /\ cur' = NoOp
      /\ index' = <<>> /\ txn' = 0 /\ format' = 1 /\ logLen' = 0 /\ unavailable' = FALSE
      /\ crashes' \in 0 .. MaxCrashes /\ faults' = faults
      /\ UNCHANGED histVars
  BY FileAssumption DEF PowerLoss, Forget, Goto, StoreInv, TypeOK
<1>2. PICK l \in dlogs, s \in dsnaps : log' = l /\ dlogs' = {l} /\ snap' = s /\ dsnaps' = {s}
  BY DEF PowerLoss
<1>3. temp' \in Snapshots /\ dtemps' = {}
  BY DEF PowerLoss, StoreInv, TypeOK, Snapshots
<1>4. TypeOK'
  <2>1. <<>> \in Seq(Ops) /\ 0 \in Nat /\ 1 \in 1..3
    OBVIOUS
  <2> QED
    BY <1>1, <1>2, <1>3, <2>1 DEF StoreInv, TypeOK, histVars
<1>5. FilesSound'
  <2>1. /\ l \in Logs /\ s \in Snapshots /\ TornTailOnly(l) /\ s # Torn
        /\ Sound(Found(<<l, s>>)) /\ Found(<<l, s>>) = Recover(l, s)
    BY ImagesRecover DEF StoreInv, FilesSound
  <2>2. OneBeyond(l, Found(<<l, s>>))
    BY <2>1, NotBeyondItself
  <2>3. Found(<<log, snap>>)' = Found(<<l, s>>)
    BY <1>2 DEF Found
  <2>4. OneBeyond(l, Found(<<log, snap>>))'
    BY <1>1, <2>2, <2>3 DEF OneBeyond, histVars
  <2>5. Sound(Found(<<l, s>>))'
    BY <1>1, <2>1 DEF Sound, Found, histVars
  <2> QED
    BY <1>2, <2>1, <2>3, <2>4, <2>5 DEF FilesSound, Found
<1>6. AtRest' /\ InAppend' /\ InCompaction'
  BY <1>1 DEF AtRest, Idle, InAppend, InCompaction, Booting, Compacting, Appending
<1>7. HandleSound'
  BY <1>1, <1>6 DEF StoreInv, HandleSound, histVars
<1> QED
  BY <1>4, <1>5, <1>7 DEF StoreInv

-----------------------------------------------------------------------------
(* The invariant *)

LEMMA InitSound == Init => StoreInv
<1> SUFFICES ASSUME Init PROVE StoreInv
  OBVIOUS
<1>1. <<>> \in Seq(Ops) /\ 0 \in Nat /\ 1 \in 1..3 /\ NoFile \in Logs /\ NoFile \in Snapshots
      /\ 0 \in 0 .. MaxFaults /\ 0 \in 0 .. MaxCrashes
  BY FileAssumption DEF Logs, Snapshots
<1>2. TypeOK
  BY <1>1 DEF Init, TypeOK
<1>3. Found(<<NoFile, NoFile>>) = [ok |-> TRUE, txn |-> 0, format |-> 1, index |-> <<>>]
  BY <1>1, RecoverNothing DEF Found, Loaded
<1>4. Sound(Found(<<NoFile, NoFile>>))
  <2>1. IsPrefix(<<>>, <<>>) /\ ToSet(<<>>) = {}
    <3>1. Len(<<>>) = 0
      OBVIOUS
    <3>2. IsPrefix(<<>>, <<>>)
      <4> DEFINE s == <<>>
      <4>1. s \in Seq(Ops) /\ Len(s) <= Len(s) /\ \A i \in 1 .. Len(s) : s[i] = s[i]
        BY <1>1, <3>1
      <4> HIDE DEF s
      <4>2. IsPrefix(s, s)
        BY <4>1, PrefixIs
      <4> QED
        BY <4>2 DEF s
    <3> QED
      BY <3>1, <3>2 DEF ToSet
  <2> QED
    BY <1>3, <2>1 DEF Sound, Init
<1>5. TornTailOnly(NoFile) /\ \A st : OneBeyond(NoFile, st)
  BY WholeNone DEF OneBeyond
<1>6. FilesSound
  BY <1>4, <1>5, SentinelAssumption DEF Init, FilesSound
<1>7. HandleSound
  BY DEF Init, HandleSound, AtRest, Idle, InAppend, InCompaction, Booting, Compacting, Appending
<1> QED
  BY <1>2, <1>6, <1>7 DEF StoreInv

\* A step that changes no variable.
LEMMA StutterStep ==
    ASSUME StoreInv, UNCHANGED vars
    PROVE  StoreInv'
<1>1. TypeOK'
  BY DEF StoreInv, TypeOK, vars, fileVars, memVars, histVars, countVars
<1>2. FilesSound'
  BY FilesSoundStays DEF StoreInv, FilesStay, vars, fileVars, histVars
<1>3. HandleSound'
  BY DEF StoreInv, HandleSound, AtRest, InAppend, InCompaction, Idle, Memory, Settled, SnapshotNow,
         NextRecord, OneBeyond, Found, vars, fileVars, memVars, histVars
<1> QED
  BY <1>1, <1>2, <1>3 DEF StoreInv

\* Every call of open, mutation, compaction and close, with its failures, and
\* every crash keeps the invariant of the files and the handle.
THEOREM StoreSound == Spec => []StoreInv
<1>1. ASSUME StoreInv, [Next]_vars PROVE StoreInv'
  <2>1. CASE Next
    <3>1. CASE Open \/ Prune \/ Create \/ SyncLogEntry \/ OpenLog \/ Mend \/ MendSync \/ Close
      BY <1>1, <3>1, OpenStep, PruneStep, CreateStep, SyncLogEntryStep, OpenLogStep, MendStep,
         MendSyncStep, CloseStep
    <3>2. CASE \E o \in Ops : Begin(o)
      BY <1>1, <3>2, BeginStep
    <3>3. CASE WriteRecord \/ SyncRecord \/ Undo \/ UndoSync
      BY <1>1, <3>3, WriteRecordStep, SyncRecordStep, UndoStep, UndoSyncStep
    <3>4. CASE Compact \/ WriteSnapshot \/ SyncSnapshot \/ RenameSnapshot
               \/ SyncSnapshotEntry \/ EmptyLog \/ SyncEmptyLog
      BY <1>1, <3>4, CompactStep, WriteSnapshotStep, SyncSnapshotStep, RenameSnapshotStep,
         SyncSnapshotEntryStep, EmptyLogStep, SyncEmptyLogStep
    <3>5. CASE Kill \/ PowerLoss
      BY <1>1, <3>5, KillStep, PowerLossStep
    <3> QED
      BY <2>1, <3>1, <3>2, <3>3, <3>4, <3>5 DEF Next
  <2>2. CASE UNCHANGED vars
    BY <1>1, <2>2, StutterStep
  <2> QED
    BY <1>1, <2>1, <2>2
<1> QED
  BY <1>1, InitSound, PTL DEF Spec


-----------------------------------------------------------------------------
(* What follows from it *)

\* The type invariant.
THEOREM TypeCorrect == Spec => []TypeOK
<1>1. StoreInv => TypeOK
  BY DEF StoreInv
<1> QED
  BY <1>1, StoreSound, PTL

\* Each image is a pair of images of the log and the snapshot.
LEMMA ImageIs ==
    ASSUME StoreInv, NEW image \in Images
    PROVE  \E l \in dlogs, s \in dsnaps : image = <<l, s>> /\ Sound(Found(<<l, s>>))
<1>1. \E l \in dlogs, s \in dsnaps : image = <<l, s>>
  BY FilesRecover DEF Images
<1> QED
  BY <1>1 DEF StoreInv, FilesSound

\* However the process or the host goes down, the next open never refuses the
\* files as corrupt, whether or not an fsync makes a directory entry durable.
AlwaysOpens == \A image \in Images : Found(image).ok

THEOREM NeverCorrupt == Spec => []AlwaysOpens
<1>1. ASSUME StoreInv PROVE AlwaysOpens
  BY <1>1, ImageIs DEF AlwaysOpens, Sound
<1> QED
  BY <1>1, StoreSound, PTL

\* Where an fsync of a file makes its directory entry durable too, everything
\* the store showed when its last mutation resolved survives every crash.
THEOREM ResolvedMutationsSurvive == EntryWithFile => (Spec => []ResolvedSurvives)
<1>1. ASSUME StoreInv, EntryWithFile PROVE ResolvedSurvives
  BY <1>1, ImageIs DEF ResolvedSurvives, Sound
<1>2. ASSUME EntryWithFile PROVE Spec => []ResolvedSurvives
  <2>1. StoreInv => ResolvedSurvives
    BY <1>1, <1>2
  <2> QED
    BY <2>1, StoreSound, PTL
<1> QED
  BY <1>2

\* A mutation that rejected, and is not in doubt, is in no file that any later
\* open could find.
THEOREM RefusalsAreClean == Spec => []RefusedLeavesNothing
<1>1. ASSUME StoreInv PROVE RefusedLeavesNothing
  BY <1>1, ImageIs DEF RefusedLeavesNothing, Sound
<1> QED
  BY <1>1, StoreSound, PTL

\* A usable store at rest has in its index what its files say.
THEOREM IndexTrue == Spec => []IndexMatchesFiles
<1>1. StoreInv => IndexMatchesFiles
  BY DEF StoreInv, HandleSound, AtRest, Idle, IndexMatchesFiles
<1> QED
  BY <1>1, StoreSound, PTL

-----------------------------------------------------------------------------
(* Refinement *)

Shown == IF pc = "closed" \/ opening THEN NoFile ELSE index

\* What a step does to the index and to the last answer.
LEMMA StepShows ==
    ASSUME Next
    PROVE  \/ /\ committed' = committed
              /\ index' = index \/ pc = "closed" \/ pc' = "closed"
           \/ pc = "sync" /\ Commit /\ opening' = opening
<1>1. CASE Open \/ Prune \/ Create \/ SyncLogEntry \/ OpenLog \/ Mend \/ MendSync \/ Close
  BY <1>1 DEF Open, Prune, Create, SyncLogEntry, OpenLog, Mend, MendSync, Close, histVars, memVars
<1>2. CASE \E o \in Ops : Begin(o)
  BY <1>2 DEF Begin
<1>3. CASE WriteRecord \/ SyncRecord \/ Undo \/ UndoSync
  BY <1>3 DEF WriteRecord, SyncRecord, Undo, UndoSync, histVars, memVars
<1>4. CASE Compact \/ WriteSnapshot \/ SyncSnapshot \/ RenameSnapshot
           \/ SyncSnapshotEntry \/ EmptyLog \/ SyncEmptyLog
  BY <1>4 DEF Compact, WriteSnapshot, SyncSnapshot, RenameSnapshot, SyncSnapshotEntry, EmptyLog,
              SyncEmptyLog, histVars, memVars
<1>5. CASE Kill \/ PowerLoss
  BY <1>5 DEF Kill, PowerLoss, Forget, Goto, histVars
<1> QED
  BY <1>1, <1>2, <1>3, <1>4, <1>5 DEF Next

\* An open handle has in memory everything that had resolved.
OpenSound == pc # "closed" => Sound(Memory)

LEMMA MemorySound == StoreInv => OpenSound
<1> SUFFICES ASSUME StoreInv, pc # "closed" PROVE Sound(Memory)
  BY DEF OpenSound
<1>1. CASE pc \in Booting \union Compacting \union {"readonly"} \/ Idle
  <2>1. Found(<<log, snap>>) = Memory
    BY <1>1 DEF StoreInv, HandleSound, AtRest
  <2> QED
    BY <2>1, FilesRecover DEF StoreInv, FilesSound
<1>2. CASE pc \in Appending \/ (pc = "idle" /\ unavailable)
  BY <1>2, SettledIs
<1>3. \/ pc \in Booting \union Compacting \union {"readonly"} \/ Idle
      \/ pc \in Appending \/ (pc = "idle" /\ unavailable)
  BY DEF StoreInv, TypeOK, Booting, Compacting, Appending, Idle
<1> QED
  BY <1>1, <1>2, <1>3

\* A step maps to a step of DurableStore or to a stutter.
LEMMA StepImplements ==
    ASSUME EntryWithFile, StoreInv, StoreInv', OpenSound', Next
    PROVE  [Promise!Next]_<<committed, Shown>>
<1>1. index \in Seq(Ops) /\ index' \in Seq(Ops) /\ opening \in BOOLEAN /\ opening' \in BOOLEAN
  BY DEF StoreInv, TypeOK
<1>2. NoFile \notin Seq(Ops)
  BY SentinelAssumption
<1>3. CASE pc = "sync" /\ Commit /\ opening' = opening
  <2>1. cur \in Ops /\ opening = FALSE
    BY <1>3, Deciding DEF Appending
  <2>2. Shown = index /\ Shown' = Append(index, cur) /\ committed' = Shown'
    BY <1>3, <2>1 DEF Shown, Commit, Goto
  <2>3. Promise!Resolve
    BY <1>1, <1>2, <2>1, <2>2 DEF Promise!Resolve, Shown
  <2> QED
    BY <2>3 DEF Promise!Next, Shown
<1>4. CASE committed' = committed /\ (index' = index \/ pc = "closed" \/ pc' = "closed")
  <2>1. CASE Shown' = NoFile
    BY <1>4, <2>1 DEF Promise!Next, Promise!Stop, Shown
  <2>2. CASE Shown' # NoFile /\ Shown = NoFile
    <3>1. Shown' = index' /\ pc' # "closed"
      BY <2>2 DEF Shown
    <3>2. IsPrefix(committed', index')
      BY <3>1 DEF OpenSound, Sound, Memory
    <3>3. Promise!Reveal
      BY <1>1, <1>4, <2>2, <3>1, <3>2 DEF Promise!Reveal, Promise!IsPrefix, IsPrefix, Shown
    <3> QED
      BY <3>3 DEF Promise!Next, Shown
  <2>3. CASE Shown' # NoFile /\ Shown # NoFile
    <3>1. Shown' = index' /\ Shown = index /\ pc' # "closed" /\ pc # "closed"
      BY <2>3 DEF Shown
    <3> QED
      BY <1>4, <3>1
  <2> QED
    BY <2>1, <2>2, <2>3
<1> QED
  BY <1>3, <1>4, StepShows

\* Where an fsync of a file makes its directory entry durable too, open, the
\* mutations, compact and close, with their failures and with crashes,
\* implement DurableStore.
THEOREM Refinement == EntryWithFile => (Spec => ImplementsStore)
<1> SUFFICES ASSUME EntryWithFile PROVE Spec => ImplementsStore
  OBVIOUS
<1>1. Init => Promise!Init
  BY DEF Init, Promise!Init
<1>2. StoreInv /\ StoreInv' /\ OpenSound' /\ [Next]_vars => [Promise!Next]_<<committed, Shown>>
  <2>1. ASSUME StoreInv, StoreInv', OpenSound', Next PROVE [Promise!Next]_<<committed, Shown>>
    BY <2>1, StepImplements
  <2>2. ASSUME UNCHANGED vars PROVE UNCHANGED <<committed, Shown>>
    BY <2>2 DEF vars, memVars, histVars, Shown
  <2> QED
    BY <2>1, <2>2
<1>3. StoreInv /\ StoreInv' /\ OpenSound' /\ [Next]_vars => 
        [Promise!Next]_<<committed, IF pc = "closed" \/ opening THEN NoFile ELSE index>>
  BY <1>2 DEF Shown
<1> QED
  BY <1>1, <1>3, StoreSound, MemorySound, PTL DEF Spec, ImplementsStore, Promise!Spec

=============================================================================
