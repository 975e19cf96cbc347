--------------------------- MODULE BoardSyncProofs ---------------------------
(***************************************************************************)
(* Machine-checked proofs about BoardSync, for every set of documents and  *)
(* edits and every number of push attempts, faults, deletions and          *)
(* settlements: what the shared board holds always parses, no word of a    *)
(* teammate leaves it unless somebody dropped that word on purpose, and no *)
(* word of this clone's people is lost.                                    *)
(***************************************************************************)
EXTENDS BoardSync, SequenceTheorems, WellFoundedInduction, TLAPS

(***************************************************************************)
(* Numbers and sequences.                                                  *)
(***************************************************************************)

\* A set of naturals has a least element.
LEMMA LeastOf == ASSUME NEW T, T \subseteq Nat, T # {} PROVE \E m \in T : \A y \in T : m <= y
<1> DEFINE R == {ss \in Nat \X Nat : ss[1] < ss[2]}
<1>1. IsWellFoundedOn(R, Nat)
  BY NatLessThanWellFounded DEF OpToRel
<1>2. \A x, y \in Nat : x < y => <<x, y>> \in R
  <2> SUFFICES ASSUME NEW x \in Nat, NEW y \in Nat, x < y PROVE <<x, y>> \in R
    OBVIOUS
  <2> DEFINE p == <<x, y>>
  <2>1. p \in Nat \X Nat /\ p[1] = x /\ p[2] = y
    OBVIOUS
  <2> HIDE DEF p
  <2>2. p \in R
    BY <2>1
  <2>3. QED
    BY <2>2 DEF p
<1> HIDE DEF R
<1>3. PICK m \in T : \A y \in T : ~(<<y, m>> \in R)
  BY <1>1, WFMin
<1>4. ASSUME NEW y \in T PROVE m <= y
  <2>1. m \in Nat /\ y \in Nat
    OBVIOUS
  <2>2. ~(y < m)
    BY <1>2, <1>3, <2>1
  <2>3. QED
    BY <2>1, <2>2
<1>5. QED
  BY <1>4

\* Max is what it says on a bounded set of naturals.
LEMMA MaxOf == ASSUME NEW n \in Nat, NEW S \in SUBSET (0..n), S # {}
               PROVE  Max(S) \in S /\ \A y \in S : Max(S) >= y
<1> DEFINE T == {n - x : x \in S}
<1>1. T \subseteq Nat /\ T # {}
  <2>1. \A x \in S : n - x \in Nat
    OBVIOUS
  <2>2. QED
    BY <2>1
<1>2. PICK m \in T : \A y \in T : m <= y
  <2> HIDE DEF T
  <2>1. QED
    BY <1>1, LeastOf
<1>3. PICK x \in S : m = n - x
  OBVIOUS
<1>4. \A y \in S : x >= y
  <2> SUFFICES ASSUME NEW y \in S PROVE x >= y
    OBVIOUS
  <2>1. n - y \in T
    OBVIOUS
  <2>2. n - x <= n - y
    BY <1>2, <1>3, <2>1
  <2>3. QED
    BY <2>2
<1>5. QED
  BY <1>4 DEF Max

\* The tip of a history that is not empty.
LEMMA TipOf == ASSUME NEW S, NEW h \in Seq(S), h # <<>>
               PROVE  /\ Tip(h) \in S /\ Tip(h) = h[Len(h)]
                      /\ Len(h) \in Nat \ {0} /\ DOMAIN h = 1..Len(h) /\ h[1] \in S
BY DEF Tip, Last

\* A commit on top.
LEMMA OnTop == ASSUME NEW S, NEW h \in Seq(S), NEW x \in S
               PROVE  /\ Append(h, x) \in Seq(S) /\ Append(h, x) # <<>>
                      /\ Tip(Append(h, x)) = x /\ Len(Append(h, x)) = Len(h) + 1
                      /\ \A i \in 1..Len(h) : Append(h, x)[i] = h[i]
BY AppendProperties DEF Tip, Last

\* A forgotten history is its tip alone.
LEMMA Forgotten == ASSUME NEW S, NEW h \in Seq(S), h # <<>>
                   PROVE  /\ Forget(h) \in Seq(S) /\ Forget(h) # <<>> /\ Len(Forget(h)) = 1
                          /\ Forget(h)[1] = Tip(h) /\ Tip(Forget(h)) = Tip(h)
<1>1. Tip(h) \in S
  BY TipOf
<1>2. QED
  BY <1>1 DEF Forget, Tip, Last

\* A prefix agrees commit by commit.
LEMMA PrefixIs == ASSUME NEW S, NEW s \in Seq(S), NEW t \in Seq(S)
                  PROVE  IsPrefix(s, t) <=> /\ Len(s) <= Len(t)
                                            /\ \A i \in 1..Len(s) : s[i] = t[i]
<1>1. SubSeq(s, 1, Len(s)) = s
  BY SubSeqFull
<1>2. ASSUME Len(s) <= Len(t)
      PROVE  /\ SubSeq(t, 1, Len(s)) \in Seq(S) /\ Len(SubSeq(t, 1, Len(s))) = Len(s)
             /\ \A i \in 1..Len(s) : SubSeq(t, 1, Len(s))[i] = t[i]
  BY <1>2, SubSeqProperties
<1>3. QED
  BY <1>1, <1>2, SeqEqual DEF IsPrefix

\* Prefixes of prefixes, and what a history is a prefix of when it grows.
LEMMA PrefixTrans == ASSUME NEW S, NEW s \in Seq(S), NEW t \in Seq(S), NEW u \in Seq(S),
                            IsPrefix(s, t), IsPrefix(t, u)
                     PROVE  IsPrefix(s, u)
BY PrefixIs
LEMMA PrefixOnTop == ASSUME NEW S, NEW s \in Seq(S), NEW t \in Seq(S), NEW x \in S,
                            IsPrefix(s, t)
                     PROVE  IsPrefix(s, Append(t, x))
<1>1. /\ Append(t, x) \in Seq(S) /\ Len(Append(t, x)) = Len(t) + 1
      /\ \A i \in 1..Len(t) : Append(t, x)[i] = t[i]
  BY OnTop
<1> DEFINE u == Append(t, x)
<1> HIDE DEF u
<1>2. /\ u \in Seq(S) /\ Len(u) = Len(t) + 1 /\ \A i \in 1..Len(t) : u[i] = t[i]
  BY <1>1 DEF u
<1>3. IsPrefix(s, u)
  <2>1. Len(s) <= Len(t) /\ \A i \in 1..Len(s) : s[i] = t[i]
    BY PrefixIs
  <2>2. Len(s) <= Len(u) /\ \A i \in 1..Len(s) : s[i] = u[i]
    BY <1>2, <2>1
  <2>3. QED
    BY <1>2, <2>2, PrefixIs
<1>4. QED
  BY <1>3 DEF u
LEMMA PrefixSame == ASSUME NEW S, NEW s \in Seq(S) PROVE IsPrefix(s, s)
BY PrefixIs

\* Removing a copy leaves copies.
LEMMA WithoutOf == ASSUME NEW S, NEW copies \in Seq(S), NEW text
                   PROVE  /\ Without(copies, text) \in Seq(S)
                          /\ \A i \in DOMAIN Without(copies, text) :
                                \E j \in DOMAIN copies : Without(copies, text)[i] = copies[j]
<1>1. CASE text \notin ToSet(copies)
  BY <1>1 DEF Without
<1>2. CASE text \in ToSet(copies)
  <2> DEFINE k == CHOOSE i \in DOMAIN copies : copies[i] = text
             a == SubSeq(copies, 1, k - 1)
             b == SubSeq(copies, k + 1, Len(copies))
  <2>1. k \in 1..Len(copies)
    BY <1>2 DEF ToSet
  <2>2. /\ a \in Seq(S) /\ Len(a) = k - 1
        /\ \A i \in 1..(k - 1) : a[i] = copies[i]
    <3> HIDE DEF k
    <3>1. QED
      BY <2>1, SubSeqProperties
  <2>3. /\ b \in Seq(S) /\ Len(b) = Len(copies) - k
        /\ \A i \in 1..(Len(copies) - k) : b[i] = copies[k + i]
    <3> HIDE DEF k
    <3>1. QED
      BY <2>1, SubSeqProperties
  <2>4. Without(copies, text) = a \o b
    BY <1>2 DEF Without, RemoveAt
  <2> HIDE DEF a, b, k
  <2> DEFINE c == a \o b
  <2>5. /\ c \in Seq(S) /\ Len(c) = Len(a) + Len(b)
        /\ \A i \in 1..(Len(a) + Len(b)) :
              c[i] = IF i <= Len(a) THEN a[i] ELSE b[i - Len(a)]
    BY <2>2, <2>3, ConcatProperties
  <2> HIDE DEF c
  <2>6. ASSUME NEW i \in 1..Len(c) PROVE \E j \in 1..Len(copies) : c[i] = copies[j]
    <3>1. Len(copies) \in Nat /\ k \in Nat /\ Len(a) = k - 1 /\ Len(b) = Len(copies) - k
      BY <2>1, <2>2, <2>3
    <3>2. CASE i <= Len(a)
      <4>1. c[i] = copies[i] /\ i \in 1..Len(copies)
        BY <2>1, <2>2, <2>5, <3>1, <3>2
      <4>2. QED
        BY <4>1
    <3>3. CASE i > Len(a)
      <4>1. /\ i - Len(a) \in 1..(Len(copies) - k) /\ k + (i - Len(a)) \in 1..Len(copies)
            /\ c[i] = b[i - Len(a)]
        BY <2>1, <2>5, <3>1, <3>3
      <4>2. c[i] = copies[k + (i - Len(a))]
        BY <2>3, <4>1
      <4>3. QED
        BY <4>1, <4>2
    <3>4. QED
      BY <2>5, <3>1, <3>2, <3>3
  <2>7. Without(copies, text) = c
    BY <2>4 DEF c
  <2>8. DOMAIN c = 1..Len(c) /\ DOMAIN copies = 1..Len(copies)
    BY <2>5
  <2>9. QED
    BY <2>5, <2>6, <2>7, <2>8
<1>3. QED
  BY <1>1, <1>2

\* Saving a copy adds that copy.
LEMMA WithCopyOf == ASSUME NEW S, NEW copies \in Seq(S), NEW text \in S
                    PROVE  /\ WithCopy(copies, text) \in Seq(S) /\ WithCopy(copies, text) # <<>>
                           /\ \A i \in DOMAIN WithCopy(copies, text) :
                                 \/ WithCopy(copies, text)[i] = text
                                 \/ \E j \in DOMAIN copies : WithCopy(copies, text)[i] = copies[j]
BY AppendProperties DEF WithCopy

LEMMA TailOf == ASSUME NEW S, NEW s \in Seq(S), s # <<>>
                PROVE  /\ Head(s) \in S /\ Head(s) = s[1] /\ 1 \in DOMAIN s /\ Tail(s) \in Seq(S)
                       /\ \A i \in DOMAIN Tail(s) : \E j \in DOMAIN s : Tail(s)[i] = s[j]
<1>1. Head(s) \in S /\ Tail(s) \in Seq(S) /\ Len(Tail(s)) = Len(s) - 1
  BY HeadTailProperties
<1>2. \A i \in 1 .. Len(Tail(s)) : Tail(s)[i] = s[i + 1]
  BY HeadTailProperties
<1>3. QED
  BY <1>1, <1>2

(***************************************************************************)
(* Outgoing commits, and what it means to keep the words of teammates.     *)
(***************************************************************************)

\* The outgoing commits of a history that starts where upstream starts are
\* pairs of neighbours in it.
LEMMA OutgoingOf ==
    ASSUME NEW h \in Seq(Trees), NEW u \in Seq(Trees), h # <<>>, u # <<>>, h[1] = u[1]
    PROVE  /\ Outgoing(h, u) \in Seq(Commits)
           /\ \A i \in DOMAIN Outgoing(h, u) : \E j \in DOMAIN h :
                 /\ j + 1 \in DOMAIN h
                 /\ Outgoing(h, u)[i].from = h[j] /\ Outgoing(h, u)[i].to = h[j + 1]
<1> DEFINE S == {n \in 0..Len(h) : n <= Len(u) /\ SubSeq(h, 1, n) = SubSeq(u, 1, n)}
           n == Max(S)
           out == [i \in 1..(Len(h) - n) |-> [from |-> h[n + i - 1], to |-> h[n + i]]]
<1>1. S \in SUBSET (0..Len(h)) /\ 1 \in S
  <2>1. Len(h) \in Nat \ {0} /\ Len(u) \in Nat \ {0}
    BY EmptySeq
  <2>2. SubSeq(h, 1, 1) = SubSeq(u, 1, 1)
    <3>1. h[1] \in Trees /\ u[1] \in Trees
      BY <2>1, ElementOfSeq
    <3>2. /\ SubSeq(h, 1, 1) \in Seq(Trees) /\ Len(SubSeq(h, 1, 1)) = 1
          /\ SubSeq(h, 1, 1)[1] = h[1]
          /\ SubSeq(u, 1, 1) \in Seq(Trees) /\ Len(SubSeq(u, 1, 1)) = 1
          /\ SubSeq(u, 1, 1)[1] = u[1]
      BY <3>1, SubSeqProperties
    <3>3. QED
      BY <3>2, SeqEqual
  <2>3. QED
    BY <2>1, <2>2
<1>2. Len(h) \in Nat /\ DOMAIN h = 1..Len(h)
  OBVIOUS
<1>3. n \in S
  <2> HIDE DEF S
  <2>1. QED
    BY <1>1, <1>2, MaxOf
<1>4. n \in 1..Len(h)
  <2>1. \A k \in S : n >= k
    <3> HIDE DEF S
    <3>1. QED
      BY <1>1, <1>2, MaxOf
  <2>2. QED
    BY <1>1, <1>2, <1>3, <2>1
<1>5. Outgoing(h, u) = out
  BY DEF Outgoing, Shared
<1> HIDE DEF n, S
<1>6. ASSUME NEW i \in 1..(Len(h) - n)
      PROVE  /\ n + i - 1 \in DOMAIN h /\ (n + i - 1) + 1 \in DOMAIN h
             /\ out[i].from = h[n + i - 1] /\ out[i].to = h[(n + i - 1) + 1]
             /\ out[i] \in Commits
  <2>1. n + i - 1 \in 1..Len(h) /\ n + i \in 1..Len(h) /\ (n + i - 1) + 1 = n + i
    BY <1>2, <1>4
  <2>2. h[n + i - 1] \in Trees /\ h[n + i] \in Trees
    BY <1>2, <2>1, ElementOfSeq
  <2>3. QED
    BY <1>2, <2>1, <2>2 DEF Commits
<1>7. out \in Seq(Commits)
  <2>1. Len(h) - n \in Nat
    BY <1>2, <1>4
  <2>2. out \in [1..(Len(h) - n) -> Commits]
    BY <1>6
  <2> HIDE DEF out
  <2>3. QED
    BY <2>1, <2>2, SeqDef
<1>8. DOMAIN out = 1..(Len(h) - n)
  OBVIOUS
<1> HIDE DEF out
<1>9. QED
  BY <1>5, <1>6, <1>7, <1>8

\* Keeping is a preorder, and dropping more words only makes it easier.
LEMMA StillInOf == ASSUME NEW dropped
                   PROVE  /\ \A a : StillIn(dropped, a, a)
                          /\ \A a : StillIn(dropped, NoDoc, a)
                          /\ \A a, b, c : StillIn(dropped, a, b) /\ StillIn(dropped, b, c)
                                             => StillIn(dropped, a, c)
BY DEF StillIn, Text
LEMMA StillInMore == ASSUME NEW dropped, NEW more, dropped \subseteq more
                     PROVE  \A a, b : StillIn(dropped, a, b) => StillIn(more, a, b)
BY DEF StillIn
LEMMA KeptOf == ASSUME NEW dropped
                PROVE  /\ \A a : Kept(dropped, a, a)
                       /\ \A a, b, c : Kept(dropped, a, b) /\ Kept(dropped, b, c)
                                          => Kept(dropped, a, c)
BY StillInOf DEF Kept
LEMMA KeptMore == ASSUME NEW dropped, NEW more, dropped \subseteq more
                  PROVE  \A a, b : Kept(dropped, a, b) => Kept(more, a, b)
BY StillInMore DEF Kept
LEMMA GrowsMore == ASSUME NEW dropped, NEW more, dropped \subseteq more
                   PROVE  \A h : Grows(dropped, h) => Grows(more, h)
BY KeptMore DEF Grows

\* A history still grows with a commit on top that keeps what the tip holds.
LEMMA GrowsOnTop ==
    ASSUME NEW dropped, NEW h \in Seq(Trees), h # <<>>, NEW x \in Trees,
           Grows(dropped, h), Kept(dropped, Tip(h), x)
    PROVE  Grows(dropped, Append(h, x))
<1> DEFINE g == Append(h, x)
<1>1. /\ g \in Seq(Trees) /\ Len(g) = Len(h) + 1 /\ \A i \in 1..Len(h) : g[i] = h[i]
      /\ g[Len(h) + 1] = x
  BY AppendProperties
<1>2. /\ Len(h) \in Nat \ {0} /\ DOMAIN h = 1..Len(h) /\ Tip(h) = h[Len(h)]
  BY TipOf
<1>3. DOMAIN g = 1..(Len(h) + 1)
  BY <1>1, <1>2
<1> HIDE DEF g
<1>4. ASSUME NEW i \in DOMAIN g, NEW j \in DOMAIN g, i <= j
      PROVE  Kept(dropped, g[i], g[j])
  <2>1. CASE j <= Len(h)
    <3>1. i \in 1..Len(h) /\ j \in 1..Len(h)
      BY <1>2, <1>3, <1>4, <2>1
    <3>2. QED
      BY <1>1, <1>2, <1>4, <3>1 DEF Grows
  <2>2. CASE j = Len(h) + 1 /\ i = j
    BY <2>2, KeptOf
  <2>3. CASE j = Len(h) + 1 /\ i <= Len(h)
    <3>1. i \in 1..Len(h) /\ Len(h) \in 1..Len(h)
      BY <1>2, <1>3, <2>3
    <3>2. Kept(dropped, h[i], Tip(h))
      BY <1>2, <2>3, <3>1 DEF Grows
    <3>3. QED
      BY <1>1, <2>3, <3>1, <3>2, KeptOf
  <2>4. QED
    BY <1>2, <1>3, <1>4, <2>1, <2>2, <2>3
<1>5. QED
  BY <1>4 DEF Grows, g

LEMMA GrowsForgotten == ASSUME NEW dropped, NEW h \in Seq(Trees), h # <<>>
                        PROVE  Grows(dropped, Forget(h))
<1>1. DOMAIN Forget(h) = {1}
  BY Forgotten
<1>2. QED
  BY <1>1, KeptOf DEF Grows

\* The tip of a prefix is kept by the tip of the whole.
LEMMA PrefixKept ==
    ASSUME NEW dropped, NEW s \in Seq(Trees), NEW t \in Seq(Trees), s # <<>>,
           IsPrefix(s, t), Grows(dropped, t)
    PROVE  t # <<>> /\ Kept(dropped, Tip(s), Tip(t))
<1>1. Len(s) \in Nat \ {0} /\ Tip(s) = s[Len(s)] /\ Len(s) <= Len(t) /\ s[Len(s)] = t[Len(s)]
  BY TipOf, PrefixIs
<1>2. t # <<>>
  BY <1>1, EmptySeq
<1>3. Tip(t) = t[Len(t)] /\ DOMAIN t = 1..Len(t) /\ Len(t) \in Nat
  BY <1>2, TipOf
<1>4. QED
  BY <1>1, <1>2, <1>3 DEF Grows

\* One document of a tree replaced.
LEMMA KeptOne ==
    ASSUME NEW dropped, NEW a, NEW b \in Trees, NEW d \in Docs, NEW x,
           Kept(dropped, a, b), StillIn(dropped, a[d], x)
    PROVE  Kept(dropped, a, [b EXCEPT ![d] = x])
BY DEF Kept, Trees
LEMMA KeptFrom ==
    ASSUME NEW dropped, NEW a \in Trees, NEW b, NEW d \in Docs, NEW x,
           Kept(dropped, a, b), StillIn(dropped, x, b[d])
    PROVE  Kept(dropped, [a EXCEPT ![d] = x], b)
BY DEF Kept, Trees

\* Git's checkout keeps what the tree holds, and adds at most untracked files.
LEMMA CheckoutKeeps ==
    ASSUME NEW dropped, NEW tree
    PROVE  /\ Kept(dropped, tree, Checkout(tree))
           /\ \A c : Kept(dropped, tree, c) /\ Kept(dropped, wt, c) => Kept(dropped, Checkout(tree), c)
<1>1. \A d \in Docs : Checkout(tree)[d] = tree[d] \/ (Checkout(tree)[d] = wt[d] /\ tree[d] = NoDoc)
  BY DEF Checkout
<1>2. QED
  BY <1>1, StillInOf DEF Kept

(***************************************************************************)
(* Types.                                                                  *)
(***************************************************************************)

LEMMA TextOf == ASSUME NEW doc \in Texts
                PROVE  Text(doc) \in SUBSET Edits /\ (doc # NoDoc => doc \in SUBSET Edits /\ Text(doc) = doc)
<1>1. CASE doc = NoDoc
  BY <1>1 DEF Text
<1>2. CASE doc \in SUBSET Edits /\ doc # NoDoc
  BY <1>2 DEF Text
<1>3. QED
  BY <1>1, <1>2 DEF Texts

LEMMA SetsAreTexts == ASSUME NEW text \in SUBSET Edits PROVE text \in Texts /\ text # NoDoc
BY BoardAssumption DEF Texts

LEMMA CheckoutType == ASSUME NEW tree \in Trees, wt \in Trees PROVE Checkout(tree) \in Trees
BY DEF Checkout, Trees

LEMMA MergedType == ASSUME NEW base \in Texts, NEW up \in Texts, NEW my \in Texts
                    PROVE  Merged(base, up, my) \in Texts
<1>1. Text(base) \in SUBSET Edits /\ Text(up) \in SUBSET Edits /\ Text(my) \in SUBSET Edits
  BY TextOf
<1>2. (Text(up) \cap Text(my)) \cup (Text(up) \ Text(base)) \cup (Text(my) \ Text(base)) \in Texts
  BY <1>1, SetsAreTexts
<1>3. \/ Merged(base, up, my) \in {up, my}
      \/ Merged(base, up, my) = (Text(up) \cap Text(my)) \cup (Text(up) \ Text(base))
                                   \cup (Text(my) \ Text(base))
  BY DEF Merged
<1>4. QED
  BY <1>2, <1>3

\* What the typed state says about the next commit to replay.
LEMMA PickTypes ==
    ASSUME TypeOK, reb.todo # <<>>, reb.head # <<>>
    PROVE  /\ Head(reb.todo) \in Commits /\ Head(reb.todo) = reb.todo[1] /\ 1 \in DOMAIN reb.todo
           /\ Tail(reb.todo) \in Seq(Commits)
           /\ \A i \in DOMAIN Tail(reb.todo) : \E j \in DOMAIN reb.todo : Tail(reb.todo)[i] = reb.todo[j]
           /\ Tip(reb.head) \in Trees /\ PickTree \in Trees /\ PickConflicts \in SUBSET Docs
<1>1. reb.todo \in Seq(Commits) /\ reb.head \in Seq(Trees)
  BY DEF TypeOK
<1>2. Tip(reb.head) \in Trees
  BY <1>1, TipOf
<1>3. /\ Head(reb.todo) \in Commits /\ Head(reb.todo) = reb.todo[1] /\ 1 \in DOMAIN reb.todo
      /\ Tail(reb.todo) \in Seq(Commits)
      /\ \A i \in DOMAIN Tail(reb.todo) : \E j \in DOMAIN reb.todo : Tail(reb.todo)[i] = reb.todo[j]
  BY <1>1, TailOf
<1>4. PickTree \in Trees
  <2> DEFINE pick == Head(reb.todo)
             up == Tip(reb.head)
  <2>1. \A d \in Docs : pick.from[d] \in Texts /\ pick.to[d] \in Texts /\ up[d] \in Texts
    BY <1>2, <1>3 DEF Commits, Trees
  <2>2. ASSUME NEW d \in Docs
        PROVE  /\ Text(up[d]) \cup Text(pick.to[d]) \in Texts
               /\ Merged(pick.from[d], up[d], pick.to[d]) \in Texts
    BY <2>1, TextOf, SetsAreTexts, MergedType
  <2>3. PickTree = [d \in Docs |-> IF d \in PickConflicts THEN Text(up[d]) \cup Text(pick.to[d])
                                   ELSE Merged(pick.from[d], up[d], pick.to[d])]
    BY DEF PickTree
  <2> HIDE DEF pick, up
  <2>4. QED
    BY <2>2, <2>3 DEF Trees
<1>5. PickConflicts \in SUBSET Docs
  BY DEF PickConflicts
<1>6. QED
  BY <1>2, <1>3, <1>4, <1>5

\* Aborting a rebase, skipping a commit and fast-forwarding keep the types.
LEMMA AbortTypes == ASSUME TypeOK, Abort
                    PROVE  reb' = NoRebase /\ index' \in Trees /\ wt' \in Trees /\ branch' = branch
<1>1. Tip(branch) \in Trees
  BY TipOf DEF TypeOK
<1>2. QED
  BY <1>1, CheckoutType DEF Abort, TypeOK
LEMMA SkipTypes == ASSUME TypeOK, reb.head # <<>>, SkipCommit
                   PROVE  index' \in Trees /\ wt' \in Trees
<1>1. Tip(reb.head) \in Trees
  BY TipOf DEF TypeOK
<1>2. QED
  BY <1>1, CheckoutType DEF SkipCommit, TypeOK
LEMMA ForwardTypes == ASSUME TypeOK, FastForward
                      PROVE  /\ branch' \in {branch, ref} /\ reb' = reb
                             /\ index' \in Trees /\ wt' \in Trees
<1>1. Tip(ref) \in Trees
  BY TipOf DEF TypeOK
<1>2. QED
  BY <1>1 DEF FastForward, TypeOK, clone, Trees

LEMMA NoRebaseType == NoRebase \in [head : Seq(Trees), todo : Seq(Commits), mine : Trees \cup {<<>>},
                                    unmerged : SUBSET Docs]
<1>1. <<>> \in Seq(Trees) /\ <<>> \in Seq(Commits)
  BY EmptySeq
<1>2. QED
  BY <1>1 DEF NoRebase
LEMMA IdleType == Idle \in [pc : PCs, tries : 1..PushAttempts, doc : Docs \cup {NoDoc},
                            stopped : BOOLEAN, carried : Trees, head : Seq(Trees)]
<1>1. <<>> \in Seq(Trees)
  BY EmptySeq
<1>2. NothingCarried \in Trees
  <2>1. NoDoc \in Texts
    BY DEF Texts
  <2>2. QED
    BY <2>1 DEF NothingCarried, Trees
<1>3. 1 \in 1..PushAttempts
  BY BoardAssumption
<1>4. QED
  BY <1>1, <1>2, <1>3 DEF Idle, PCs

\* The clone's view of origin starts where origin and the branch start.
LEMMA RootOf == ASSUME TypeOK, OneBoard PROVE ref[1] = origin[1] /\ branch[1] = ref[1]
<1>1. ref \in Seq(Trees) /\ ref # <<>> /\ origin \in Seq(Trees) /\ IsPrefix(ref, origin)
  BY DEF TypeOK, OneBoard
<1>2. Len(ref) \in Nat \ {0}
  BY <1>1, TipOf
<1>3. ref[1] = origin[1]
  BY <1>1, <1>2, PrefixIs
<1>4. QED
  BY <1>3 DEF OneBoard

\* One action at a time: what holds of every action holds of every step.
LEMMA Steps == ASSUME [Next]_vars
               PROVE  \/ UNCHANGED vars
                      \/ HealRebase
                      \/ CheckWorktree
                      \/ ClassifyCopies
                      \/ RemoveCarriedCopies
                      \/ StageAll
                      \/ CommitStaged
                      \/ HeldFetch
                      \/ HeldMerge
                      \/ FetchOrigin
                      \/ StartRebase
                      \/ PickCommit
                      \/ FinishRebase
                      \/ LookAtStop
                      \/ ExportMine
                      \/ KeepUpstream
                      \/ ContinueRebase
                      \/ ContinueRefused
                      \/ HoldMalformed
                      \/ ReadHead
                      \/ PushHead
                      \/ Crash
                      \/ NetworkFails
                      \/ PushAnswerLost
                      \/ LoopFails
                      \/ PullFetch
                      \/ PullMerge
                      \/ \E e \in Edits : Teammate(e) \/ Edit(e) \/ Mend(e)
                      \/ \E d \in Docs : TeammateDeletes(d) \/ Delete(d) \/ ReadDocument(d) \/ MergeByHand(d)
                      \/ Abandon
                      \/ Keep
                      \/ Take
                      \/ Revise
                      \/ Discard
BY DEF Next, SyncStep

\* Every step keeps the types.
LEMMA TypeStep == TypeOK /\ RebaseFits /\ OneBoard /\ [Next]_vars => TypeOK'
<1> SUFFICES ASSUME TypeOK, RebaseFits, OneBoard, [Next]_vars PROVE TypeOK'
  OBVIOUS
<1> DEFINE RebType == [head : Seq(Trees), todo : Seq(Commits), mine : Trees \cup {<<>>},
                       unmerged : SUBSET Docs]
           SyncType == [pc : PCs, tries : 1..PushAttempts, doc : Docs \cup {NoDoc},
                        stopped : BOOLEAN, carried : Trees, head : Seq(Trees)]
<1>types. /\ origin \in Seq(Trees) /\ origin # <<>> /\ ref \in Seq(Trees) /\ ref # <<>>
          /\ branch \in Seq(Trees) /\ branch # <<>> /\ index \in Trees /\ wt \in Trees
          /\ reb \in RebType /\ sync \in SyncType /\ pull \in {"idle", "merge"}
          /\ saved \in [Docs -> Seq(SUBSET Edits)]
          /\ job \in Jobs \cup {NoJob} /\ overrun \subseteq retired
          /\ made \subseteq Edits /\ retired \subseteq Edits /\ exposed \subseteq Edits
          /\ faults \in Nat /\ deletes \in Nat /\ settles \in Nat
          /\ NoRebase \in RebType /\ Idle \in SyncType
  BY NoRebaseType, IdleType DEF TypeOK
<1>goal. ASSUME origin' \in Seq(Trees), origin' # <<>>, ref' \in Seq(Trees), ref' # <<>>,
                branch' \in Seq(Trees), branch' # <<>>, index' \in Trees, wt' \in Trees,
                reb' \in RebType, sync' \in SyncType, pull' \in {"idle", "merge"},
                saved' \in [Docs -> Seq(SUBSET Edits)],
                job' \in Jobs \cup {NoJob}, overrun' \subseteq retired',
                made' \subseteq Edits, retired' \subseteq Edits, exposed' \subseteq Edits,
                faults' \in Nat, deletes' \in Nat, settles' \in Nat
         PROVE  TypeOK'
  BY <1>goal DEF TypeOK
<1>pc. ASSUME NEW p \in PCs PROVE [sync EXCEPT !.pc = p] \in SyncType
  BY <1>types
<1>goto. ASSUME NEW p \in PCs, Goto(p) PROVE sync' \in SyncType
  BY <1>pc, <1>goto DEF Goto
<1>end. ASSUME End PROVE sync' \in SyncType
  BY <1>types, <1>end DEF End
<1>tips. /\ Tip(origin) \in Trees /\ Tip(ref) \in Trees /\ Tip(branch) \in Trees
         /\ Tip(origin) \in [Docs -> Texts] /\ Tip(ref) \in [Docs -> Texts] /\ wt \in [Docs -> Texts]
         /\ \A d \in Docs : Tip(origin)[d] \in Texts /\ Tip(ref)[d] \in Texts /\ wt[d] \in Texts
  BY <1>types, TipOf DEF Trees
<1>one. ASSUME NEW tree \in Trees, NEW d \in Docs, NEW text \in Texts
        PROVE  [tree EXCEPT ![d] = text] \in Trees
  BY DEF Trees
<1>docs. ASSUME NEW e \in Edits PROVE DocOf[e] \in Docs
  BY BoardAssumption
<1>empty. NoDoc \in Texts /\ \A text \in SUBSET Edits : text \in Texts
  BY DEF Texts
<1>in. PCs = {"pick", "stop", "export", "keep", "continue", "idle", "check", "classify", "remove",
              "stage", "commit", "heldFetch", "heldMerge", "fetch", "rebase", "hold", "head", "push"}
  BY DEF PCs, RebasePCs
<1> HIDE DEF RebType, SyncType
<1>discard. ASSUME NEW d \in Docs, NEW copies \in Seq(SUBSET Edits), copies # <<>>, DiscardFrom(d, copies)
            PROVE  saved' \in [Docs -> Seq(SUBSET Edits)] /\ sync' \in SyncType
  <2>1. Tail(copies) \in Seq(SUBSET Edits) /\ Head(copies) \in SUBSET Edits
    BY <1>discard, TailOf
  <2>2. saved' \in [Docs -> Seq(SUBSET Edits)]
    BY <1>types, <1>discard, <2>1 DEF DiscardFrom
  <2>3. sync' \in SyncType
    <3>1. sync.carried \in Trees
      BY <1>types DEF SyncType
    <3>2. [sync.carried EXCEPT ![d] = IF sync.carried[d] = Head(copies) THEN NoDoc ELSE sync.carried[d]]
             \in Trees
      BY <1>empty, <3>1 DEF Trees
    <3>3. sync' = [sync EXCEPT !.carried = [sync.carried EXCEPT ![d] =
                       IF sync.carried[d] = Head(copies) THEN NoDoc ELSE sync.carried[d]]]
      BY <1>types, <1>discard DEF DiscardFrom, SyncType
    <3>4. QED
      BY <1>types, <3>2, <3>3 DEF SyncType
  <2>4. QED
    BY <2>2, <2>3

<1>0. CASE UNCHANGED vars
  BY <1>0, <1>types, <1>goal DEF vars
<1>1. CASE HealRebase
  <2>1. sync' \in SyncType
    BY <1>1, <1>goto, <1>in DEF HealRebase
  <2>2. reb' \in RebType /\ index' \in Trees /\ wt' \in Trees /\ branch' = branch
    BY <1>1, <1>types, AbortTypes DEF HealRebase, clone
  <2>3. QED
    BY <1>1, <1>types, <1>goal, <2>1, <2>2 DEF HealRebase, people
<1>2. CASE CheckWorktree
  BY <1>2, <1>types, <1>goal, <1>goto, <1>end, <1>in DEF CheckWorktree, clone, people
<1>3. CASE ClassifyCopies
  <2>1. [d \in Docs |-> IF \E i \in DOMAIN saved[d] : CopyIsCarried(saved[d][i], wt[d])
                       THEN wt[d] ELSE NoDoc] \in Trees
    BY <1>tips, <1>empty DEF Trees
  <2>2. sync' \in SyncType
    BY <1>3, <1>types, <1>in, <2>1 DEF ClassifyCopies, SyncType
  <2>3. QED
    BY <1>3, <1>types, <1>goal, <2>2 DEF ClassifyCopies, clone, people
<1>4. CASE RemoveCarriedCopies
  <2>1. sync' \in SyncType
    BY <1>4, <1>types, <1>in, <1>empty DEF RemoveCarriedCopies, SyncType, NothingCarried, Trees
  <2>2. saved' \in [Docs -> Seq(SUBSET Edits)]
    <3>1. \A d \in Docs : Without(saved[d], sync.carried[d]) \in Seq(SUBSET Edits)
      BY <1>types, WithoutOf
    <3>2. QED
      BY <1>4, <3>1 DEF RemoveCarriedCopies
  <2>3. QED
    BY <1>4, <1>types, <1>goal, <2>1, <2>2 DEF RemoveCarriedCopies, clone, people
<1>5. CASE StageAll
  BY <1>5, <1>types, <1>goal, <1>goto, <1>end, <1>in DEF StageAll, clone, people
<1>6. CASE CommitStaged
  <2>1. sync' \in SyncType
    BY <1>6, <1>goto, <1>in DEF CommitStaged
  <2>2. branch' \in Seq(Trees) /\ branch' # <<>> /\ index' \in Trees
    <3>1. Append(branch, index) \in Seq(Trees) /\ Append(branch, index) # <<>>
      BY <1>types, OnTop
    <3>2. \/ branch' = branch /\ index' = index
          \/ branch' = branch /\ index' = Tip(branch)
          \/ branch' = Append(branch, index) /\ index' = index
      BY <1>6 DEF CommitStaged
    <3>3. QED
      BY <1>types, <1>tips, <3>1, <3>2
  <2>3. QED
    BY <1>6, <1>types, <1>goal, <2>1, <2>2 DEF CommitStaged, people
<1>7. CASE HeldFetch
  BY <1>7, <1>types, <1>goal, <1>goto, <1>end, <1>in DEF HeldFetch, clone, people
<1>8. CASE HeldMerge
  <2>1. branch' \in {branch, ref} /\ reb' = reb /\ index' \in Trees /\ wt' \in Trees
    BY <1>8, ForwardTypes DEF HeldMerge
  <2>2. QED
    BY <1>8, <1>types, <1>goal, <1>end, <2>1 DEF HeldMerge, people
<1>9. CASE FetchOrigin
  BY <1>9, <1>types, <1>goal, <1>goto, <1>end, <1>in DEF FetchOrigin, clone, people
<1>10. CASE StartRebase
  <2>1. sync' \in SyncType
    BY <1>10, <1>goto, <1>end, <1>in DEF StartRebase
  <2>2. reb' \in RebType /\ index' \in Trees /\ wt' \in Trees /\ branch' = branch
    <3>1. CASE UNCHANGED clone
      BY <1>types, <3>1 DEF clone
    <3>2. CASE /\ reb' = [NoRebase EXCEPT !.head = ref, !.todo = Outgoing(branch, ref)]
               /\ index' = Tip(ref) /\ wt' = Checkout(Tip(ref)) /\ UNCHANGED branch
      <4>1. Outgoing(branch, ref) \in Seq(Commits)
        BY <1>types, OutgoingOf, RootOf
      <4>2. QED
        BY <1>types, <1>tips, <3>2, <4>1, CheckoutType DEF RebType
    <3>3. QED
      BY <1>10, <3>1, <3>2 DEF StartRebase
  <2>3. QED
    BY <1>10, <1>types, <1>goal, <2>1, <2>2 DEF StartRebase, people
<1>11. CASE PickCommit
  <2>1. reb.head # <<>> /\ reb.todo # <<>>
    BY <1>11 DEF PickCommit, RebaseFits, At, RebasePCs
  <2>2. sync' \in SyncType
    BY <1>11, <1>types, <1>in DEF PickCommit, SyncType
  <2>3. /\ Head(reb.todo) \in Commits /\ Tail(reb.todo) \in Seq(Commits)
        /\ PickTree \in Trees /\ PickConflicts \in SUBSET Docs
    BY <2>1, PickTypes
  <2>4. index' \in Trees /\ wt' \in Trees
    BY <1>11, <1>types, <2>3, CheckoutType DEF PickCommit
  <2>5. reb' \in RebType
    <3>1. reb.head \in Seq(Trees) /\ Append(reb.head, PickTree) \in Seq(Trees)
      BY <1>types, <2>3, OnTop DEF RebType
    <3>2. Head(reb.todo).to \in Trees
      BY <2>3 DEF Commits
    <3>3. QED
      BY <1>11, <2>3, <3>1, <3>2 DEF PickCommit, RebType
  <2>6. QED
    BY <1>11, <1>types, <1>goal, <2>2, <2>4, <2>5 DEF PickCommit, people
<1>12. CASE FinishRebase
  <2>1. reb.head # <<>> /\ reb.head \in Seq(Trees)
    BY <1>12, <1>types DEF FinishRebase, RebaseFits, At, RebasePCs, RebType
  <2>2. sync' \in SyncType
    BY <1>12, <1>goto, <1>end, <1>in DEF FinishRebase
  <2>3. QED
    BY <1>12, <1>types, <1>goal, <2>1, <2>2 DEF FinishRebase, people
<1>13. CASE LookAtStop
  <2>1. reb.head # <<>>
    BY <1>13 DEF LookAtStop, RebaseFits, At, RebasePCs
  <2>2. sync' \in SyncType
    BY <1>13, <1>goto, <1>in DEF LookAtStop
  <2>3. index' \in Trees /\ wt' \in Trees /\ branch' = branch /\ reb' = reb
    <3>1. CASE SkipCommit
      BY <2>1, <3>1, SkipTypes DEF SkipCommit
    <3>2. CASE UNCHANGED clone
      BY <1>types, <3>2 DEF clone
    <3>3. QED
      BY <1>13, <3>1, <3>2 DEF LookAtStop
  <2>4. QED
    BY <1>13, <1>types, <1>goal, <2>2, <2>3 DEF LookAtStop, people
<1>14. CASE ExportMine
  <2>1. PICK d \in reb.unmerged :
           /\ sync' = [sync EXCEPT !.pc = "keep", !.doc = d]
           /\ saved' = IF ExportedVersion(d) = NoDoc THEN saved
                       ELSE [saved EXCEPT ![d] = WithCopy(@, ExportedVersion(d))]
    BY <1>14 DEF ExportMine
  <2>2. d \in Docs
    BY <1>types DEF RebType
  <2>3. sync' \in SyncType
    BY <1>types, <1>in, <2>1, <2>2 DEF SyncType
  <2>4. saved' \in [Docs -> Seq(SUBSET Edits)]
    <3>1. CASE ExportedVersion(d) = NoDoc
      BY <1>types, <2>1, <3>1
    <3>2. CASE ExportedVersion(d) # NoDoc
      <4>1. ExportedVersion(d) \in Texts
        BY <2>2 DEF ExportedVersion, RebaseFits, Trees
      <4>2. ExportedVersion(d) \in SUBSET Edits
        BY <3>2, <4>1, TextOf
      <4>3. WithCopy(saved[d], ExportedVersion(d)) \in Seq(SUBSET Edits)
        BY <1>types, <2>2, <4>2, WithCopyOf
      <4>4. saved' = [saved EXCEPT ![d] = WithCopy(saved[d], ExportedVersion(d))]
        BY <2>1, <3>2
      <4>5. QED
        BY <1>types, <2>2, <4>3, <4>4
    <3>3. QED
      BY <3>1, <3>2
  <2>5. QED
    BY <1>14, <1>types, <1>goal, <2>3, <2>4 DEF ExportMine, clone, people
<1>15. CASE KeepUpstream
  <2>1. sync.doc \in Docs
    BY <1>15, <1>types DEF KeepUpstream, RebaseFits, At, RebType
  <2>2. sync' \in SyncType
    BY <1>15, <1>types, <1>in DEF KeepUpstream, SyncType
  <2>3. index' \in Trees /\ wt' \in Trees
    BY <1>15, <1>types, <1>tips, <1>one, <2>1 DEF KeepUpstream, UpstreamVersion
  <2>4. reb' \in RebType
    BY <1>15, <1>types DEF KeepUpstream, RebType
  <2>5. QED
    BY <1>15, <1>types, <1>goal, <2>2, <2>3, <2>4 DEF KeepUpstream, people
<1>16. CASE ContinueRebase
  <2>1. reb.head \in Seq(Trees) /\ Append(reb.head, index) \in Seq(Trees)
    BY <1>types, OnTop DEF RebType
  <2>2. reb' \in RebType
    BY <1>16, <1>types, <2>1 DEF ContinueRebase, RebType
  <2>3. sync' \in SyncType
    BY <1>16, <1>goto, <1>in DEF ContinueRebase
  <2>4. QED
    BY <1>16, <1>types, <1>goal, <2>2, <2>3 DEF ContinueRebase, people
<1>17. CASE ContinueRefused
  BY <1>17, <1>types, <1>goal, <1>goto, <1>end, <1>in DEF ContinueRefused, clone, people
<1>18. CASE HoldMalformed
  BY <1>18, <1>types, <1>goal, <1>goto, <1>end, <1>in DEF HoldMalformed, clone, people
<1>19. CASE ReadHead
  <2>1. sync' \in SyncType
    BY <1>19, <1>types, <1>in DEF ReadHead, SyncType
  <2>2. QED
    BY <1>19, <1>types, <1>goal, <2>1 DEF ReadHead, clone, people
<1>20. CASE PushHead
  <2>1. sync' \in SyncType
    <3>1. CASE End
      BY <1>end, <3>1
    <3>2. CASE MayRetry /\ sync' = [Idle EXCEPT !.pc = "fetch", !.tries = sync.tries + 1]
      <4>1. sync.tries \in 1..PushAttempts /\ PushAttempts \in Nat
        BY <1>types, BoardAssumption DEF SyncType
      <4>2. sync.tries + 1 \in 1..PushAttempts
        BY <3>2, <4>1 DEF MayRetry
      <4>3. Idle \in SyncType
        BY <1>types
      <4>4. QED
        BY <1>in, <3>2, <4>2, <4>3 DEF SyncType
    <3>3. QED
      BY <1>20, <3>1, <3>2 DEF PushHead
  <2>2. /\ origin' \in Seq(Trees) /\ origin' # <<>> /\ ref' \in Seq(Trees) /\ ref' # <<>>
        /\ branch' \in Seq(Trees) /\ branch' # <<>>
    <3>1. CASE UNCHANGED <<origin, ref, branch>>
      BY <1>types, <3>1
    <3>2. CASE /\ IsPrefix(origin, sync.head)
               /\ origin' = IF branch = sync.head THEN Forget(sync.head) ELSE sync.head
               /\ ref' = origin'
               /\ branch' = IF branch = sync.head THEN Forget(branch) ELSE branch
      <4>1. sync.head \in Seq(Trees) /\ sync.head # <<>>
        BY <1>20, <1>types DEF PushHead, OneBoard, At, SyncType
      <4>2. Forget(sync.head) \in Seq(Trees) /\ Forget(sync.head) # <<>>
        BY <4>1, Forgotten
      <4>3. QED
        BY <1>types, <3>2, <4>1, <4>2
    <3>3. QED
      BY <1>20, <3>1, <3>2 DEF PushHead
  <2>3. QED
    BY <1>20, <1>types, <1>goal, <2>1, <2>2 DEF PushHead, people
<1>21. CASE Crash
  BY <1>21, <1>types, <1>goal, <1>goto, <1>end, <1>in, BoardAssumption DEF Crash, clone, people, Fault
<1>22. CASE NetworkFails
  BY <1>22, <1>types, <1>goal, <1>goto, <1>end, <1>in, BoardAssumption DEF NetworkFails, clone, people, Fault
<1>23. CASE PushAnswerLost
  <2>1. sync.head \in Seq(Trees) /\ sync.head # <<>>
    BY <1>23, <1>types DEF PushAnswerLost, OneBoard, At, SyncType
  <2>2. QED
    BY <1>23, <1>types, <1>goal, <1>end, <2>1 DEF PushAnswerLost, clone, people, Fault
<1>24. CASE LoopFails
  <2>1. reb' \in RebType /\ index' \in Trees /\ wt' \in Trees /\ branch' = branch
    BY <1>24, <1>types, AbortTypes DEF LoopFails
  <2>2. QED
    BY <1>24, <1>types, <1>goal, <1>end, <2>1 DEF LoopFails, people, Fault
<1>25. CASE PullFetch
  BY <1>25, <1>types, <1>goal, <1>goto, <1>end, <1>in DEF PullFetch, clone, people
<1>26. CASE PullMerge
  <2>1. branch' \in {branch, ref} /\ reb' = reb /\ index' \in Trees /\ wt' \in Trees
    BY <1>26, ForwardTypes DEF PullMerge
  <2>2. QED
    BY <1>26, <1>types, <1>goal, <2>1 DEF PullMerge, people
<1>27. ASSUME NEW e \in Edits, Teammate(e) PROVE TypeOK'
  <2>1. DocOf[e] \in Docs /\ e \in Edits
    BY <1>docs
  <2>2. Text(Tip(origin)[DocOf[e]]) \cup {e} \in Texts
    BY <1>tips, <1>empty, <2>1, TextOf
  <2>3. [Tip(origin) EXCEPT ![DocOf[e]] = Text(@) \cup {e}] \in Trees
    BY <1>tips, <1>one, <2>1, <2>2
  <2>4. origin' \in Seq(Trees) /\ origin' # <<>>
    BY <1>27, <1>types, <2>3, OnTop DEF Teammate
  <2>5. QED
    BY <1>27, <1>types, <1>goal, <2>4 DEF Teammate, clone
<1>28. ASSUME NEW e \in Edits, Edit(e) PROVE TypeOK'
  <2>1. DocOf[e] \in Docs /\ wt[DocOf[e]] \in SUBSET Edits
    BY <1>28, <1>docs, <1>tips, TextOf DEF Edit
  <2>2. wt' \in Trees
    BY <1>28, <1>types, <1>one, <1>empty, <2>1 DEF Edit, Write
  <2>3. QED
    BY <1>28, <1>types, <1>goal, <2>2 DEF Edit
<1>29. ASSUME NEW e \in Edits, Mend(e) PROVE TypeOK'
  <2>1. DocOf[e] \in Docs /\ wt[DocOf[e]] \in SUBSET Edits
    <3>1. wt[DocOf[e]] # NoDoc
      BY <1>29, BoardAssumption DEF Mend, Broken, Text
    <3>2. QED
      BY <1>docs, <1>tips, <3>1, TextOf
  <2>2. wt' \in Trees
    BY <1>29, <1>types, <1>one, <1>empty, <2>1 DEF Mend, Write
  <2>3. QED
    BY <1>29, <1>types, <1>goal, <2>2 DEF Mend
<1>30. ASSUME NEW d \in Docs, TeammateDeletes(d) PROVE TypeOK'
  <2>1. [Tip(origin) EXCEPT ![d] = NoDoc] \in Trees
    BY <1>tips, <1>one, <1>empty
  <2>2. origin' \in Seq(Trees) /\ origin' # <<>>
    BY <1>30, <1>types, <2>1, OnTop DEF TeammateDeletes
  <2>3. Tip(origin)[d] \in SUBSET Edits
    BY <1>30, <1>tips, TextOf DEF TeammateDeletes
  <2>4. QED
    BY <1>30, <1>types, <1>goal, <2>2, <2>3 DEF TeammateDeletes, clone
<1>31. ASSUME NEW d \in Docs, Delete(d) PROVE TypeOK'
  <2>1. wt' \in Trees
    BY <1>31, <1>types, <1>one, <1>empty DEF Delete, Write
  <2>2. wt[d] \in SUBSET Edits
    BY <1>31, <1>tips, TextOf DEF Delete
  <2>3. QED
    BY <1>31, <1>types, <1>goal, <2>1, <2>2 DEF Delete
<1>32. ASSUME NEW d \in Docs, ReadDocument(d) PROVE TypeOK'
  <2>1. Head(saved[d]) \in SUBSET Edits
    BY <1>32, <1>types, TailOf DEF ReadDocument, Settling
  <2>2. job' \in Jobs
    BY <1>32, <1>tips, <2>1 DEF ReadDocument, Jobs
  <2>3. QED
    BY <1>32, <1>types, <1>goal, <2>2 DEF ReadDocument, Settling, clone
<1>33. ASSUME NEW d \in Docs, MergeByHand(d) PROVE TypeOK'
  <2>1. Head(saved[d]) \in SUBSET Edits /\ wt[d] \in SUBSET Edits
    BY <1>33, <1>types, <1>tips, TailOf, TextOf DEF MergeByHand, Settling
  <2>2. wt' \in Trees
    BY <1>33, <1>types, <1>one, <1>empty, <2>1 DEF MergeByHand, Write
  <2>3. QED
    BY <1>33, <1>types, <1>goal, <2>2 DEF MergeByHand, Settling
<1>34. CASE Abandon
  BY <1>34, <1>types, <1>goal DEF Abandon, clone
<1>read. ASSUME job # NoJob
         PROVE  /\ job \in Jobs /\ job.doc \in Docs /\ job.text \in SUBSET Edits
                /\ job.present \in Texts /\ job.remote \in Texts
  BY <1>read, <1>types DEF Jobs
<1>over. ASSUME job # NoJob, NEW doc \in Texts, NEW meant \in SUBSET Edits, NEW seen,
                Overwrite(doc, meant, seen)
         PROVE  /\ wt' \in Trees /\ job' \in Jobs
                /\ overrun' \subseteq retired' /\ retired' \subseteq Edits
  <2>1. Text(wt[job.doc]) \subseteq Edits
    BY <1>read, <1>over, <1>tips, TextOf
  <2>2. wt' \in Trees
    BY <1>read, <1>over, <1>types, <1>one DEF Overwrite, Write
  <2>3. job' \in Jobs
    BY <1>read, <1>over DEF Overwrite, Jobs
  <2>4. QED
    BY <1>over, <1>types, <2>1, <2>2, <2>3 DEF Overwrite
<1>leave. ASSUME job # NoJob, NEW meant \in SUBSET Edits, LeaveDocument(meant)
          PROVE  /\ wt' = wt /\ job' \in Jobs
                 /\ overrun' \subseteq retired' /\ retired' \subseteq Edits
  BY <1>read, <1>leave, <1>types DEF LeaveDocument, Jobs
<1>35. CASE Keep
  <2>1. job # NoJob /\ job.text \in SUBSET Edits /\ job.text \in Texts
    BY <1>35, <1>read, <1>empty DEF Keep, Judging
  <2>2. (Text(job.present) \cap Text(job.remote)) \ job.text \in SUBSET Edits
    BY <1>read, <2>1, TextOf
  <2>3. /\ wt' \in Trees /\ job' \in Jobs
        /\ overrun' \subseteq retired' /\ retired' \subseteq Edits
    BY <1>35, <1>over, <2>1, <2>2 DEF Keep
  <2>4. QED
    BY <1>35, <1>types, <1>goal, <2>3 DEF Keep
<1>36. CASE Take
  <2>1. job # NoJob /\ job.doc \in Docs /\ job.text \in SUBSET Edits
    BY <1>36, <1>read DEF Take, Judging
  <2> DEFINE meant == job.text \ (Text(job.remote) \cap Text(Tip(ref)[job.doc]))
             doc == IF job.remote = NoDoc THEN NoDoc ELSE Tip(ref)[job.doc]
  <2>2. meant \in SUBSET Edits /\ doc \in Texts
    BY <1>tips, <1>empty, <2>1
  <2>3. saved' \in [Docs -> Seq(SUBSET Edits)]
    <3>1. CASE TakeWouldErase
      <4>1. saved[job.doc] \in Seq(SUBSET Edits) /\ job.present \in SUBSET Edits
        BY <1>read, <1>types, <2>1, <3>1, TextOf DEF TakeWouldErase
      <4>2. WithCopy(saved[job.doc], job.present) \in Seq(SUBSET Edits)
        BY <4>1, WithCopyOf
      <4>3. QED
        BY <1>36, <1>types, <3>1, <4>2 DEF Take
    <3>2. CASE ~TakeWouldErase
      BY <1>36, <1>types, <3>2 DEF Take
    <3>3. QED
      BY <3>1, <3>2
  <2>4. \/ LeaveDocument(meant)
        \/ job' = NoJob /\ UNCHANGED <<wt, retired, overrun>>
        \/ Overwrite(doc, meant, SavedFirst)
    BY <1>36 DEF Take
  <2> HIDE DEF meant, doc
  <2>5. /\ wt' \in Trees /\ job' \in Jobs \cup {NoJob}
        /\ overrun' \subseteq retired' /\ retired' \subseteq Edits
    BY <1>types, <1>over, <1>leave, <2>1, <2>2, <2>4
  <2>6. QED
    BY <1>36, <1>types, <1>goal, <2>3, <2>5 DEF Take
<1>37. CASE Revise
  <2>1. job # NoJob /\ job.text \ job.present \in SUBSET Edits
    BY <1>37, <1>read DEF Revise, Judging
  <2>2. /\ wt' = wt /\ job' \in Jobs
        /\ overrun' \subseteq retired' /\ retired' \subseteq Edits
    BY <1>37, <1>leave, <2>1 DEF Revise
  <2>3. QED
    BY <1>37, <1>types, <1>goal, <2>2 DEF Revise
<1>38. CASE Discard
  <2>1. job # NoJob /\ job.doc \in Docs /\ job.text \in SUBSET Edits /\ job' = NoJob
    BY <1>38, <1>read DEF Discard
  <2>2. saved[job.doc] \in Seq(SUBSET Edits)
    BY <1>types, <2>1
  <2>3. /\ saved' \in [Docs -> Seq(SUBSET Edits)] /\ sync' \in SyncType
        /\ overrun' \subseteq retired' /\ retired' \subseteq Edits
    <3>1. CASE saved[job.doc] # <<>> /\ Head(saved[job.doc]) = job.text
      <4>1. DiscardFrom(job.doc, saved[job.doc])
        BY <1>38, <3>1 DEF Discard
      <4>2. saved' \in [Docs -> Seq(SUBSET Edits)] /\ sync' \in SyncType
        BY <1>discard, <2>1, <2>2, <3>1, <4>1
      <4>3. QED
        BY <1>38, <1>types, <2>1, <3>1, <4>2 DEF Discard
    <3>2. CASE ~(saved[job.doc] # <<>> /\ Head(saved[job.doc]) = job.text)
      BY <1>38, <1>types, <3>2 DEF Discard
    <3>3. QED
      BY <3>1, <3>2
  <2>4. QED
    BY <1>38, <1>types, <1>goal, <2>1, <2>3 DEF Discard, clone
<1>39. QED
  BY <1>0, <1>1, <1>2, <1>3, <1>4, <1>5, <1>6, <1>7, <1>8, <1>9, <1>10, <1>11, <1>12, <1>13, <1>14, <1>15, <1>16, <1>17, <1>18, <1>19, <1>20, <1>21, <1>22, <1>23, <1>24, <1>25, <1>26, <1>27, <1>28, <1>29, <1>30, <1>31, <1>32, <1>33, <1>34, <1>35, <1>36, <1>37, <1>38, Steps

\* A rebase stays where it belongs.
LEMMA RebaseFitsStep == TypeOK /\ RebaseFits /\ [Next]_vars => RebaseFits'
<1> SUFFICES ASSUME TypeOK, RebaseFits, [Next]_vars PROVE RebaseFits'
  OBVIOUS
<1>types. /\ sync \in [pc : PCs, tries : 1..PushAttempts, doc : Docs \cup {NoDoc},
                       stopped : BOOLEAN, carried : Trees, head : Seq(Trees)]
          /\ reb \in [head : Seq(Trees), todo : Seq(Commits), mine : Trees \cup {<<>>},
                      unmerged : SUBSET Docs]
          /\ NoRebase.head = <<>> /\ NoRebase.unmerged = {} /\ Idle.pc = "idle"
  BY DEF TypeOK, NoRebase, Idle
<1>pcs. RebasePCs = {"pick", "stop", "export", "keep", "continue"}
  BY DEF RebasePCs
<1>goal. ASSUME reb' # NoRebase => reb'.head # <<>> /\ sync'.pc \in RebasePCs \cup {"idle"},
                sync'.pc \in RebasePCs => reb' # NoRebase,
                reb'.unmerged # {} => reb'.mine \in Trees,
                sync'.pc = "keep" => sync'.doc \in reb'.unmerged,
                sync'.pc = "continue" => reb'.unmerged = {}
         PROVE  RebaseFits'
  BY <1>goal DEF RebaseFits, InRebase, At
<1>now. /\ reb # NoRebase => reb.head # <<>> /\ sync.pc \in RebasePCs \cup {"idle"}
        /\ sync.pc \in RebasePCs => reb # NoRebase
        /\ reb.unmerged # {} => reb.mine \in Trees
        /\ sync.pc = "keep" => sync.doc \in reb.unmerged
        /\ sync.pc = "continue" => reb.unmerged = {}
  BY DEF RebaseFits, InRebase, At
<1> HIDE DEF RebasePCs, RebaseFits
<1>same. ASSUME reb' = reb, sync'.pc = sync.pc, sync'.doc = sync.doc PROVE RebaseFits'
  BY <1>same, <1>now, <1>goal
<1>quiet. ASSUME reb' = reb, sync.pc \notin RebasePCs \cup {"idle"}, sync'.pc \notin RebasePCs
          PROVE  RebaseFits'
  BY <1>quiet, <1>now, <1>goal, <1>pcs
<1>end. ASSUME reb' = reb \/ reb' = NoRebase, sync' = Idle PROVE RebaseFits'
  BY <1>end, <1>now, <1>goal, <1>pcs, <1>types
<1>none. ASSUME reb' = NoRebase, sync'.pc \notin RebasePCs PROVE RebaseFits'
  BY <1>none, <1>goal, <1>pcs, <1>types
<1>goto. ASSUME NEW p, Goto(p) PROVE sync'.pc = p /\ sync'.doc = sync.doc
  BY <1>goto, <1>types DEF Goto
<1>0. CASE UNCHANGED vars
  BY <1>0, <1>same DEF vars
<1>1. CASE HealRebase
  <2>1. sync'.pc \notin RebasePCs
    BY <1>1, <1>pcs, <1>goto DEF HealRebase
  <2>2. reb' = NoRebase
    BY <1>1 DEF HealRebase, Abort, InRebase, clone
  <2>3. QED
    BY <1>none, <2>1, <2>2
<1>2. CASE CheckWorktree
  <2>1. reb' = reb /\ sync.pc \notin RebasePCs \cup {"idle"}
    BY <1>2, <1>pcs DEF CheckWorktree, At, clone
  <2>2. sync'.pc \notin RebasePCs
    BY <1>2, <1>pcs, <1>goto, <1>types DEF CheckWorktree, At, End
  <2>3. QED
    BY <1>quiet, <2>1, <2>2
<1>3. CASE ClassifyCopies
  <2>1. reb' = reb /\ sync.pc \notin RebasePCs \cup {"idle"}
    BY <1>3, <1>pcs DEF ClassifyCopies, At, clone
  <2>2. sync'.pc \notin RebasePCs
    BY <1>3, <1>pcs, <1>goto, <1>types DEF ClassifyCopies, At, End
  <2>3. QED
    BY <1>quiet, <2>1, <2>2
<1>4. CASE RemoveCarriedCopies
  <2>1. reb' = reb /\ sync.pc \notin RebasePCs \cup {"idle"}
    BY <1>4, <1>pcs DEF RemoveCarriedCopies, At, clone
  <2>2. sync'.pc \notin RebasePCs
    BY <1>4, <1>pcs, <1>goto, <1>types DEF RemoveCarriedCopies, At, End
  <2>3. QED
    BY <1>quiet, <2>1, <2>2
<1>5. CASE StageAll
  <2>1. reb' = reb /\ sync.pc \notin RebasePCs \cup {"idle"}
    BY <1>5, <1>pcs DEF StageAll, At, clone
  <2>2. sync'.pc \notin RebasePCs
    BY <1>5, <1>pcs, <1>goto, <1>types DEF StageAll, At, End
  <2>3. QED
    BY <1>quiet, <2>1, <2>2
<1>6. CASE CommitStaged
  <2>1. reb' = reb /\ sync.pc \notin RebasePCs \cup {"idle"}
    BY <1>6, <1>pcs DEF CommitStaged, At, clone
  <2>2. sync'.pc \notin RebasePCs
    BY <1>6, <1>pcs, <1>goto, <1>types DEF CommitStaged, At, End
  <2>3. QED
    BY <1>quiet, <2>1, <2>2
<1>7. CASE HeldFetch
  <2>1. reb' = reb /\ sync.pc \notin RebasePCs \cup {"idle"}
    BY <1>7, <1>pcs DEF HeldFetch, At, clone
  <2>2. sync'.pc \notin RebasePCs
    BY <1>7, <1>pcs, <1>goto, <1>types DEF HeldFetch, At, End
  <2>3. QED
    BY <1>quiet, <2>1, <2>2
<1>8. CASE FetchOrigin
  <2>1. reb' = reb /\ sync.pc \notin RebasePCs \cup {"idle"}
    BY <1>8, <1>pcs DEF FetchOrigin, At, clone
  <2>2. sync'.pc \notin RebasePCs
    BY <1>8, <1>pcs, <1>goto, <1>types DEF FetchOrigin, At, End
  <2>3. QED
    BY <1>quiet, <2>1, <2>2
<1>9. CASE HoldMalformed
  <2>1. reb' = reb /\ sync.pc \notin RebasePCs \cup {"idle"}
    BY <1>9, <1>pcs DEF HoldMalformed, At, clone
  <2>2. sync'.pc \notin RebasePCs
    BY <1>9, <1>pcs, <1>goto, <1>types DEF HoldMalformed, At, End
  <2>3. QED
    BY <1>quiet, <2>1, <2>2
<1>10. CASE ReadHead
  <2>1. reb' = reb /\ sync.pc \notin RebasePCs \cup {"idle"}
    BY <1>10, <1>pcs DEF ReadHead, At, clone
  <2>2. sync'.pc \notin RebasePCs
    BY <1>10, <1>pcs, <1>goto, <1>types DEF ReadHead, At, End
  <2>3. QED
    BY <1>quiet, <2>1, <2>2
<1>11. CASE HeldMerge
  <2>1. reb' = reb
    BY <1>11 DEF HeldMerge, FastForward, clone
  <2>2. QED
    BY <1>11, <1>end, <2>1 DEF HeldMerge, End
<1>12. CASE StartRebase
  <2>1. sync.pc \notin RebasePCs \cup {"idle"}
    BY <1>12, <1>pcs DEF StartRebase, At
  <2>2. CASE reb' = reb /\ (End \/ Goto("hold"))
    <3>1. sync'.pc \notin RebasePCs
      BY <1>pcs, <1>goto, <1>types, <2>2 DEF End
    <3>2. QED
      BY <1>quiet, <2>1, <2>2, <3>1
  <2>3. CASE Goto("pick") /\ reb' = [NoRebase EXCEPT !.head = ref, !.todo = Outgoing(branch, ref)]
    <3>1. reb'.head = ref /\ reb'.unmerged = {} /\ ref # <<>>
      BY <2>3 DEF NoRebase, TypeOK
    <3>2. reb' # NoRebase
      BY <1>types, <3>1
    <3>3. sync'.pc = "pick"
      BY <1>goto, <2>3
    <3>4. QED
      BY <1>goal, <1>pcs, <3>1, <3>2, <3>3
  <2>4. QED
    BY <1>12, <2>2, <2>3 DEF StartRebase, clone
<1>13. CASE PickCommit
  <2>1. reb.head # <<>> /\ reb.todo # <<>> /\ sync.pc = "pick"
    BY <1>13, <1>now, <1>pcs DEF PickCommit, At
  <2>2. Head(reb.todo) \in Commits /\ PickTree \in Trees
    BY <2>1, PickTypes
  <2>3. Head(reb.todo).to \in Trees
    BY <2>2 DEF Commits
  <2>4. reb'.head # <<>>
    <3>1. Append(reb.head, PickTree) # <<>>
      BY <1>types, <2>2, OnTop
    <3>2. QED
      BY <1>13, <2>1, <3>1 DEF PickCommit
  <2>5. reb' # NoRebase
    BY <1>types, <2>4
  <2>6. sync'.pc \in {"pick", "stop"}
    BY <1>13, <1>types, <2>1 DEF PickCommit
  <2>7. reb'.unmerged # {} => reb'.mine \in Trees
    BY <1>13, <2>3 DEF PickCommit
  <2>8. QED
    BY <1>goal, <1>pcs, <2>4, <2>5, <2>6, <2>7
<1>14. CASE FinishRebase
  <2>1. sync'.pc \notin RebasePCs
    BY <1>14, <1>pcs, <1>goto, <1>types DEF FinishRebase, End
  <2>2. QED
    BY <1>14, <1>none, <2>1 DEF FinishRebase
<1>15. CASE LookAtStop
  <2>1. reb' = reb /\ reb # NoRebase
    BY <1>15, <1>now, <1>pcs DEF LookAtStop, SkipCommit, clone, At
  <2>2. sync'.pc \in {"pick", "export"}
    BY <1>15, <1>goto DEF LookAtStop
  <2>3. QED
    BY <1>goal, <1>now, <1>pcs, <2>1, <2>2
<1>16. CASE ExportMine
  <2>1. reb' = reb /\ reb # NoRebase
    BY <1>16, <1>now, <1>pcs DEF ExportMine, clone, At
  <2>2. sync'.pc = "keep" /\ sync'.doc \in reb.unmerged
    BY <1>16, <1>types DEF ExportMine
  <2>3. QED
    BY <1>goal, <1>now, <1>pcs, <2>1, <2>2
<1>17. CASE KeepUpstream
  <2>1. reb # NoRebase /\ sync.doc \in reb.unmerged
    BY <1>17, <1>now, <1>pcs DEF KeepUpstream, At
  <2>2. /\ reb'.head = reb.head /\ reb'.mine = reb.mine
        /\ reb'.unmerged = reb.unmerged \ {sync.doc}
        /\ sync'.pc = IF reb.unmerged = {sync.doc} THEN "continue" ELSE "export"
    BY <1>17, <1>types DEF KeepUpstream
  <2>3. reb' # NoRebase
    BY <1>types, <1>now, <2>1, <2>2
  <2>4. QED
    BY <1>goal, <1>now, <1>pcs, <2>1, <2>2, <2>3
<1>18. CASE ContinueRebase
  <2>1. reb # NoRebase /\ reb.unmerged = {} /\ reb.head # <<>>
    BY <1>18, <1>now, <1>pcs DEF ContinueRebase, At
  <2>2. Append(reb.head, index) # <<>>
    <3>1. index \in Trees
      BY DEF TypeOK
    <3>2. QED
      BY <1>types, <3>1, OnTop
  <2>3. reb'.head # <<>> /\ reb'.unmerged = reb.unmerged
    BY <1>18, <1>types, <2>1, <2>2 DEF ContinueRebase
  <2>4. sync'.pc = "pick"
    BY <1>18, <1>goto DEF ContinueRebase
  <2>5. reb' # NoRebase
    BY <1>types, <2>3
  <2>6. QED
    BY <1>goal, <1>pcs, <2>1, <2>3, <2>4, <2>5
<1>19. CASE ContinueRefused
  <2>1. reb' = reb /\ reb # NoRebase
    BY <1>19, <1>now, <1>pcs DEF ContinueRefused, clone, At
  <2>2. sync'.pc = "stop"
    BY <1>19, <1>goto DEF ContinueRefused
  <2>3. QED
    BY <1>goal, <1>now, <1>pcs, <2>1, <2>2
<1>20. CASE PushHead
  <2>1. reb' = reb /\ sync.pc \notin RebasePCs \cup {"idle"}
    BY <1>20, <1>pcs DEF PushHead, At
  <2>2. sync'.pc \in {"idle", "fetch"}
    BY <1>20, <1>types DEF PushHead, End, Idle
  <2>3. QED
    BY <1>quiet, <1>pcs, <2>1, <2>2
<1>21. CASE Crash
  BY <1>21, <1>end DEF Crash, End, clone
<1>22. CASE NetworkFails
  BY <1>22, <1>end DEF NetworkFails, End, clone
<1>23. CASE PushAnswerLost
  BY <1>23, <1>end DEF PushAnswerLost, End, clone
<1>24. CASE LoopFails
  BY <1>24, <1>end DEF LoopFails, End, Abort
<1>25. CASE PullFetch
  BY <1>25, <1>same DEF PullFetch, clone
<1>26. CASE PullMerge
  <2>1. reb' = reb
    BY <1>26 DEF PullMerge, FastForward, clone
  <2>2. QED
    BY <1>26, <1>same, <2>1 DEF PullMerge
<1>27. ASSUME NEW e \in Edits, Teammate(e) PROVE RebaseFits'
  BY <1>27, <1>same DEF Teammate, clone
<1>28. ASSUME NEW e \in Edits, Edit(e) PROVE RebaseFits'
  BY <1>28, <1>same DEF Edit
<1>29. ASSUME NEW e \in Edits, Mend(e) PROVE RebaseFits'
  BY <1>29, <1>same DEF Mend
<1>30. ASSUME NEW d \in Docs, TeammateDeletes(d) PROVE RebaseFits'
  BY <1>30, <1>same DEF TeammateDeletes, clone
<1>31. ASSUME NEW d \in Docs, Delete(d) PROVE RebaseFits'
  BY <1>31, <1>same DEF Delete
<1>32. ASSUME NEW d \in Docs, MergeByHand(d) PROVE RebaseFits'
  BY <1>32, <1>same DEF MergeByHand
<1>33. ASSUME NEW d \in Docs, ReadDocument(d) PROVE RebaseFits'
  BY <1>33, <1>same DEF ReadDocument, clone
<1>34. CASE Abandon
  BY <1>34, <1>same DEF Abandon, clone
<1>35. CASE Keep
  BY <1>35, <1>same DEF Keep
<1>36. CASE Take
  BY <1>36, <1>same DEF Take
<1>37. CASE Revise
  BY <1>37, <1>same DEF Revise
<1>38. CASE Discard
  <2>1. sync'.pc = sync.pc /\ sync'.doc = sync.doc
    BY <1>38, <1>types DEF Discard, DiscardFrom
  <2>2. QED
    BY <1>38, <1>same, <2>1 DEF Discard, clone
<1>39. QED
  BY <1>0, <1>1, <1>2, <1>3, <1>4, <1>5, <1>6, <1>7, <1>8, <1>9, <1>10, <1>11, <1>12, <1>13, <1>14, <1>15, <1>16, <1>17, <1>18, <1>19, <1>20, <1>21, <1>22, <1>23, <1>24, <1>25, <1>26, <1>27, <1>28, <1>29, <1>30, <1>31, <1>32, <1>33, <1>34, <1>35, <1>36, <1>37, <1>38, Steps

(***************************************************************************)
(* The parts about what commits and trees hold.                            *)
(***************************************************************************)

Content == /\ OneBoard /\ HistoriesGrow /\ StagedOnTop
           /\ CameThroughRef /\ PublishedInPlace /\ PushParses

\* The typed state, at the tips and at the trees.
LEMMA Shapes ==
    ASSUME TypeOK
    PROVE  /\ origin \in Seq(Trees) /\ origin # <<>> /\ ref \in Seq(Trees) /\ ref # <<>>
           /\ branch \in Seq(Trees) /\ branch # <<>> /\ index \in Trees /\ wt \in Trees
           /\ Tip(origin) \in Trees /\ Tip(ref) \in Trees /\ Tip(branch) \in Trees
           /\ reb \in [head : Seq(Trees), todo : Seq(Commits), mine : Trees \cup {<<>>},
                       unmerged : SUBSET Docs]
           /\ saved \in [Docs -> Seq(SUBSET Edits)]
           /\ sync \in [pc : PCs, tries : 1..PushAttempts, doc : Docs \cup {NoDoc},
                        stopped : BOOLEAN, carried : Trees, head : Seq(Trees)]
           /\ NoRebase.head = <<>> /\ NoRebase.todo = <<>> /\ NoRebase.unmerged = {}
           /\ Idle.head = <<>> /\ Idle.pc = "idle"
BY TipOf DEF TypeOK, NoRebase, Idle

\* What the clone's view of origin holds, origin holds.
LEMMA RefKept == ASSUME TypeOK, OneBoard, HistoriesGrow PROVE Kept(retired, Tip(ref), Tip(origin))
BY Shapes, PrefixKept DEF OneBoard, HistoriesGrow

LEMMA GrowsEmpty == ASSUME NEW dropped PROVE Grows(dropped, <<>>)
BY DEF Grows

\* Steps that add no commit: they may fetch, end a rebase or a run, drop words
\* and let the people here write.
LEMMA Frame ==
    ASSUME TypeOK, Content, origin' = origin, branch' = branch, ref' = ref \/ ref' = origin,
           \/ reb' = NoRebase
           \/ InRebase /\ reb'.head = reb.head /\ reb'.todo = reb.todo
           \/ reb' = reb,
           \/ sync'.pc = sync.pc /\ sync'.head = sync.head
           \/ sync'.pc \notin {"head", "push"} /\ sync'.head \in {sync.head, <<>>},
           retired \subseteq retired', made' \subseteq made \cup Mine
    PROVE  OneBoard' /\ HistoriesGrow' /\ PublishedInPlace' /\ PushParses'
<1>1. OneBoard'
  <2>1. IsPrefix(ref', origin')
    <3>1. IsPrefix(origin, origin) /\ IsPrefix(ref, origin)
      BY Shapes, PrefixSame DEF Content, OneBoard
    <3>2. QED
      BY <3>1
  <2>2. InRebase' => reb'.head[1] = origin'[1]
    BY DEF Content, OneBoard, InRebase
  <2>3. At("push")' => sync'.head # <<>> /\ sync'.head[1] = origin'[1]
    BY DEF Content, OneBoard, At
  <2>4. QED
    BY <2>1, <2>2, <2>3 DEF Content, OneBoard
<1>2. HistoriesGrow'
  <2>1. Grows(retired', origin') /\ Grows(retired', branch')
    BY GrowsMore DEF Content, HistoriesGrow
  <2>2. (reb'.head = reb.head /\ reb'.todo = reb.todo) \/ (reb'.head = <<>> /\ reb'.todo = <<>>)
    BY Shapes
  <2>3. Grows(retired', reb'.head)
    BY <2>2, GrowsMore, GrowsEmpty DEF Content, HistoriesGrow
  <2>4. Grows(retired', sync'.head)
    BY GrowsMore, GrowsEmpty DEF Content, HistoriesGrow
  <2>5. \A i \in DOMAIN reb'.todo : Kept(retired', reb'.todo[i].from, reb'.todo[i].to)
    BY <2>2, KeptMore DEF Content, HistoriesGrow
  <2>6. QED
    BY <2>1, <2>3, <2>4, <2>5 DEF HistoriesGrow
<1>3. PublishedInPlace'
  BY BoardAssumption DEF Content, PublishedInPlace
<1>4. PushParses'
  <2>1. Parses(Tip(origin)) /\ Parses(Tip(ref))
    BY DEF Content, PushParses
  <2>2. At("head")' => Parses(Tip(branch'))
    BY DEF Content, PushParses, At
  <2>3. At("push")' => Parses(Tip(sync'.head))
    BY DEF Content, PushParses, At
  <2>4. QED
    BY <2>1, <2>2, <2>3 DEF PushParses
<1>5. QED
  BY <1>1, <1>2, <1>3, <1>4

\* The trees of the clone, when a step replaces the worktree, the staged tree
\* and the saved copies, and words may have been dropped.
LEMMA TreesFrame ==
    ASSUME TypeOK, Content, branch' = branch, Kept(retired, Tip(ref), Tip(ref')),
           reb' = reb \/ (~InRebase' /\ reb'.todo = <<>> /\ reb'.unmerged = {})
             \/ (InRebase /\ InRebase' /\ reb'.head = reb.head /\ reb'.todo = reb.todo
                   /\ reb'.mine = reb.mine /\ reb'.unmerged \subseteq reb.unmerged),
           retired \subseteq retired',
           Kept(retired', index', wt'), Kept(retired', wt', Tip(ref')),
           IF InRebase' THEN Kept(retired', Tip(reb.head), index') ELSE Kept(retired', Tip(branch), index'),
           \A d \in Docs : \A i \in DOMAIN saved'[d] : StillIn(retired', saved'[d][i], Tip(ref')[d])
    PROVE  StagedOnTop' /\ CameThroughRef'
<1>1. StagedOnTop'
  <2>1. InRebase' => reb'.head = reb.head
    OBVIOUS
  <2>2. IF InRebase' THEN Kept(retired', Tip(reb'.head), index') ELSE Kept(retired', Tip(branch'), index')
    BY <2>1
  <2>3. QED
    BY <2>2 DEF StagedOnTop
<1>2. CameThroughRef'
  <2>1. \A t : Kept(retired, t, Tip(ref)) => Kept(retired', t, Tip(ref'))
    BY KeptOf, KeptMore
  <2>2. Kept(retired', Tip(branch'), Tip(ref'))
    BY <2>1 DEF Content, CameThroughRef
  <2>3. \A i \in DOMAIN reb'.todo : Kept(retired', reb'.todo[i].to, Tip(ref'))
    BY <2>1 DEF Content, CameThroughRef
  <2>4. reb'.unmerged # {} => Kept(retired', reb'.mine, Tip(ref'))
    BY <2>1 DEF Content, CameThroughRef
  <2>5. QED
    BY <2>2, <2>3, <2>4 DEF CameThroughRef
<1>3. QED
  BY <1>1, <1>2

\* A step that touches no tree of the clone, whether it fetches or not.
LEMMA TreesStay ==
    ASSUME TypeOK, Content, UNCHANGED <<branch, index, wt, saved, reb>>,
           ref' = ref \/ ref' = origin, retired \subseteq retired'
    PROVE  StagedOnTop' /\ CameThroughRef'
<1>1. Kept(retired, Tip(ref), Tip(ref'))
  BY RefKept, KeptOf DEF Content
<1>2. \A a, b : Kept(retired, a, b) => Kept(retired', a, b)
  BY KeptMore
<1>3. Kept(retired', index', wt')
  BY <1>2 DEF Content, StagedOnTop
<1>4. Kept(retired', wt', Tip(ref'))
  BY <1>1, <1>2, KeptOf DEF Content, CameThroughRef
<1>5. IF InRebase' THEN Kept(retired', Tip(reb.head), index') ELSE Kept(retired', Tip(branch), index')
  BY <1>2 DEF Content, StagedOnTop, InRebase
<1>6. \A d \in Docs : \A i \in DOMAIN saved'[d] : StillIn(retired', saved'[d][i], Tip(ref')[d])
  <2> SUFFICES ASSUME NEW d \in Docs, NEW i \in DOMAIN saved[d]
               PROVE  StillIn(retired', saved[d][i], Tip(ref')[d])
    OBVIOUS
  <2>1. StillIn(retired, saved[d][i], Tip(ref)[d])
    BY DEF Content, CameThroughRef
  <2>2. StillIn(retired, Tip(ref)[d], Tip(ref')[d])
    BY <1>1 DEF Kept
  <2>3. QED
    BY <2>1, <2>2, StillInOf, StillInMore
<1>7. QED
  BY <1>1, <1>3, <1>4, <1>5, <1>6, TreesFrame

LEMMA GrowsPrefix ==
    ASSUME NEW dropped, NEW s \in Seq(Trees), NEW t \in Seq(Trees), IsPrefix(s, t), Grows(dropped, t)
    PROVE  Grows(dropped, s)
<1>1. Len(s) <= Len(t) /\ \A i \in 1..Len(s) : s[i] = t[i]
  BY PrefixIs
<1>2. \A i \in DOMAIN s : i \in DOMAIN t /\ s[i] = t[i]
  BY <1>1
<1>3. QED
  BY <1>2 DEF Grows

\* A write of one document of the worktree, by a person or by a settlement.
LEMMA WriteContent ==
    ASSUME TypeOK, Content, NEW d \in Docs, NEW text,
           UNCHANGED <<origin, ref, branch, index, reb>>, wt' = [wt EXCEPT ![d] = text],
           sync'.pc = sync.pc, sync'.head = sync.head,
           retired \subseteq retired', made' \subseteq made \cup Mine,
           StillIn(retired', wt[d], text), StillIn(retired', text, Tip(ref)[d]),
           \A c \in Docs : \A i \in DOMAIN saved'[c] : StillIn(retired', saved'[c][i], Tip(ref)[c])
    PROVE  Content'
<1>1. \A a, b : Kept(retired, a, b) => Kept(retired', a, b)
  BY KeptMore
<1>2. Kept(retired', wt, wt')
  <2>1. Kept(retired', wt, wt) /\ wt \in Trees
    BY KeptOf, Shapes
  <2>2. QED
    BY <2>1, KeptOne
<1>3. Kept(retired', index', wt')
  BY <1>1, <1>2, KeptOf DEF Content, StagedOnTop
<1>4. Kept(retired', wt', Tip(ref'))
  <2>1. Kept(retired', wt, Tip(ref)) /\ wt \in Trees
    BY <1>1, Shapes DEF Content, CameThroughRef
  <2>2. Kept(retired', [wt EXCEPT ![d] = text], Tip(ref))
    BY <2>1, KeptFrom
  <2>3. QED
    BY <2>2
<1>5. IF InRebase' THEN Kept(retired', Tip(reb.head), index') ELSE Kept(retired', Tip(branch), index')
  BY <1>1 DEF Content, StagedOnTop, InRebase
<1>6. Kept(retired, Tip(ref), Tip(ref'))
  BY KeptOf
<1>7. StagedOnTop' /\ CameThroughRef'
  BY <1>3, <1>4, <1>5, <1>6, TreesFrame
<1>8. OneBoard' /\ HistoriesGrow' /\ PublishedInPlace' /\ PushParses'
  BY Frame
<1>9. QED
  BY <1>7, <1>8 DEF Content

\* The copies left once the oldest is discarded.
LEMMA Discarded ==
    ASSUME TypeOK, NEW d \in Docs, NEW copies \in Seq(SUBSET Edits), copies # <<>>, DiscardFrom(d, copies)
    PROVE  /\ sync'.pc = sync.pc /\ sync'.head = sync.head
           /\ \A c \in Docs : \/ c # d /\ saved'[c] = saved[c]
                              \/ c = d /\ \A i \in DOMAIN saved'[c] :
                                             \E j \in DOMAIN copies : saved'[c][i] = copies[j]
<1>1. \A i \in DOMAIN Tail(copies) : \E j \in DOMAIN copies : Tail(copies)[i] = copies[j]
  BY TailOf
<1>2. sync'.pc = sync.pc /\ sync'.head = sync.head
  BY Shapes DEF DiscardFrom
<1>3. \A c \in Docs : saved'[c] = IF c = d THEN Tail(copies) ELSE saved[c]
  BY Shapes DEF DiscardFrom
<1>4. QED
  BY <1>1, <1>2, <1>3

\* Every saved copy holds what the clone's view of origin holds.
LEMMA CopiesCame == ASSUME Content
                    PROVE  \A c \in Docs : \A i \in DOMAIN saved[c] : StillIn(retired, saved[c][i], Tip(ref)[c])
BY DEF Content, CameThroughRef

\* A run that stands where no rebase is, stands outside a rebase.
LEMMA NoRebaseAt == ASSUME RebaseFits, sync.pc \notin RebasePCs \cup {"idle"}
                    PROVE  ~InRebase /\ reb = NoRebase
BY DEF RebaseFits, InRebase

\* The rebase is aborted.
LEMMA AbortContent ==
    ASSUME TypeOK, Content, Abort, UNCHANGED <<origin, ref, saved, made, retired>>,
           sync'.pc \notin {"head", "push"}, sync'.head \in {sync.head, <<>>}
    PROVE  Content'
<1>1. reb' = NoRebase /\ branch' = branch /\ index' = Tip(branch) /\ wt' = Checkout(Tip(branch))
  BY DEF Abort
<1>2. ~InRebase' /\ reb'.todo = <<>> /\ reb'.unmerged = {}
  BY <1>1, Shapes DEF InRebase
<1>3. Kept(retired', index', wt')
  BY <1>1, CheckoutKeeps
<1>4. Kept(retired', wt', Tip(ref'))
  BY <1>1, CheckoutKeeps DEF Content, CameThroughRef
<1>5. Kept(retired', Tip(branch), index') /\ Kept(retired, Tip(ref), Tip(ref'))
  BY <1>1, KeptOf
<1>6. \A d \in Docs : \A i \in DOMAIN saved'[d] : StillIn(retired', saved'[d][i], Tip(ref')[d])
  BY CopiesCame
<1>7. StagedOnTop' /\ CameThroughRef'
  BY <1>1, <1>2, <1>3, <1>4, <1>5, <1>6, TreesFrame
<1>8. OneBoard' /\ HistoriesGrow' /\ PublishedInPlace' /\ PushParses'
  BY <1>1, Frame
<1>9. QED
  BY <1>7, <1>8 DEF Content

\* A fast-forward: the branch is the clone's view of origin.
LEMMA ForwardContent ==
    ASSUME TypeOK, Content, FastForward, UNCHANGED <<origin, ref, saved, made, retired>>,
           \/ sync'.pc = sync.pc /\ sync'.head = sync.head
           \/ sync'.pc \notin {"head", "push"} /\ sync'.head = <<>>
    PROVE  Content'
<1>1. CASE UNCHANGED clone
  <2>1. UNCHANGED <<branch, index, wt, reb>>
    BY <1>1 DEF clone
  <2>2. StagedOnTop' /\ CameThroughRef'
    BY <2>1, TreesStay
  <2>3. OneBoard' /\ HistoriesGrow' /\ PublishedInPlace' /\ PushParses'
    BY <2>1, Frame
  <2>4. QED
    BY <2>2, <2>3 DEF Content
<1>2. CASE MayFastForward /\ ~UNCHANGED clone
  <2>1. /\ ~InRebase /\ branch' = ref /\ reb' = reb
        /\ index' = [d \in Docs |-> IF d \in Incoming THEN Tip(ref)[d] ELSE index[d]]
        /\ wt' = [d \in Docs |-> IF d \in Incoming THEN Tip(ref)[d] ELSE wt[d]]
    BY <1>2 DEF FastForward, MayFastForward
  <2>2. ~InRebase' /\ ~(sync'.pc = "push" /\ sync'.pc # sync.pc)
    BY <2>1 DEF InRebase
  <2>3. Kept(retired, index, wt) /\ Kept(retired, Tip(branch), index) /\ Kept(retired, wt, Tip(ref))
    BY <2>1 DEF Content, StagedOnTop, CameThroughRef
  <2>4. Kept(retired, index', wt')
    BY <2>1, <2>3, StillInOf DEF Kept
  <2>5. Kept(retired, Tip(ref), index')
    <3>1. \A d \in Docs : d \notin Incoming => Tip(ref)[d] = Tip(branch)[d]
      BY DEF Incoming
    <3>2. QED
      BY <2>1, <2>3, <3>1, StillInOf DEF Kept
  <2>6. Kept(retired, wt', Tip(ref))
    BY <2>1, <2>3, StillInOf DEF Kept
  <2>7. StagedOnTop'
    BY <2>1, <2>2, <2>4, <2>5 DEF StagedOnTop
  <2>8. CameThroughRef'
    BY <2>1, <2>6, KeptOf DEF Content, CameThroughRef
  <2>9. OneBoard'
    BY <2>1, <2>2, RootOf DEF Content, OneBoard, At
  <2>10. HistoriesGrow'
    <3>1. Grows(retired, ref)
      BY Shapes, GrowsPrefix DEF Content, OneBoard, HistoriesGrow
    <3>2. Grows(retired, sync'.head)
      BY GrowsEmpty DEF Content, HistoriesGrow
    <3>3. QED
      BY <2>1, <3>1, <3>2 DEF Content, HistoriesGrow
  <2>11. PublishedInPlace' /\ PushParses'
    BY <2>1, <2>2 DEF Content, PublishedInPlace, PushParses, At
  <2>12. QED
    BY <2>7, <2>8, <2>9, <2>10, <2>11 DEF Content
<1>3. QED
  BY <1>1, <1>2 DEF FastForward

\* A merge keeps what the tip it is applied to holds, if the commit it replays
\* kept what its parent held, and holds what one of the two sides holds.
LEMMA MergedKeeps ==
    ASSUME NEW dropped, NEW base \in Texts, NEW up \in Texts, NEW my \in Texts,
           StillIn(dropped, base, my)
    PROVE  /\ StillIn(dropped, up, Merged(base, up, my))
           /\ \A c : StillIn(dropped, up, c) /\ StillIn(dropped, my, c)
                        => StillIn(dropped, Merged(base, up, my), c)
<1> DEFINE b == Text(base)
           u == Text(up)
           m == Text(my)
           r == (u \cap m) \cup (u \ b) \cup (m \ b)
<1>1. \/ Merged(base, up, my) = up
      \/ Merged(base, up, my) = my /\ up = base
      \/ Merged(base, up, my) = r
  BY DEF Merged
<1>2. CASE Merged(base, up, my) = up
  BY <1>2, StillInOf
<1>3. CASE Merged(base, up, my) = my /\ up = base
  BY <1>3, StillInOf
<1>4. CASE Merged(base, up, my) = r
  <2>1. r \in SUBSET Edits
    BY TextOf
  <2>2. Text(r) = r
    BY <2>1, BoardAssumption DEF Text
  <2>3. QED
    BY <1>4, <2>2 DEF StillIn
<1>5. QED
  BY <1>1, <1>2, <1>3, <1>4

\* The same of a whole pick: the replayed commit holds what the head holds, and
\* nothing that did not come through the clone's view of origin.
LEMMA PickKeeps ==
    ASSUME TypeOK, Content, InRebase, reb.head # <<>>, reb.todo # <<>>
    PROVE  Kept(retired, Tip(reb.head), PickTree) /\ Kept(retired, PickTree, Tip(ref))
<1> DEFINE pick == Head(reb.todo)
           up == Tip(reb.head)
<1>1. /\ pick \in Commits /\ up \in Trees /\ pick = reb.todo[1] /\ 1 \in DOMAIN reb.todo
  BY PickTypes
<1>2. Kept(retired, pick.from, pick.to) /\ Kept(retired, pick.to, Tip(ref))
  BY <1>1 DEF Content, HistoriesGrow, CameThroughRef
<1>3. Kept(retired, up, Tip(ref))
  BY KeptOf DEF Content, StagedOnTop, CameThroughRef
<1>4. PickTree = [d \in Docs |-> IF d \in PickConflicts THEN Text(up[d]) \cup Text(pick.to[d])
                                 ELSE Merged(pick.from[d], up[d], pick.to[d])]
  BY DEF PickTree
<1> HIDE DEF pick, up
<1>5. ASSUME NEW d \in Docs
      PROVE  StillIn(retired, up[d], PickTree[d]) /\ StillIn(retired, PickTree[d], Tip(ref)[d])
  <2>1. pick.from[d] \in Texts /\ pick.to[d] \in Texts /\ up[d] \in Texts
    BY <1>1 DEF Commits, Trees
  <2>2. /\ StillIn(retired, pick.from[d], pick.to[d]) /\ StillIn(retired, pick.to[d], Tip(ref)[d])
        /\ StillIn(retired, up[d], Tip(ref)[d])
    BY <1>2, <1>3 DEF Kept
  <2>3. CASE d \in PickConflicts
    <3>1. PickTree[d] = Text(up[d]) \cup Text(pick.to[d])
      BY <1>4, <2>3
    <3>2. PickTree[d] \in SUBSET Edits
      BY <2>1, <3>1, TextOf
    <3>3. Text(PickTree[d]) = PickTree[d]
      BY <3>2, BoardAssumption DEF Text
    <3>4. QED
      BY <2>2, <3>1, <3>3 DEF StillIn
  <2>4. CASE d \notin PickConflicts
    <3>1. PickTree[d] = Merged(pick.from[d], up[d], pick.to[d])
      BY <1>4, <2>4
    <3>2. QED
      BY <2>1, <2>2, <3>1, MergedKeeps
  <2>5. QED
    BY <2>3, <2>4
<1>6. QED
  BY <1>5 DEF Kept, up

\* Every step keeps what commits and trees hold.
LEMMA ContentStep == TypeOK /\ RebaseFits /\ Content /\ ReadThroughRef /\ [Next]_vars => Content'
<1> SUFFICES ASSUME TypeOK, RebaseFits, Content, ReadThroughRef, [Next]_vars PROVE Content'
  OBVIOUS
<1>types. /\ origin \in Seq(Trees) /\ origin # <<>> /\ ref \in Seq(Trees) /\ ref # <<>>
          /\ branch \in Seq(Trees) /\ branch # <<>> /\ index \in Trees /\ wt \in Trees
          /\ Tip(origin) \in Trees /\ Tip(ref) \in Trees /\ Tip(branch) \in Trees
          /\ reb \in [head : Seq(Trees), todo : Seq(Commits), mine : Trees \cup {<<>>},
                      unmerged : SUBSET Docs]
          /\ saved \in [Docs -> Seq(SUBSET Edits)]
          /\ sync \in [pc : PCs, tries : 1..PushAttempts, doc : Docs \cup {NoDoc},
                       stopped : BOOLEAN, carried : Trees, head : Seq(Trees)]
          /\ NoRebase.head = <<>> /\ NoRebase.todo = <<>> /\ NoRebase.unmerged = {}
          /\ Idle.head = <<>> /\ Idle.pc = "idle"
  BY Shapes
<1>parts. OneBoard /\ HistoriesGrow /\ StagedOnTop /\ CameThroughRef /\ PublishedInPlace /\ PushParses
  BY DEF Content
<1>all. ASSUME OneBoard', HistoriesGrow', StagedOnTop', CameThroughRef', PublishedInPlace', PushParses'
        PROVE  Content'
  BY <1>all DEF Content
<1>goto. ASSUME NEW p, Goto(p) PROVE sync'.pc = p /\ sync'.head = sync.head
  BY <1>goto, <1>types DEF Goto
<1>pcs. RebasePCs = {"pick", "stop", "export", "keep", "continue"}
  BY DEF RebasePCs
<1>inside. ASSUME sync.pc \in RebasePCs PROVE InRebase /\ reb.head # <<>>
  BY <1>inside DEF RebaseFits
<1>outside. ASSUME sync.pc \notin RebasePCs \cup {"idle"} PROVE ~InRebase /\ reb = NoRebase
  BY <1>outside, NoRebaseAt
<1>moved. ASSUME \/ sync'.pc = sync.pc /\ sync'.head = sync.head
                 \/ sync'.pc \notin {"head", "push"} /\ sync'.head \in {sync.head, <<>>},
                 UNCHANGED <<origin, branch, index, wt, saved, reb>>, ref' = ref \/ ref' = origin,
                 retired \subseteq retired', made' \subseteq made \cup Mine
          PROVE  Content'
  <2>1. StagedOnTop' /\ CameThroughRef'
    BY <1>moved, TreesStay
  <2>2. OneBoard' /\ HistoriesGrow' /\ PublishedInPlace' /\ PushParses'
    BY <1>moved, Frame
  <2>3. QED
    BY <1>all, <2>1, <2>2
<1>docs. \A d \in Docs : Tip(origin)[d] \in Texts /\ Tip(ref)[d] \in Texts /\ wt[d] \in Texts
  BY <1>types DEF Trees
<1>came. \A d \in Docs : StillIn(retired, wt[d], Tip(ref)[d])
  BY <1>parts DEF CameThroughRef, Kept
<1>0. CASE UNCHANGED vars
  BY <1>0, <1>moved DEF vars
<1>1. CASE HealRebase
  <2>1. sync'.pc = "check" /\ sync'.head = sync.head
    BY <1>1, <1>goto DEF HealRebase
  <2>2. CASE InRebase
    BY <1>1, <2>1, <2>2, AbortContent DEF HealRebase, people
  <2>3. CASE ~InRebase
    BY <1>1, <1>moved, <2>1, <2>3 DEF HealRebase, clone, people
  <2>4. QED
    BY <2>2, <2>3
<1>2. CASE CheckWorktree
  BY <1>2, <1>moved, <1>goto, <1>types DEF CheckWorktree, At, End, clone, people
<1>3. CASE ClassifyCopies
  BY <1>3, <1>moved, <1>goto, <1>types DEF ClassifyCopies, At, End, clone, people
<1>4. CASE RemoveCarriedCopies
  <2>1. /\ sync'.pc = "stage" /\ sync'.head = sync.head /\ made' = made /\ retired' = retired
        /\ UNCHANGED <<origin, ref, branch, index, wt, reb>>
    BY <1>4, <1>types DEF RemoveCarriedCopies, clone, people
  <2>2. ASSUME NEW d \in Docs, NEW i \in DOMAIN saved'[d]
        PROVE  StillIn(retired', saved'[d][i], Tip(ref')[d])
    <3>1. saved'[d] = Without(saved[d], sync.carried[d])
      BY <1>4 DEF RemoveCarriedCopies
    <3>2. PICK j \in DOMAIN saved[d] : saved'[d][i] = saved[d][j]
      <4>1. saved[d] \in Seq(SUBSET Edits)
        BY <1>types
      <4>2. QED
        BY <3>1, <4>1, WithoutOf
    <3>3. QED
      BY <2>1, <3>2, CopiesCame
  <2>3. /\ Kept(retired, index, wt) /\ Kept(retired, wt, Tip(ref)) /\ Kept(retired, Tip(ref), Tip(ref))
        /\ IF InRebase THEN Kept(retired, Tip(reb.head), index) ELSE Kept(retired, Tip(branch), index)
    BY <1>parts, KeptOf DEF StagedOnTop, CameThroughRef
  <2>4. InRebase' <=> InRebase
    BY <2>1 DEF InRebase
  <2>5. StagedOnTop' /\ CameThroughRef'
    BY <2>1, <2>2, <2>3, <2>4, TreesFrame
  <2>6. OneBoard' /\ HistoriesGrow' /\ PublishedInPlace' /\ PushParses'
    BY <2>1, Frame
  <2>7. QED
    BY <1>all, <2>5, <2>6
<1>5. CASE StageAll
  <2>1. /\ sync'.pc = "commit" /\ sync'.head = sync.head /\ made' = made /\ retired' = retired
        /\ index' = wt /\ UNCHANGED <<origin, ref, branch, wt, reb, saved>>
    BY <1>5, <1>goto DEF StageAll, people
  <2>2. ~InRebase /\ ~InRebase'
    BY <1>5, <1>outside, <1>pcs, <2>1 DEF StageAll, At, InRebase
  <2>3. /\ Kept(retired, Tip(branch), index) /\ Kept(retired, index, wt)
        /\ Kept(retired, wt, wt) /\ Kept(retired, wt, Tip(ref)) /\ Kept(retired, Tip(ref), Tip(ref))
    BY <1>parts, <2>2, KeptOf DEF StagedOnTop, CameThroughRef
  <2>4. Kept(retired, Tip(branch), wt)
    BY <2>3, KeptOf
  <2>5. StagedOnTop' /\ CameThroughRef'
    BY <2>1, <2>2, <2>3, <2>4, CopiesCame, TreesFrame
  <2>6. OneBoard' /\ HistoriesGrow' /\ PublishedInPlace' /\ PushParses'
    BY <2>1, Frame
  <2>7. QED
    BY <1>all, <2>5, <2>6
<1>6. CASE CommitStaged
  <2>1. /\ sync'.pc \in {"fetch", "heldFetch"} /\ sync'.head = sync.head /\ made' = made
        /\ retired' = retired /\ UNCHANGED <<origin, ref, wt, reb, saved>>
    BY <1>6, <1>goto DEF CommitStaged, people
  <2>2. ~InRebase /\ ~InRebase'
    BY <1>6, <1>outside, <1>pcs, <2>1 DEF CommitStaged, At, InRebase
  <2>3. /\ Kept(retired, Tip(branch), index) /\ Kept(retired, index, wt) /\ Kept(retired, wt, Tip(ref))
    BY <1>parts, <2>2 DEF StagedOnTop, CameThroughRef
  <2>4. CASE branch' = branch /\ index' \in {index, Tip(branch)}
    <3>1. Kept(retired, Tip(branch), Tip(branch)) /\ Kept(retired, Tip(ref), Tip(ref))
      BY KeptOf
    <3>2. Kept(retired, Tip(branch), index') /\ Kept(retired, index', wt)
      BY <2>3, <2>4, <3>1, KeptOf
    <3>3. StagedOnTop' /\ CameThroughRef'
      BY <2>1, <2>2, <2>3, <2>4, <3>1, <3>2, CopiesCame, TreesFrame
    <3>4. OneBoard' /\ HistoriesGrow' /\ PublishedInPlace' /\ PushParses'
      BY <2>1, <2>4, Frame
    <3>5. QED
      BY <1>all, <3>3, <3>4
  <2>5. CASE branch' = Append(branch, index) /\ index' = index
    <3>1. Tip(branch') = index /\ branch'[1] = branch[1]
      <4>1. Len(branch) \in Nat \ {0}
        BY <1>types, TipOf
      <4>2. QED
        BY <1>types, <2>5, <4>1, OnTop
    <3>2. OneBoard'
      BY <1>parts, <2>1, <2>2, <3>1 DEF OneBoard, At
    <3>3. HistoriesGrow'
      <4>1. Grows(retired, branch')
        BY <1>types, <1>parts, <2>3, <2>5, GrowsOnTop DEF HistoriesGrow
      <4>2. QED
        BY <1>parts, <2>1, <4>1 DEF HistoriesGrow
    <3>4. StagedOnTop'
      BY <2>1, <2>2, <2>3, <2>5, <3>1, KeptOf DEF StagedOnTop
    <3>5. CameThroughRef'
      BY <1>parts, <2>1, <2>3, <3>1, KeptOf DEF CameThroughRef
    <3>6. PublishedInPlace' /\ PushParses'
      BY <1>parts, <2>1 DEF PublishedInPlace, PushParses, At
    <3>7. QED
      BY <1>all, <3>2, <3>3, <3>4, <3>5, <3>6
  <2>6. QED
    BY <1>6, <2>4, <2>5 DEF CommitStaged
<1>7. CASE HeldFetch
  BY <1>7, <1>moved, <1>goto, <1>types DEF HeldFetch, At, End, clone, people
<1>8. CASE HeldMerge
  BY <1>8, <1>types, ForwardContent DEF HeldMerge, End, people
<1>9. CASE FetchOrigin
  BY <1>9, <1>moved, <1>goto, <1>types DEF FetchOrigin, At, End, clone, people
<1>10. CASE StartRebase
  <2>1. /\ ~InRebase /\ reb = NoRebase /\ branch' = branch /\ UNCHANGED <<origin, ref, saved, made, retired>>
    BY <1>10, <1>outside, <1>pcs DEF StartRebase, At, clone, people
  <2>2. CASE UNCHANGED clone /\ (End \/ Goto("hold"))
    BY <1>moved, <1>goto, <1>types, <2>1, <2>2 DEF End, clone
  <2>3. CASE /\ Goto("pick") /\ index' = Tip(ref) /\ wt' = Checkout(Tip(ref))
             /\ reb' = [NoRebase EXCEPT !.head = ref, !.todo = Outgoing(branch, ref)]
    <3>1. /\ reb'.head = ref /\ reb'.todo = Outgoing(branch, ref) /\ reb'.unmerged = {}
          /\ sync'.pc = "pick" /\ sync'.head = sync.head
      BY <1>goto, <2>3 DEF NoRebase
    <3>2. InRebase'
      BY <1>types, <3>1 DEF InRebase
    <3>3. ref[1] = origin[1] /\ branch[1] = ref[1]
      BY <1>parts, RootOf
    <3>4. ASSUME NEW i \in DOMAIN reb'.todo
          PROVE  Kept(retired, reb'.todo[i].from, reb'.todo[i].to) /\ Kept(retired, reb'.todo[i].to, Tip(ref))
      <4>1. PICK j \in DOMAIN branch : /\ j + 1 \in DOMAIN branch
               /\ reb'.todo[i].from = branch[j] /\ reb'.todo[i].to = branch[j + 1]
        BY <1>types, <3>1, <3>3, <3>4, OutgoingOf
      <4>2. DOMAIN branch = 1..Len(branch) /\ Len(branch) \in Nat \ {0} /\ Tip(branch) = branch[Len(branch)]
        BY <1>types, TipOf
      <4>3. Kept(retired, branch[j], branch[j + 1]) /\ Kept(retired, branch[j + 1], Tip(branch))
        BY <1>parts, <4>1, <4>2 DEF HistoriesGrow, Grows
      <4>4. Kept(retired, Tip(branch), Tip(ref))
        BY <1>parts DEF CameThroughRef
      <4>5. QED
        BY <4>1, <4>3, <4>4, KeptOf
    <3>5. OneBoard'
      BY <1>parts, <2>1, <3>1, <3>3 DEF OneBoard, At
    <3>6. HistoriesGrow'
      <4>1. Grows(retired, ref)
        BY <1>types, <1>parts, GrowsPrefix DEF OneBoard, HistoriesGrow
      <4>2. QED
        BY <1>parts, <2>1, <3>1, <3>4, <4>1 DEF HistoriesGrow
    <3>7. StagedOnTop'
      <4>1. Kept(retired, Tip(ref), Checkout(Tip(ref))) /\ Kept(retired, Tip(ref), Tip(ref))
        BY CheckoutKeeps, KeptOf
      <4>2. QED
        BY <2>1, <2>3, <3>1, <3>2, <4>1 DEF StagedOnTop
    <3>8. CameThroughRef'
      <4>1. Kept(retired, Checkout(Tip(ref)), Tip(ref))
        BY <1>parts, CheckoutKeeps, KeptOf DEF CameThroughRef
      <4>2. QED
        BY <1>parts, <2>1, <2>3, <3>1, <3>4, <4>1 DEF CameThroughRef
    <3>9. PublishedInPlace' /\ PushParses'
      BY <1>parts, <2>1, <3>1 DEF PublishedInPlace, PushParses, At
    <3>10. QED
      BY <1>all, <3>5, <3>6, <3>7, <3>8, <3>9
  <2>4. QED
    BY <1>10, <2>2, <2>3 DEF StartRebase
<1>11. CASE PickCommit
  <2>1. InRebase /\ reb.head # <<>> /\ reb.todo # <<>>
    BY <1>11, <1>inside, <1>pcs DEF PickCommit, At
  <2>2. /\ Head(reb.todo) = reb.todo[1] /\ 1 \in DOMAIN reb.todo /\ PickTree \in Trees
        /\ \A i \in DOMAIN Tail(reb.todo) : \E j \in DOMAIN reb.todo : Tail(reb.todo)[i] = reb.todo[j]
    BY <2>1, PickTypes
  <2>3. Kept(retired, Tip(reb.head), PickTree) /\ Kept(retired, PickTree, Tip(ref))
    BY <2>1, PickKeeps
  <2>4. /\ UNCHANGED <<origin, ref, branch, saved, made, retired>>
        /\ index' = PickTree /\ wt' = Checkout(PickTree) /\ reb'.todo = Tail(reb.todo)
        /\ reb'.unmerged # {} => reb'.mine = Head(reb.todo).to
        /\ sync'.pc \in {"pick", "stop"} /\ sync'.head = sync.head
    BY <1>11, <1>types DEF PickCommit, At, people
  <2>5. \/ reb'.head = reb.head
        \/ reb'.head = Append(reb.head, PickTree)
    BY <1>11 DEF PickCommit
  <2>6. /\ reb'.head # <<>> /\ reb'.head[1] = reb.head[1] /\ Tip(reb'.head) \in {Tip(reb.head), PickTree}
        /\ Grows(retired, reb'.head)
    <3>1. CASE reb'.head = reb.head
      BY <1>parts, <2>1, <3>1 DEF HistoriesGrow
    <3>2. CASE reb'.head = Append(reb.head, PickTree)
      <4>1. reb.head \in Seq(Trees) /\ Len(reb.head) \in Nat \ {0}
        BY <1>types, <2>1, TipOf
      <4>2. Grows(retired, reb'.head)
        BY <1>parts, <2>1, <2>2, <2>3, <3>2, <4>1, GrowsOnTop DEF HistoriesGrow
      <4>3. QED
        BY <2>2, <3>2, <4>1, <4>2, OnTop
    <3>3. QED
      BY <2>5, <3>1, <3>2
  <2>7. InRebase'
    BY <1>types, <2>6 DEF InRebase
  <2>8. OneBoard'
    BY <1>parts, <2>1, <2>4, <2>6 DEF OneBoard, At
  <2>9. HistoriesGrow'
    BY <1>parts, <2>2, <2>4, <2>6 DEF HistoriesGrow
  <2>10. StagedOnTop'
    <3>1. Kept(retired, PickTree, Checkout(PickTree)) /\ Kept(retired, PickTree, PickTree)
      BY CheckoutKeeps, KeptOf
    <3>2. QED
      BY <2>3, <2>4, <2>6, <2>7, <3>1 DEF StagedOnTop
  <2>11. CameThroughRef'
    <3>1. Kept(retired, Checkout(PickTree), Tip(ref))
      BY <1>parts, <2>3, CheckoutKeeps DEF CameThroughRef
    <3>2. \A i \in DOMAIN reb'.todo : Kept(retired, reb'.todo[i].to, Tip(ref))
      BY <1>parts, <2>2, <2>4 DEF CameThroughRef
    <3>3. reb'.unmerged # {} => Kept(retired, reb'.mine, Tip(ref))
      BY <1>parts, <2>2, <2>4 DEF CameThroughRef
    <3>4. QED
      BY <1>parts, <2>4, <3>1, <3>2, <3>3 DEF CameThroughRef
  <2>12. PublishedInPlace' /\ PushParses'
    BY <1>parts, <2>4 DEF PublishedInPlace, PushParses, At
  <2>13. QED
    BY <1>all, <2>8, <2>9, <2>10, <2>11, <2>12
<1>12. CASE FinishRebase
  <2>1. InRebase /\ reb.head # <<>>
    BY <1>12, <1>inside, <1>pcs DEF FinishRebase, At
  <2>2. /\ branch' = reb.head /\ reb' = NoRebase /\ UNCHANGED <<origin, ref, index, wt, saved, made, retired>>
        /\ sync'.pc \in {"idle", "hold"} /\ sync'.head \in {sync.head, <<>>}
    BY <1>12, <1>goto, <1>types DEF FinishRebase, End, people
  <2>3. ~InRebase'
    BY <2>2 DEF InRebase
  <2>4. Kept(retired, Tip(reb.head), index) /\ Kept(retired, index, wt) /\ Kept(retired, wt, Tip(ref))
    BY <1>parts, <2>1 DEF StagedOnTop, CameThroughRef
  <2>5. OneBoard'
    BY <1>parts, <2>1, <2>2, <2>3 DEF OneBoard, At
  <2>6. HistoriesGrow'
    BY <1>parts, <1>types, <2>2, GrowsEmpty DEF HistoriesGrow
  <2>7. StagedOnTop'
    BY <2>2, <2>3, <2>4 DEF StagedOnTop
  <2>8. CameThroughRef'
    <3>1. Kept(retired, Tip(reb.head), Tip(ref))
      BY <2>4, KeptOf
    <3>2. reb'.todo = <<>> /\ reb'.unmerged = {}
      BY <1>types, <2>2
    <3>3. QED
      BY <1>parts, <2>2, <3>1, <3>2 DEF CameThroughRef
  <2>9. PublishedInPlace' /\ PushParses'
    BY <1>parts, <2>2 DEF PublishedInPlace, PushParses, At
  <2>10. QED
    BY <1>all, <2>5, <2>6, <2>7, <2>8, <2>9
<1>13. CASE LookAtStop
  <2>1. InRebase /\ sync'.pc \in {"pick", "export"} /\ sync'.head = sync.head
    BY <1>13, <1>inside, <1>pcs, <1>goto DEF LookAtStop, At
  <2>2. CASE UNCHANGED clone
    BY <1>13, <1>moved, <2>1, <2>2 DEF LookAtStop, clone, people
  <2>3. CASE SkipCommit
    <3>1. /\ UNCHANGED <<origin, ref, branch, reb, saved, made, retired>>
          /\ index' = Tip(reb.head) /\ wt' = Checkout(Tip(reb.head))
      BY <1>13, <2>3 DEF LookAtStop, SkipCommit, people
    <3>2. Kept(retired, wt, Tip(ref)) /\ Kept(retired, Tip(reb.head), Tip(ref))
      BY <1>parts, <2>1, KeptOf DEF StagedOnTop, CameThroughRef
    <3>3. /\ Kept(retired, index', wt') /\ Kept(retired, wt', Tip(ref))
          /\ Kept(retired, Tip(reb.head), index') /\ Kept(retired, Tip(ref), Tip(ref))
      BY <3>1, <3>2, CheckoutKeeps, KeptOf
    <3>4. InRebase'
      BY <2>1, <3>1 DEF InRebase
    <3>5. StagedOnTop' /\ CameThroughRef'
      BY <3>1, <3>3, <3>4, CopiesCame, TreesFrame
    <3>6. OneBoard' /\ HistoriesGrow' /\ PublishedInPlace' /\ PushParses'
      BY <2>1, <3>1, Frame
    <3>7. QED
      BY <1>all, <3>5, <3>6
  <2>4. QED
    BY <1>13, <2>2, <2>3 DEF LookAtStop
<1>14. CASE ExportMine
  <2>1. PICK d \in reb.unmerged :
           /\ sync' = [sync EXCEPT !.pc = "keep", !.doc = d]
           /\ saved' = IF ExportedVersion(d) = NoDoc THEN saved
                       ELSE [saved EXCEPT ![d] = WithCopy(@, ExportedVersion(d))]
    BY <1>14 DEF ExportMine
  <2>2. /\ UNCHANGED <<origin, ref, branch, index, wt, reb, made, retired>>
        /\ sync'.pc = "keep" /\ sync'.head = sync.head /\ d \in Docs
    BY <1>14, <1>types, <2>1 DEF ExportMine, clone, people
  <2>3. StillIn(retired, ExportedVersion(d), Tip(ref)[d])
    BY <1>parts, <2>1, <2>2 DEF CameThroughRef, Kept, ExportedVersion
  <2>4. ASSUME NEW c \in Docs, NEW i \in DOMAIN saved'[c]
        PROVE  StillIn(retired', saved'[c][i], Tip(ref')[c])
    <3>1. CASE saved'[c] = saved[c]
      BY <2>2, <2>4, <3>1, CopiesCame
    <3>2. CASE /\ c = d /\ ExportedVersion(d) # NoDoc
               /\ saved'[c] = WithCopy(saved[d], ExportedVersion(d))
      <4>1. ExportedVersion(d) \in SUBSET Edits
        <5>1. reb.mine \in Trees
          BY <2>1 DEF RebaseFits
        <5>2. ExportedVersion(d) \in Texts
          BY <2>2, <5>1 DEF ExportedVersion, Trees
        <5>3. QED
          BY <3>2, <5>2, TextOf
      <4>2. \/ saved'[c][i] = ExportedVersion(d)
            \/ \E j \in DOMAIN saved[d] : saved'[c][i] = saved[d][j]
        <5>1. saved[d] \in Seq(SUBSET Edits)
          BY <1>types, <2>2
        <5>2. PICK s \in Seq(SUBSET Edits), v \in SUBSET Edits : s = saved[d] /\ v = ExportedVersion(d)
          BY <4>1, <5>1
        <5>3. \A k \in DOMAIN WithCopy(s, v) :
                 \/ WithCopy(s, v)[k] = v
                 \/ \E j \in DOMAIN s : WithCopy(s, v)[k] = s[j]
          BY <5>2, WithCopyOf
        <5>4. QED
          BY <2>4, <3>2, <5>2, <5>3
      <4>3. QED
        BY <2>2, <2>3, <3>2, <4>2, CopiesCame
    <3>3. QED
      BY <1>types, <2>1, <2>2, <3>1, <3>2
  <2>5. /\ Kept(retired, index, wt) /\ Kept(retired, wt, Tip(ref)) /\ Kept(retired, Tip(ref), Tip(ref))
        /\ IF InRebase THEN Kept(retired, Tip(reb.head), index) ELSE Kept(retired, Tip(branch), index)
    BY <1>parts, KeptOf DEF StagedOnTop, CameThroughRef
  <2>6. InRebase' <=> InRebase
    BY <2>2 DEF InRebase
  <2>7. StagedOnTop' /\ CameThroughRef'
    BY <2>2, <2>4, <2>5, <2>6, TreesFrame
  <2>8. OneBoard' /\ HistoriesGrow' /\ PublishedInPlace' /\ PushParses'
    BY <2>2, Frame
  <2>9. QED
    BY <1>all, <2>7, <2>8
<1>15. CASE KeepUpstream
  <2> DEFINE d == sync.doc
             up == Tip(ref)[d]
  <2>1. InRebase /\ d \in reb.unmerged /\ d \in Docs /\ reb.head # <<>>
    BY <1>15, <1>inside, <1>pcs, <1>types DEF KeepUpstream, At, RebaseFits
  <2>2. /\ UNCHANGED <<origin, ref, branch, saved, made, retired>>
        /\ index' = [index EXCEPT ![d] = up] /\ wt' = [wt EXCEPT ![d] = up]
        /\ reb'.head = reb.head /\ reb'.todo = reb.todo /\ reb'.mine = reb.mine
        /\ reb'.unmerged \subseteq reb.unmerged
        /\ sync'.pc \in {"continue", "export"} /\ sync'.head = sync.head
    BY <1>15, <1>types DEF KeepUpstream, UpstreamVersion, people
  <2>3. InRebase'
    BY <1>types, <2>1, <2>2 DEF InRebase
  <2>4. /\ Kept(retired, index, wt) /\ Kept(retired, wt, Tip(ref)) /\ Kept(retired, Tip(ref), Tip(ref))
        /\ Kept(retired, Tip(reb.head), index)
    BY <1>parts, <2>1, KeptOf DEF StagedOnTop, CameThroughRef
  <2>5. Kept(retired, Tip(reb.head), Tip(ref))
    BY <2>4, KeptOf
  <2>6. Kept(retired, Tip(reb.head), index')
    <3>1. StillIn(retired, Tip(reb.head)[d], up)
      BY <2>1, <2>5 DEF Kept
    <3>2. Kept(retired, Tip(reb.head), [index EXCEPT ![d] = up])
      <4> HIDE DEF d, up
      <4>1. QED
        BY <1>types, <2>1, <2>4, <3>1, KeptOne
    <3>3. QED
      BY <2>2, <3>2
  <2>7. Kept(retired, index', wt') /\ Kept(retired, wt', Tip(ref))
    <3>1. /\ \A c \in Docs : index'[c] = IF c = d THEN up ELSE index[c]
          /\ \A c \in Docs : wt'[c] = IF c = d THEN up ELSE wt[c]
      BY <1>types, <2>1, <2>2 DEF Trees
    <3>2. QED
      BY <2>4, <3>1, StillInOf DEF Kept
  <2>8. StagedOnTop' /\ CameThroughRef'
    BY <2>1, <2>2, <2>3, <2>4, <2>6, <2>7, CopiesCame, TreesFrame
  <2>9. OneBoard' /\ HistoriesGrow' /\ PublishedInPlace' /\ PushParses'
    BY <2>1, <2>2, Frame
  <2>10. QED
    BY <1>all, <2>8, <2>9
<1>16. CASE ContinueRebase
  <2>1. InRebase /\ reb.head # <<>> /\ reb.unmerged = {}
    BY <1>16, <1>inside, <1>pcs DEF ContinueRebase, At, RebaseFits
  <2>2. /\ UNCHANGED <<origin, ref, branch, index, wt, saved, made, retired>>
        /\ reb'.head = (IF index = Tip(reb.head) THEN reb.head ELSE Append(reb.head, index))
        /\ reb'.todo = reb.todo /\ reb'.unmerged = {}
        /\ sync'.pc = "pick" /\ sync'.head = sync.head
    BY <1>16, <1>types, <1>goto, <2>1 DEF ContinueRebase, people
  <2>3. Kept(retired, Tip(reb.head), index) /\ Kept(retired, index, wt)
    BY <1>parts, <2>1 DEF StagedOnTop
  <2>4. /\ reb'.head # <<>> /\ reb'.head[1] = reb.head[1] /\ Tip(reb'.head) = index
        /\ Grows(retired, reb'.head)
    <3>1. CASE index = Tip(reb.head)
      BY <1>parts, <2>1, <2>2, <3>1 DEF HistoriesGrow
    <3>2. CASE index # Tip(reb.head)
      <4>1. reb.head \in Seq(Trees) /\ Len(reb.head) \in Nat \ {0}
        BY <1>types, <2>1, TipOf
      <4>2. Grows(retired, reb'.head)
        BY <1>parts, <1>types, <2>1, <2>2, <2>3, <3>2, <4>1, GrowsOnTop DEF HistoriesGrow
      <4>3. QED
        <5>1. index \in Trees /\ reb'.head = Append(reb.head, index)
          BY <1>types, <2>2, <3>2
        <5>2. /\ Append(reb.head, index) # <<>> /\ Tip(Append(reb.head, index)) = index
              /\ Append(reb.head, index)[1] = reb.head[1]
          BY <4>1, <5>1, OnTop
        <5>3. QED
          BY <4>2, <5>1, <5>2
    <3>3. QED
      BY <3>1, <3>2
  <2>5. InRebase'
    BY <1>types, <2>4 DEF InRebase
  <2>6. OneBoard'
    BY <1>parts, <2>1, <2>2, <2>4 DEF OneBoard, At
  <2>7. HistoriesGrow'
    BY <1>parts, <2>2, <2>4 DEF HistoriesGrow
  <2>8. StagedOnTop'
    BY <2>2, <2>3, <2>4, <2>5, KeptOf DEF StagedOnTop
  <2>9. CameThroughRef'
    BY <1>parts, <2>2 DEF CameThroughRef
  <2>10. PublishedInPlace' /\ PushParses'
    BY <1>parts, <2>2 DEF PublishedInPlace, PushParses, At
  <2>11. QED
    BY <1>all, <2>6, <2>7, <2>8, <2>9, <2>10
<1>17. CASE ContinueRefused
  BY <1>17, <1>moved, <1>goto, <1>types DEF ContinueRefused, At, End, clone, people
<1>18. CASE HoldMalformed
  <2>1. /\ UNCHANGED <<origin, ref, branch, index, wt, reb, saved, made, retired>>
    BY <1>18 DEF HoldMalformed, clone, people
  <2>2. CASE End
    BY <1>moved, <1>types, <2>1, <2>2 DEF End
  <2>3. CASE /\ ~\E d \in Docs : Tip(branch)[d] # Tip(ref)[d] /\ Broken(Tip(branch)[d])
             /\ Goto("head")
    <3>1. sync'.pc = "head" /\ sync'.head = sync.head
      BY <1>goto, <2>3
    <3>2. Parses(Tip(branch))
      <4>1. Parses(Tip(ref))
        BY <1>parts DEF PushParses
      <4>2. QED
        BY <2>3, <4>1 DEF Parses
    <3>3. OneBoard'
      BY <1>parts, <2>1, <3>1 DEF OneBoard, At, InRebase
    <3>4. HistoriesGrow' /\ PublishedInPlace'
      BY <1>parts, <2>1, <3>1 DEF HistoriesGrow, PublishedInPlace
    <3>5. StagedOnTop' /\ CameThroughRef'
      BY <2>1, TreesStay
    <3>6. PushParses'
      BY <1>parts, <2>1, <3>1, <3>2 DEF PushParses, At
    <3>7. QED
      BY <1>all, <3>3, <3>4, <3>5, <3>6
  <2>4. QED
    BY <1>18, <2>2, <2>3 DEF HoldMalformed
<1>19. CASE ReadHead
  <2>1. /\ UNCHANGED <<origin, ref, branch, index, wt, reb, saved, made, retired>>
        /\ sync'.pc = "push" /\ sync'.head = branch /\ sync.pc = "head"
    BY <1>19, <1>types DEF ReadHead, At, clone, people
  <2>2. OneBoard'
    BY <1>parts, <1>types, <2>1 DEF OneBoard, InRebase, At
  <2>3. HistoriesGrow' /\ PublishedInPlace'
    BY <1>parts, <2>1 DEF HistoriesGrow, PublishedInPlace
  <2>4. StagedOnTop' /\ CameThroughRef'
    BY <2>1, TreesStay
  <2>5. PushParses'
    BY <1>parts, <2>1 DEF PushParses, At
  <2>6. QED
    BY <1>all, <2>2, <2>3, <2>4, <2>5
<1>20. CASE PushHead
  <2>1. UNCHANGED <<index, wt, reb, saved, made, retired>> /\ sync.pc = "push"
    BY <1>20 DEF PushHead, At, people
  <2>2. CASE UNCHANGED <<origin, ref, branch>> /\ (End \/ sync' = [Idle EXCEPT !.pc = "fetch", !.tries = sync.tries + 1])
    <3>1. sync'.pc \in {"idle", "fetch"} /\ sync'.head = <<>>
      <4>1. CASE End
        BY <1>types, <4>1 DEF End
      <4>2. CASE sync' = [Idle EXCEPT !.pc = "fetch", !.tries = sync.tries + 1]
        BY <4>2 DEF Idle
      <4>3. QED
        BY <2>2, <4>1, <4>2
    <3>2. QED
      BY <1>moved, <2>1, <2>2, <3>1
  <2>3. CASE /\ IsPrefix(origin, sync.head) /\ End /\ ref' = origin'
             /\ origin' = IF branch = sync.head THEN Forget(sync.head) ELSE sync.head
             /\ branch' = IF branch = sync.head THEN Forget(branch) ELSE branch
    <3> DEFINE h == sync.head
    <3>1. /\ h \in Seq(Trees) /\ h # <<>> /\ h[1] = origin[1] /\ Parses(Tip(h)) /\ Grows(retired, h)
      BY <1>types, <1>parts, <2>1 DEF OneBoard, HistoriesGrow, PushParses, At
    <3>2. /\ sync'.pc = "idle" /\ sync'.head = <<>> /\ ~InRebase /\ ~InRebase' /\ reb = NoRebase
      BY <1>types, <1>outside, <1>pcs, <2>1, <2>3 DEF End, InRebase
    <3> HIDE DEF h
    <3>3. /\ Forget(h) \in Seq(Trees) /\ Forget(h) # <<>> /\ Tip(Forget(h)) = Tip(h)
          /\ Grows(retired, Forget(h))
      BY <3>1, Forgotten, GrowsForgotten
    <3>4. /\ origin' = (IF branch = h THEN Forget(h) ELSE h) /\ ref' = origin'
          /\ branch' = (IF branch = h THEN Forget(branch) ELSE branch)
      BY <2>3 DEF h
    <3>5. /\ origin' \in Seq(Trees) /\ Tip(origin') = Tip(h) /\ Tip(ref') = Tip(h)
          /\ Tip(branch') = Tip(branch) /\ branch'[1] = origin'[1]
      BY <1>parts, <3>1, <3>3, <3>4 DEF OneBoard
    <3>6. Kept(retired, Tip(origin), Tip(h)) /\ Kept(retired, Tip(ref), Tip(h))
      <4>1. Kept(retired, Tip(origin), Tip(h))
        BY <1>types, <2>3, <3>1, PrefixKept DEF h
      <4>2. QED
        BY <1>parts, <4>1, RefKept, KeptOf
    <3>7. OneBoard'
      BY <3>2, <3>4, <3>5, PrefixSame DEF OneBoard, At
    <3>8. HistoriesGrow'
      BY <1>parts, <2>1, <3>1, <3>2, <3>3, <3>4, GrowsEmpty DEF HistoriesGrow
    <3>9. StagedOnTop' /\ CameThroughRef'
      <4>1. /\ Kept(retired, index, wt) /\ Kept(retired, wt, Tip(ref)) /\ Kept(retired, Tip(branch), index)
            /\ Kept(retired, Tip(branch), Tip(ref))
        BY <1>parts, <3>2 DEF StagedOnTop, CameThroughRef
      <4>2. Kept(retired, wt, Tip(h)) /\ Kept(retired, Tip(branch), Tip(h))
        BY <3>6, <4>1, KeptOf
      <4>3. ASSUME NEW d \in Docs, NEW i \in DOMAIN saved[d] PROVE StillIn(retired, saved[d][i], Tip(h)[d])
        <5>1. StillIn(retired, saved[d][i], Tip(ref)[d]) /\ StillIn(retired, Tip(ref)[d], Tip(h)[d])
          BY <3>6, CopiesCame DEF Kept
        <5>2. QED
          BY <5>1, StillInOf
      <4>4. StagedOnTop'
        BY <2>1, <3>2, <3>5, <4>1 DEF StagedOnTop
      <4>5. CameThroughRef'
        BY <1>types, <2>1, <3>2, <3>5, <4>2, <4>3 DEF CameThroughRef
      <4>6. QED
        BY <4>4, <4>5
    <3>10. PublishedInPlace'
      BY <1>parts, <2>1, <3>5, <3>6, BoardAssumption DEF PublishedInPlace, Kept, StillIn, Edits
    <3>11. PushParses'
      BY <3>1, <3>2, <3>5 DEF PushParses, At
    <3>12. QED
      BY <1>all, <3>7, <3>8, <3>9, <3>10, <3>11
  <2>4. QED
    BY <1>20, <2>2, <2>3 DEF PushHead
<1>21. CASE Crash
  BY <1>21, <1>moved, <1>goto, <1>types DEF Crash, At, End, clone, people
<1>22. CASE NetworkFails
  BY <1>22, <1>moved, <1>goto, <1>types DEF NetworkFails, At, End, clone, people
<1>23. CASE PushAnswerLost
  <2> DEFINE h == sync.head
  <2>1. /\ UNCHANGED <<ref, branch, index, wt, reb, saved, made, retired>> /\ sync.pc = "push"
        /\ origin' = h /\ IsPrefix(origin, h) /\ sync'.pc = "idle" /\ sync'.head = <<>>
    BY <1>23, <1>types DEF PushAnswerLost, At, End, clone, people
  <2>2. /\ h \in Seq(Trees) /\ h # <<>> /\ h[1] = origin[1] /\ Parses(Tip(h)) /\ Grows(retired, h)
    BY <1>types, <1>parts, <2>1 DEF OneBoard, HistoriesGrow, PushParses, At
  <2> HIDE DEF h
  <2>3. Kept(retired, Tip(origin), Tip(h))
    BY <1>types, <2>1, <2>2, PrefixKept
  <2>4. OneBoard'
    <3>1. IsPrefix(ref, h)
      BY <1>types, <1>parts, <2>1, <2>2, PrefixTrans DEF OneBoard
    <3>2. QED
      BY <1>parts, <2>1, <2>2, <3>1 DEF OneBoard, InRebase, At
  <2>5. HistoriesGrow'
    BY <1>parts, <2>1, <2>2, GrowsEmpty DEF HistoriesGrow
  <2>6. StagedOnTop' /\ CameThroughRef'
    BY <1>parts, <2>1 DEF StagedOnTop, CameThroughRef, InRebase
  <2>7. PublishedInPlace'
    BY <1>parts, <2>1, <2>3, BoardAssumption DEF PublishedInPlace, Kept, StillIn, Edits
  <2>8. PushParses'
    BY <1>parts, <2>1, <2>2 DEF PushParses, At
  <2>9. QED
    BY <1>all, <2>4, <2>5, <2>6, <2>7, <2>8
<1>24. CASE LoopFails
  BY <1>24, <1>types, AbortContent DEF LoopFails, End, people
<1>25. CASE PullFetch
  BY <1>25, <1>moved, <1>goto, <1>types DEF PullFetch, At, End, clone, people
<1>26. CASE PullMerge
  BY <1>26, ForwardContent DEF PullMerge, people
<1>27. ASSUME NEW e \in Edits, Teammate(e) PROVE Content'
  <2> DEFINE d == DocOf[e]
             tree == [Tip(origin) EXCEPT ![d] = Text(@) \cup {e}]
  <2>1. /\ d \in Docs /\ e \in Theirs \ made /\ ~Broken(tree[d]) /\ Tip(origin)[d] \in SUBSET Edits
        /\ Text(Tip(origin)[d]) = Tip(origin)[d]
    BY <1>27, <1>docs, BoardAssumption, TextOf DEF Teammate
  <2>2. /\ UNCHANGED <<ref, branch, index, wt, reb, saved, sync, retired>>
        /\ origin' = Append(origin, tree) /\ made' = made \cup {e}
    BY <1>27 DEF Teammate, clone
  <2>3. /\ tree \in Trees /\ \A c \in Docs : c # d => tree[c] = Tip(origin)[c]
        /\ tree[d] = Tip(origin)[d] \cup {e} /\ tree[d] \in SUBSET Edits
    <3>1. Tip(origin)[d] \cup {e} \in SUBSET Edits
      BY <2>1
    <3>2. Tip(origin)[d] \cup {e} \in Texts
      BY <3>1, SetsAreTexts
    <3>3. tree = [Tip(origin) EXCEPT ![d] = Tip(origin)[d] \cup {e}]
      BY <1>types, <2>1 DEF Trees
    <3>4. QED
      BY <1>types, <2>1, <3>1, <3>2, <3>3 DEF Trees
  <2>4. Text(tree[d]) = tree[d]
    BY <2>3, BoardAssumption DEF Text
  <2> HIDE DEF tree, d
  <2>5. Kept(retired, Tip(origin), tree)
    <3> SUFFICES ASSUME NEW c \in Docs PROVE StillIn(retired, Tip(origin)[c], tree[c])
      BY DEF Kept
    <3>1. CASE c = d
      BY <2>1, <2>3, <2>4, <3>1 DEF StillIn
    <3>2. CASE c # d
      BY <2>3, <3>2, StillInOf
    <3>3. QED
      BY <3>1, <3>2
  <2>6. /\ origin' # <<>> /\ Tip(origin') = tree /\ origin'[1] = origin[1] /\ IsPrefix(ref, origin')
        /\ Grows(retired, origin')
    <3>1. Len(origin) \in Nat \ {0}
      BY <1>types, TipOf
    <3>2. origin \in Seq(Trees) /\ origin # <<>> /\ ref \in Seq(Trees) /\ tree \in Trees
          /\ IsPrefix(ref, origin) /\ Grows(retired, origin)
      BY <1>types, <1>parts, <2>3 DEF OneBoard, HistoriesGrow
    <3>3. Append(origin, tree) # <<>> /\ Tip(Append(origin, tree)) = tree /\ Append(origin, tree)[1] = origin[1]
      BY <3>1, <3>2, OnTop
    <3>4. IsPrefix(ref, Append(origin, tree))
      BY <3>2, PrefixOnTop
    <3>5. Grows(retired, Append(origin, tree))
      BY <2>5, <3>2, GrowsOnTop
    <3>6. QED
      BY <2>2, <3>3, <3>4, <3>5
  <2>7. OneBoard'
    BY <1>parts, <2>2, <2>6 DEF OneBoard, InRebase, At
  <2>8. HistoriesGrow'
    BY <1>parts, <2>2, <2>6 DEF HistoriesGrow
  <2>9. StagedOnTop' /\ CameThroughRef'
    BY <1>parts, <2>2 DEF StagedOnTop, CameThroughRef, InRebase
  <2>10. PublishedInPlace'
    <3> SUFFICES ASSUME NEW f \in (Theirs \cap made') \ retired PROVE f \in Text(tree[DocOf[f]])
      BY <2>2, <2>6 DEF PublishedInPlace
    <3>1. CASE f = e
      BY <2>3, <2>4, <3>1 DEF d
    <3>2. CASE f # e
      <4>1. f \in Text(Tip(origin)[DocOf[f]]) /\ DocOf[f] \in Docs
        BY <1>parts, <2>2, <3>2, BoardAssumption DEF PublishedInPlace, Edits
      <4>2. QED
        BY <2>5, <4>1 DEF Kept, StillIn
    <3>3. QED
      BY <3>1, <3>2
  <2>11. PushParses'
    <3>1. Parses(tree)
      BY <1>parts, <2>1, <2>3 DEF PushParses, Parses, tree
    <3>2. QED
      BY <1>parts, <2>2, <2>6, <3>1 DEF PushParses, At
  <2>12. QED
    BY <1>all, <2>7, <2>8, <2>9, <2>10, <2>11
<1>28. ASSUME NEW e \in Edits, Edit(e) PROVE Content'
  <2> DEFINE d == DocOf[e]
             text == wt[DocOf[e]] \cup {e}
  <2>1. d \in Docs /\ e \in Mine /\ e \notin Theirs /\ wt[d] \in SUBSET Edits
    BY <1>28, <1>docs, BoardAssumption, TextOf DEF Edit
  <2>2. /\ UNCHANGED <<origin, ref, branch, index, reb, saved, sync, retired>>
        /\ wt' = [wt EXCEPT ![d] = text] /\ made' = made \cup {e}
    BY <1>28 DEF Edit, Write
  <2>3. Text(text) = text /\ Text(wt[d]) = wt[d]
    BY <2>1, BoardAssumption DEF Text
  <2>4. StillIn(retired, wt[d], text) /\ StillIn(retired, text, Tip(ref)[d])
    BY <1>came, <2>1, <2>3 DEF StillIn
  <2> HIDE DEF d, text
  <2>5. QED
    BY <2>1, <2>2, <2>4, CopiesCame, WriteContent
<1>29. ASSUME NEW e \in Edits, Mend(e) PROVE Content'
  <2> DEFINE d == DocOf[e]
             text == wt[DocOf[e]] \cup {e}
  <2>1. d \in Docs /\ e \in Mine /\ e \notin Theirs /\ wt[d] \in SUBSET Edits
    <3>1. wt[d] # NoDoc
      BY <1>29, BoardAssumption DEF Mend, Broken, Text
    <3>2. QED
      BY <1>29, <1>docs, <3>1, BoardAssumption, TextOf DEF Mend
  <2>2. /\ UNCHANGED <<origin, ref, branch, index, reb, saved, sync, retired>>
        /\ wt' = [wt EXCEPT ![d] = text] /\ made' = made \cup {e}
    BY <1>29 DEF Mend, Write
  <2>3. Text(text) = text /\ Text(wt[d]) = wt[d]
    BY <2>1, BoardAssumption DEF Text
  <2>4. StillIn(retired, wt[d], text) /\ StillIn(retired, text, Tip(ref)[d])
    BY <1>came, <2>1, <2>3 DEF StillIn
  <2> HIDE DEF d, text
  <2>5. QED
    BY <2>1, <2>2, <2>4, CopiesCame, WriteContent
<1>30. ASSUME NEW d \in Docs, TeammateDeletes(d) PROVE Content'
  <2> DEFINE tree == [Tip(origin) EXCEPT ![d] = NoDoc]
  <2>1. /\ UNCHANGED <<ref, branch, index, wt, reb, saved, sync, made>>
        /\ origin' = Append(origin, tree) /\ retired' = retired \cup Tip(origin)[d] /\ Tip(origin)[d] # NoDoc
    BY <1>30 DEF TeammateDeletes, clone
  <2>2. /\ tree \in Trees /\ tree[d] = NoDoc /\ \A c \in Docs : c # d => tree[c] = Tip(origin)[c]
    <3>1. NoDoc \in Texts
      BY DEF Texts
    <3>2. QED
      BY <1>types, <3>1 DEF Trees
  <2> HIDE DEF tree
  <2>3. \A a, b : Kept(retired, a, b) => Kept(retired', a, b)
    BY <2>1, KeptMore
  <2>4. Kept(retired', Tip(origin), tree)
    <3>1. Text(Tip(origin)[d]) = Tip(origin)[d]
      BY <2>1 DEF Text
    <3>2. StillIn(retired', Tip(origin)[d], tree[d])
      BY <2>1, <3>1 DEF StillIn
    <3>3. QED
      BY <2>2, <3>2, StillInOf DEF Kept
  <2>5. /\ Grows(retired', origin) /\ Grows(retired', branch) /\ Grows(retired', reb.head)
        /\ Grows(retired', sync.head)
    BY <1>parts, <2>1, GrowsMore DEF HistoriesGrow
  <2>6. /\ origin' # <<>> /\ Tip(origin') = tree /\ origin'[1] = origin[1] /\ IsPrefix(ref, origin')
        /\ Grows(retired', origin')
    <3>1. Len(origin) \in Nat \ {0}
      BY <1>types, TipOf
    <3>2. origin \in Seq(Trees) /\ origin # <<>> /\ ref \in Seq(Trees) /\ tree \in Trees
          /\ IsPrefix(ref, origin)
      BY <1>types, <1>parts, <2>2 DEF OneBoard
    <3>3. Append(origin, tree) # <<>> /\ Tip(Append(origin, tree)) = tree /\ Append(origin, tree)[1] = origin[1]
      BY <3>1, <3>2, OnTop
    <3>4. IsPrefix(ref, Append(origin, tree))
      BY <3>2, PrefixOnTop
    <3>5. Grows(retired', Append(origin, tree))
      BY <2>4, <2>5, <3>2, GrowsOnTop
    <3>6. QED
      BY <2>1, <3>3, <3>4, <3>5
  <2>7. OneBoard'
    BY <1>parts, <2>1, <2>6 DEF OneBoard, InRebase, At
  <2>8. HistoriesGrow'
    BY <1>parts, <2>1, <2>3, <2>5, <2>6 DEF HistoriesGrow
  <2>9. StagedOnTop' /\ CameThroughRef'
    BY <2>1, TreesStay
  <2>10. PublishedInPlace'
    <3> SUFFICES ASSUME NEW f \in (Theirs \cap made) \ retired' PROVE f \in Text(tree[DocOf[f]])
      BY <2>1, <2>6 DEF PublishedInPlace
    <3>1. f \in Text(Tip(origin)[DocOf[f]]) /\ DocOf[f] \in Docs
      BY <1>parts, <2>1, BoardAssumption DEF PublishedInPlace, Edits
    <3>2. QED
      BY <2>4, <3>1 DEF Kept, StillIn
  <2>11. PushParses'
    <3>1. ~Broken(NoDoc)
      BY BoardAssumption DEF Broken, Text
    <3>2. Parses(tree)
      BY <1>parts, <2>2, <3>1 DEF PushParses, Parses
    <3>3. QED
      BY <1>parts, <2>1, <2>6, <3>2 DEF PushParses, At
  <2>12. QED
    BY <1>all, <2>7, <2>8, <2>9, <2>10, <2>11
<1>31. ASSUME NEW d \in Docs, Delete(d) PROVE Content'
  <2>1. /\ UNCHANGED <<origin, ref, branch, index, reb, saved, sync, made>>
        /\ wt' = [wt EXCEPT ![d] = NoDoc] /\ retired' = retired \cup wt[d] /\ wt[d] # NoDoc
    BY <1>31 DEF Delete, Write
  <2>2. StillIn(retired', wt[d], NoDoc) /\ StillIn(retired', NoDoc, Tip(ref)[d])
    BY <2>1, StillInOf DEF StillIn, Text
  <2>3. \A c \in Docs : \A i \in DOMAIN saved'[c] : StillIn(retired', saved'[c][i], Tip(ref)[c])
    BY <2>1, CopiesCame, StillInMore
  <2>4. QED
    BY <2>1, <2>2, <2>3, WriteContent
<1>32. ASSUME NEW d \in Docs, ReadDocument(d) PROVE Content'
  BY <1>32, <1>moved DEF ReadDocument, clone
<1>33. ASSUME NEW d \in Docs, MergeByHand(d) PROVE Content'
  <2>1. /\ saved[d] \in Seq(SUBSET Edits) /\ saved[d] # <<>> /\ Head(saved[d]) = saved[d][1]
        /\ 1 \in DOMAIN saved[d] /\ Head(saved[d]) \in SUBSET Edits /\ Text(Head(saved[d])) = Head(saved[d])
    <3>1. saved[d] \in Seq(SUBSET Edits) /\ saved[d] # <<>>
      BY <1>33, <1>types DEF MergeByHand, Settling
    <3>2. QED
      BY <3>1, TailOf, BoardAssumption DEF Text
  <2>2. StillIn(retired, Head(saved[d]), Tip(ref)[d])
    BY <2>1, CopiesCame
  <2> DEFINE text == wt[d] \cup Head(saved[d])
  <2>3. /\ UNCHANGED <<origin, ref, branch, index, reb, saved, sync, made, retired>>
        /\ wt' = [wt EXCEPT ![d] = text] /\ wt[d] # NoDoc
    BY <1>33 DEF MergeByHand, Write
  <2>4. wt[d] \in SUBSET Edits /\ Text(wt[d]) = wt[d]
    BY <1>docs, <2>3, TextOf
  <2>5. Text(text) = text
    BY <2>1, <2>4, BoardAssumption DEF Text
  <2>6. StillIn(retired, wt[d], text) /\ StillIn(retired, text, Tip(ref)[d])
    BY <1>came, <2>1, <2>2, <2>4, <2>5 DEF StillIn
  <2> HIDE DEF text
  <2>7. QED
    BY <2>3, <2>6, CopiesCame, WriteContent
<1>34. CASE Abandon
  BY <1>34, <1>moved DEF Abandon, clone
<1>read. ASSUME job # NoJob
         PROVE  /\ job.doc \in Docs /\ job.text \in SUBSET Edits /\ Text(job.text) = job.text
                /\ job.present \in Texts
  <2>1. job \in Jobs
    BY <1>read DEF TypeOK
  <2>2. QED
    BY <2>1, BoardAssumption DEF Jobs, Text
<1>35. CASE Keep
  <2> DEFINE d == job.doc
             text == job.text
  <2>1. /\ d \in Docs /\ text \in SUBSET Edits /\ Text(text) = text
        /\ saved[d] \in Seq(SUBSET Edits) /\ saved[d] # <<>> /\ Head(saved[d]) = text
        /\ 1 \in DOMAIN saved[d] /\ saved[d][1] = text
    <3>1. d \in Docs /\ text \in SUBSET Edits /\ Text(text) = text /\ saved[d] # <<>> /\ Head(saved[d]) = text
      BY <1>35, <1>read DEF Keep, Judging
    <3>2. saved[d] \in Seq(SUBSET Edits)
      BY <1>types, <3>1
    <3>3. QED
      BY <3>1, <3>2, TailOf
  <2>2. StillIn(retired, text, Tip(ref)[d])
    BY <2>1, CopiesCame
  <2>3. /\ UNCHANGED <<origin, ref, branch, index, reb, saved, sync, made>> /\ wt' = [wt EXCEPT ![d] = text]
        /\ retired' = (retired \cup ((Text(job.present) \cap Text(job.remote)) \ text))
                        \cup (Text(wt[d]) \ (Text(text) \cup ((Text(job.present) \cap Text(job.remote)) \ text) \cup {}))
    BY <1>35 DEF Keep, Overwrite, Write
  <2>4. StillIn(retired', wt[d], text)
    BY <2>1, <2>3 DEF StillIn
  <2>5. retired \subseteq retired' /\ made' \subseteq made \cup Mine
    BY <2>3
  <2>6. \A c \in Docs : \A i \in DOMAIN saved'[c] : StillIn(retired', saved'[c][i], Tip(ref)[c])
    BY <2>3, <2>5, CopiesCame, StillInMore
  <2>7. StillIn(retired', text, Tip(ref)[d])
    BY <2>2, <2>5, StillInMore
  <2>8. sync'.pc = sync.pc /\ sync'.head = sync.head
    BY <2>3
  <2> HIDE DEF text, d
  <2>9. QED
    BY <2>1, <2>3, <2>4, <2>5, <2>6, <2>7, <2>8, WriteContent
<1>36. CASE Take
  <2> DEFINE d == job.doc
             meant == job.text \ (Text(job.remote) \cap Text(Tip(ref)[d]))
             doc == IF job.remote = NoDoc THEN NoDoc ELSE Tip(ref)[d]
  <2>1. /\ d \in Docs /\ saved[d] \in Seq(SUBSET Edits) /\ job.present \in Texts
        /\ StillIn(retired, job.present, job.remote) /\ StillIn(retired, job.present, Tip(ref)[d])
    BY <1>36, <1>read, <1>types DEF Take, Judging, ReadThroughRef
  <2>2. /\ UNCHANGED <<origin, ref, branch, index, reb, sync, made>>
        /\ saved' = IF TakeWouldErase THEN [saved EXCEPT ![d] = WithCopy(@, job.present)] ELSE saved
        /\ \/ LeaveDocument(meant)
           \/ job' = NoJob /\ UNCHANGED <<wt, retired, overrun>>
           \/ Overwrite(doc, meant, SavedFirst)
    BY <1>36 DEF Take
  <2>3. \A c \in Docs : \A i \in DOMAIN saved'[c] : StillIn(retired, saved'[c][i], Tip(ref)[c])
    <3>1. CASE TakeWouldErase
      <4> DEFINE w == WithCopy(saved[d], job.present)
      <4>1. job.present \in SUBSET Edits
        BY <2>1, <3>1, TextOf DEF TakeWouldErase
      <4>2. \A i \in DOMAIN w : w[i] = job.present \/ \E j \in DOMAIN saved[d] : w[i] = saved[d][j]
        <5> DEFINE copies == saved[d]
        <5>1. copies \in Seq(SUBSET Edits)
          BY <2>1
        <5> HIDE DEF copies
        <5>2. \A i \in DOMAIN WithCopy(copies, job.present) :
                 \/ WithCopy(copies, job.present)[i] = job.present
                 \/ \E j \in DOMAIN copies : WithCopy(copies, job.present)[i] = copies[j]
          BY <4>1, <5>1, WithCopyOf
        <5>3. QED
          BY <5>2 DEF copies
      <4>3. \A c \in Docs : saved'[c] = IF c = d THEN w ELSE saved[c]
        BY <1>types, <2>2, <3>1
      <4> HIDE DEF w, d
      <4>4. QED
        BY <2>1, <4>2, <4>3, CopiesCame
    <3>2. CASE ~TakeWouldErase
      BY <2>2, <3>2, CopiesCame
    <3>3. QED
      BY <3>1, <3>2
  <2>up. /\ retired \subseteq retired'
         /\ StillIn(retired', wt[d], wt[d]) /\ StillIn(retired', wt[d], Tip(ref)[d])
         /\ StillIn(retired', Tip(ref)[d], Tip(ref)[d])
    <3>1. retired \subseteq retired'
      BY <2>2 DEF LeaveDocument, Overwrite
    <3>2. StillIn(retired, wt[d], Tip(ref)[d])
      BY <1>came, <2>1
    <3> HIDE DEF d
    <3>3. QED
      BY <3>1, <3>2, StillInOf, StillInMore
  <2>4. \E tree \in Texts :
           /\ wt' = [wt EXCEPT ![d] = tree] /\ retired \subseteq retired'
           /\ StillIn(retired', wt[d], tree) /\ StillIn(retired', tree, Tip(ref)[d])
    <3>1. CASE UNCHANGED wt /\ retired \subseteq retired'
      <4>1. wt' = [wt EXCEPT ![d] = wt[d]] /\ wt[d] \in Texts
        BY <1>types, <2>1, <3>1 DEF Trees
      <4>2. QED
        BY <2>up, <3>1, <4>1
    <3>2. CASE Overwrite(doc, meant, SavedFirst)
      <4>1. wt' = [wt EXCEPT ![d] = doc] /\ retired \subseteq retired'
        BY <3>2 DEF Overwrite, Write
      <4>2. CASE job.remote = NoDoc
        <5>1. doc = NoDoc /\ NoDoc \in Texts
          BY <4>2 DEF Texts
        <5>2. StillIn(retired', NoDoc, Tip(ref)[d])
          BY StillInOf
        <5>3. Text(job.present) \cap Theirs \subseteq retired
          BY <2>1, <4>2 DEF StillIn, Text
        <5>4. SavedFirst \subseteq Text(job.present)
          BY DEF SavedFirst
        <5>5. Text(wt[d]) \ (Text(doc) \cup meant \cup SavedFirst) \subseteq retired' /\ meant \subseteq retired'
          BY <3>2 DEF Overwrite
        <5>6. StillIn(retired', wt[d], NoDoc)
          BY <4>1, <5>1, <5>3, <5>4, <5>5 DEF StillIn
        <5>7. QED
          BY <4>1, <5>1, <5>2, <5>6
      <4>3. CASE job.remote # NoDoc
        <5>1. doc = Tip(ref)[d] /\ doc \in Texts
          BY <1>docs, <2>1, <4>3
        <5>2. QED
          BY <2>up, <4>1, <5>1
      <4>4. QED
        BY <4>2, <4>3
    <3>3. (UNCHANGED wt /\ retired \subseteq retired') \/ Overwrite(doc, meant, SavedFirst)
      BY <2>2 DEF LeaveDocument
    <3>4. QED
      BY <3>1, <3>2, <3>3
  <2>5. PICK tree \in Texts : /\ wt' = [wt EXCEPT ![d] = tree] /\ retired \subseteq retired'
                              /\ StillIn(retired', wt[d], tree) /\ StillIn(retired', tree, Tip(ref)[d])
    BY <2>4
  <2>6. \A c \in Docs : \A i \in DOMAIN saved'[c] : StillIn(retired', saved'[c][i], Tip(ref)[c])
    BY <2>3, <2>5, StillInMore
  <2>7. made' \subseteq made \cup Mine /\ sync'.pc = sync.pc /\ sync'.head = sync.head
    BY <2>2
  <2> HIDE DEF d, meant, doc
  <2>8. QED
    BY <2>1, <2>2, <2>5, <2>6, <2>7, WriteContent
<1>37. CASE Revise
  BY <1>37, <1>moved DEF Revise, LeaveDocument
<1>38. CASE Discard
  <2> DEFINE d == job.doc
  <2>1. /\ UNCHANGED <<origin, ref, branch, index, wt, reb, made>> /\ retired \subseteq retired'
        /\ d \in Docs /\ saved[d] \in Seq(SUBSET Edits)
    BY <1>38, <1>read, <1>types DEF Discard, clone
  <2>2. CASE saved[d] # <<>> /\ Head(saved[d]) = job.text
    <3>1. DiscardFrom(d, saved[d])
      BY <1>38, <2>2 DEF Discard
    <3>2. wt' = [wt EXCEPT ![d] = wt[d]]
      BY <1>types, <2>1 DEF Trees
    <3>3. /\ sync'.pc = sync.pc /\ sync'.head = sync.head
          /\ \A c \in Docs : \A i \in DOMAIN saved'[c] : \E j \in DOMAIN saved[c] : saved'[c][i] = saved[c][j]
      <4> HIDE DEF d
      <4>1. QED
        BY <2>1, <2>2, <3>1, Discarded
    <3>4. \A c \in Docs : \A i \in DOMAIN saved'[c] : StillIn(retired', saved'[c][i], Tip(ref)[c])
      BY <2>1, <3>3, CopiesCame, StillInMore
    <3>5. StillIn(retired', wt[d], wt[d]) /\ StillIn(retired', wt[d], Tip(ref)[d])
      BY <1>came, <2>1, StillInOf, StillInMore
    <3>6. made' \subseteq made \cup Mine
      BY <2>1
    <3> HIDE DEF d
    <3>7. QED
      BY <2>1, <3>2, <3>3, <3>4, <3>5, <3>6, WriteContent
  <2>3. CASE ~(saved[d] # <<>> /\ Head(saved[d]) = job.text)
    <3>1. UNCHANGED <<saved, sync, retired>>
      BY <1>38, <2>3 DEF Discard
    <3>2. QED
      BY <1>moved, <2>1, <3>1
  <2>4. QED
    BY <2>2, <2>3
<1>39. QED
  BY <1>0, <1>1, <1>2, <1>3, <1>4, <1>5, <1>6, <1>7, <1>8, <1>9, <1>10, <1>11, <1>12, <1>13, <1>14, <1>15, <1>16, <1>17, <1>18, <1>19, <1>20, <1>21, <1>22, <1>23, <1>24, <1>25, <1>26, <1>27, <1>28, <1>29, <1>30, <1>31, <1>32, <1>33, <1>34, <1>35, <1>36, <1>37, <1>38, Steps

\* What the clone's view of origin holds, it still holds after any step.
LEMMA RefStep == TypeOK /\ Content /\ [Next]_vars =>
                    retired \subseteq retired' /\ Kept(retired, Tip(ref), Tip(ref'))
<1> SUFFICES ASSUME TypeOK, Content, [Next]_vars
             PROVE  retired \subseteq retired' /\ Kept(retired, Tip(ref), Tip(ref'))
  OBVIOUS
<1>1. retired \subseteq retired'
  BY Steps DEF vars, people, Next, SyncStep, HealRebase, CheckWorktree, ClassifyCopies,
     RemoveCarriedCopies, StageAll, CommitStaged, HeldFetch, HeldMerge, FetchOrigin, StartRebase,
     PickCommit, FinishRebase, LookAtStop, ExportMine, KeepUpstream, ContinueRebase, ContinueRefused,
     HoldMalformed, ReadHead, PushHead, Crash, NetworkFails, PushAnswerLost, LoopFails, PullFetch,
     PullMerge, Teammate, Edit, Mend, TeammateDeletes, Delete, ReadDocument, MergeByHand, Abandon,
     Keep, Take, Revise, Discard, Overwrite, LeaveDocument
<1>2. CASE PushHead
  <2>1. /\ ref \in Seq(Trees) /\ ref # <<>> /\ origin \in Seq(Trees) /\ sync.head \in Seq(Trees)
        /\ IsPrefix(ref, origin) /\ Grows(retired, sync.head)
    BY Shapes DEF Content, OneBoard, HistoriesGrow
  <2>2. CASE IsPrefix(origin, sync.head)
    <3>1. IsPrefix(ref, sync.head)
      BY <2>1, <2>2, PrefixTrans
    <3>2. sync.head # <<>> /\ Kept(retired, Tip(ref), Tip(sync.head))
      BY <2>1, <3>1, PrefixKept
    <3>3. Tip(Forget(sync.head)) = Tip(sync.head)
      BY <2>1, <3>2, Forgotten
    <3>4. Tip(ref') = Tip(sync.head)
      BY <1>2, <2>2, <3>3 DEF PushHead
    <3>5. QED
      BY <1>1, <3>2, <3>4
  <2>3. CASE ~IsPrefix(origin, sync.head)
    BY <1>1, <1>2, <2>3, KeptOf DEF PushHead
  <2>4. QED
    BY <2>2, <2>3
<1>3. CASE ~PushHead
  <2>1. ref' = ref \/ ref' = origin
    BY <1>3, Steps DEF vars, clone, HealRebase, CheckWorktree, ClassifyCopies,
       RemoveCarriedCopies, StageAll, CommitStaged, HeldFetch, HeldMerge, FetchOrigin, StartRebase,
       PickCommit, FinishRebase, LookAtStop, ExportMine, KeepUpstream, ContinueRebase, ContinueRefused,
       HoldMalformed, ReadHead, Crash, NetworkFails, PushAnswerLost, LoopFails, PullFetch,
       PullMerge, Teammate, Edit, Mend, TeammateDeletes, Delete, ReadDocument, MergeByHand, Abandon,
       Keep, Take, Revise, Discard
  <2>2. QED
    BY <1>1, <2>1, RefKept, KeptOf DEF Content
<1>4. QED
  BY <1>2, <1>3

\* What a settlement has read of the document stays upstream, like the document.
LEMMA ReadStep == TypeOK /\ Content /\ ReadThroughRef /\ [Next]_vars => ReadThroughRef'
<1> SUFFICES ASSUME TypeOK, Content, ReadThroughRef, [Next]_vars, job' # NoJob, ~job'.written
             PROVE  /\ StillIn(retired', job'.present, job'.remote)
                    /\ StillIn(retired', job'.present, Tip(ref')[job'.doc])
  BY DEF ReadThroughRef
<1>0. retired \subseteq retired' /\ Kept(retired, Tip(ref), Tip(ref'))
  BY RefStep
<1>1. CASE job' = job
  <2>1. job.doc \in Docs /\ StillIn(retired, job.present, job.remote)
        /\ StillIn(retired, job.present, Tip(ref)[job.doc])
    BY <1>1 DEF TypeOK, Jobs, ReadThroughRef
  <2>2. StillIn(retired, Tip(ref)[job.doc], Tip(ref')[job.doc])
    BY <1>0, <2>1 DEF Kept
  <2>3. StillIn(retired, job.present, Tip(ref')[job.doc])
    BY <2>1, <2>2, StillInOf
  <2>4. QED
    BY <1>0, <1>1, <2>1, <2>3, StillInMore
<1>2. ASSUME NEW d \in Docs, ReadDocument(d)
      PROVE  /\ StillIn(retired', job'.present, job'.remote)
             /\ StillIn(retired', job'.present, Tip(ref')[job'.doc])
  BY <1>2 DEF ReadDocument, Content, CameThroughRef, Kept
<1>3. ASSUME Keep \/ Take \/ Revise PROVE FALSE
  <2>1. job # NoJob /\ job \in Jobs
    BY <1>3 DEF TypeOK, Keep, Take, Revise, Judging
  <2>2. \/ job' = NoJob
        \/ \E doc : job' = [job EXCEPT !.present = doc, !.written = TRUE]
        \/ job' = [job EXCEPT !.written = TRUE]
    BY <1>3 DEF Keep, Take, Revise, Overwrite, LeaveDocument
  <2>3. QED
    BY <2>1, <2>2 DEF Jobs
<1>4. \/ job' = job \/ job' = NoJob \/ \E d \in Docs : ReadDocument(d)
      \/ Keep \/ Take \/ Revise
  BY Steps DEF vars, people, HealRebase, CheckWorktree, ClassifyCopies,
     RemoveCarriedCopies, StageAll, CommitStaged, HeldFetch, HeldMerge, FetchOrigin, StartRebase,
     PickCommit, FinishRebase, LookAtStop, ExportMine, KeepUpstream, ContinueRebase, ContinueRefused,
     HoldMalformed, ReadHead, PushHead, Crash, NetworkFails, PushAnswerLost, LoopFails, PullFetch,
     PullMerge, Teammate, Edit, Mend, TeammateDeletes, Delete, MergeByHand, Abandon, Discard
<1>5. QED
  BY <1>1, <1>2, <1>3, <1>4

(***************************************************************************)
(* The theorems.                                                           *)
(***************************************************************************)

LEMMA BoardInit == Init => BoardInv
<1> SUFFICES ASSUME Init PROVE BoardInv
  OBVIOUS
<1> DEFINE empty == [d \in Docs |-> {}]
<1>1. empty \in Trees
  <2>1. {} \in Texts
    BY SetsAreTexts
  <2>2. QED
    BY <2>1 DEF Trees
<1>2. /\ origin = <<empty>> /\ ref = <<empty>> /\ branch = <<empty>> /\ index = empty /\ wt = empty
      /\ reb = NoRebase /\ sync = Idle /\ pull = "idle" /\ saved = [d \in Docs |-> <<>>]
      /\ job = NoJob /\ made = {} /\ retired = {} /\ overrun = {} /\ exposed = {}
      /\ faults = MaxFaults /\ deletes = MaxDeletes /\ settles = MaxSettles
  BY DEF Init
<1> DEFINE one == <<empty>>
<1>3. /\ one \in Seq(Trees) /\ one # <<>> /\ Len(one) = 1 /\ one[1] = empty /\ Tip(one) = empty
      /\ DOMAIN one = {1}
  <2> HIDE DEF empty
  <2>1. QED
    BY <1>1 DEF Tip, Last
<1>4. \A d \in Docs : empty[d] = {} /\ ~Broken(empty[d])
  BY BoardAssumption DEF Broken, Text
<1> HIDE DEF empty, one
<1>5. origin = one /\ ref = one /\ branch = one
  BY <1>2 DEF one
<1>6. TypeOK
  <2>1. [d \in Docs |-> <<>>] \in [Docs -> Seq(SUBSET Edits)]
    BY EmptySeq
  <2>2. MaxFaults \in Nat /\ MaxDeletes \in Nat /\ MaxSettles \in Nat
    BY BoardAssumption
  <2>3. QED
    BY <1>1, <1>2, <1>3, <1>5, <2>1, <2>2, NoRebaseType, IdleType DEF TypeOK
<1>7. ~InRebase /\ sync.pc = "idle" /\ sync.head = <<>> /\ reb.head = <<>> /\ reb.todo = <<>> /\ reb.unmerged = {}
  BY <1>2 DEF InRebase, Idle, NoRebase
<1>8. RebaseFits
  BY <1>7 DEF RebaseFits, RebasePCs, At
<1>9. OneBoard
  BY <1>3, <1>5, <1>7, PrefixSame DEF OneBoard, At
<1>10. HistoriesGrow
  <2>1. Grows(retired, one)
    BY <1>3, KeptOf DEF Grows
  <2>2. QED
    BY <1>5, <1>7, <2>1, GrowsEmpty DEF HistoriesGrow
<1>11. StagedOnTop
  BY <1>2, <1>3, <1>5, <1>7, KeptOf DEF StagedOnTop
<1>12. CameThroughRef
  <2>1. \A d \in Docs : DOMAIN saved[d] = {}
    BY <1>2
  <2>2. QED
    BY <1>2, <1>3, <1>5, <1>7, <2>1, KeptOf DEF CameThroughRef
<1>13. PublishedInPlace
  BY <1>2 DEF PublishedInPlace
<1>14. PushParses
  BY <1>3, <1>4, <1>5, <1>7 DEF PushParses, Parses, At
<1>15. ReadThroughRef
  BY <1>2 DEF ReadThroughRef
<1>16. QED
  BY <1>6, <1>8, <1>9, <1>10, <1>11, <1>12, <1>13, <1>14, <1>15 DEF BoardInv

LEMMA BoardStep == BoardInv /\ [Next]_vars => BoardInv'
<1> SUFFICES ASSUME BoardInv, [Next]_vars PROVE BoardInv'
  OBVIOUS
<1>1. TypeOK /\ RebaseFits /\ OneBoard /\ Content /\ ReadThroughRef
  BY DEF BoardInv, Content
<1>2. TypeOK' /\ RebaseFits' /\ Content' /\ ReadThroughRef'
  BY <1>1, TypeStep, RebaseFitsStep, ContentStep, ReadStep
<1>3. QED
  BY <1>2 DEF BoardInv, Content

\* The inductive invariant, for any board: whatever edits, deletions, conflicts,
\* merges, pulls, settlements, kills and failing commands do to the clone.
THEOREM Invariance == Spec => []BoardInv
<1>1. Init => BoardInv
  BY BoardInit
<1>2. BoardInv /\ [Next]_vars => BoardInv'
  BY BoardStep
<1>3. QED
  BY <1>1, <1>2, PTL DEF Spec

\* Every variable keeps its type.
THEOREM TypeCorrect == Spec => []TypeOK
<1>1. BoardInv => TypeOK
  BY DEF BoardInv
<1>2. QED
  BY <1>1, Invariance, PTL

\* No word a teammate published leaves the shared board, unless somebody dropped
\* it on purpose or a settlement overran it: no rebase, no conflict and no push
\* loses it.
THEOREM TeammatesKept == Spec => []TeammateKept
<1>1. BoardInv => TeammateKept
  <2> SUFFICES ASSUME BoardInv, NEW e \in (Theirs \cap made) \ retired PROVE e \in Published
    BY DEF TeammateKept
  <2>1. DocOf[e] \in Docs /\ e \in Text(Tip(origin)[DocOf[e]])
    BY BoardAssumption DEF BoardInv, PublishedInPlace, Edits
  <2>2. QED
    BY <2>1 DEF Published
<1>2. QED
  BY <1>1, Invariance, PTL

\* The shared board always parses: the hold looks at exactly what a push sends.
THEOREM AlwaysParses == Spec => []PublishedParses
<1>1. BoardInv => PublishedParses
  BY DEF BoardInv, PushParses, Parses, PublishedParses
<1>2. QED
  BY <1>1, Invariance, PTL

(***************************************************************************)
(* The words of this clone's people: no word is lost.                      *)
(***************************************************************************)

\* The words of this clone's people nobody dropped, and where one of them is.
Own == (Mine \cap made) \ retired
\* The tree holds the word.
In(e, tree) == e \in Text(tree[DocOf[e]])
\* A saved copy of its document holds it.
Copied(e) == \E i \in DOMAIN saved[DocOf[e]] : e \in saved[DocOf[e]][i]

\* The tree `new` holds the words of this clone's people in `old`, but for those
\* someone dropped.
OwnKept(dropped, old, new) ==
    \A d \in Docs : (Text(old[d]) \cap Mine) \ dropped \subseteq Text(new[d])

\* The first n commits of a history are those of `upstream`.
Shares(history, upstream, n) ==
    n <= Len(history) /\ \A k \in 1..n : history[k] = upstream[k]

\* What origin's history holds beyond the commits a history shares with it drops
\* none of those words: only this clone drops them, and it does so on top.
Beyond(dropped, history, upstream) ==
    \A i, j \in DOMAIN upstream :
        i < j /\ ~Shares(history, upstream, i + 1) => OwnKept(dropped, upstream[i], upstream[j])

\* Keeping those words composes.
LEMMA OwnKeptOf == ASSUME NEW dropped
                   PROVE  /\ \A a : OwnKept(dropped, a, a)
                          /\ \A a, b, c : OwnKept(dropped, a, b) /\ OwnKept(dropped, b, c)
                                             => OwnKept(dropped, a, c)
<1>1. \A a : OwnKept(dropped, a, a)
  BY DEF OwnKept
<1>2. ASSUME NEW a, NEW b, NEW c, OwnKept(dropped, a, b), OwnKept(dropped, b, c)
      PROVE  OwnKept(dropped, a, c)
  <2> SUFFICES ASSUME NEW d \in Docs PROVE (Text(a[d]) \cap Mine) \ dropped \subseteq Text(c[d])
    BY DEF OwnKept
  <2>1. /\ (Text(a[d]) \cap Mine) \ dropped \subseteq Text(b[d])
        /\ (Text(b[d]) \cap Mine) \ dropped \subseteq Text(c[d])
    BY <1>2 DEF OwnKept
  <2>2. QED
    BY <2>1
<1>3. QED
  BY <1>1, <1>2

\* Words dropped later weaken both.
LEMMA BeyondMore == ASSUME NEW dropped, NEW more, dropped \subseteq more
                    PROVE  \A h, o : Beyond(dropped, h, o) => Beyond(more, h, o)
<1>1. \A a, b : OwnKept(dropped, a, b) => OwnKept(more, a, b)
  BY DEF OwnKept
<1>2. QED
  BY <1>1 DEF Beyond

\* A longer history shares at least as much.
LEMMA BeyondFurther ==
    ASSUME NEW dropped, NEW h \in Seq(Trees), NEW g \in Seq(Trees), NEW o \in Seq(Trees),
           Beyond(dropped, h, o), IsPrefix(h, g)
    PROVE  Beyond(dropped, g, o)
<1> SUFFICES ASSUME NEW i \in DOMAIN o, NEW j \in DOMAIN o, i < j, ~Shares(g, o, i + 1)
             PROVE  OwnKept(dropped, o[i], o[j])
  BY DEF Beyond
<1>1. Len(h) \in Nat /\ Len(g) \in Nat /\ i + 1 \in Nat
  OBVIOUS
<1>2. Len(h) <= Len(g) /\ \A k \in 1..Len(h) : h[k] = g[k]
  BY PrefixIs
<1>3. ~Shares(h, o, i + 1)
  <2> SUFFICES ASSUME Shares(h, o, i + 1) PROVE Shares(g, o, i + 1)
    OBVIOUS
  <2>1. i + 1 <= Len(h) /\ \A k \in 1..(i + 1) : h[k] = o[k]
    BY DEF Shares
  <2>2. i + 1 <= Len(g)
    BY <1>1, <1>2, <2>1
  <2>3. ASSUME NEW k \in 1..(i + 1) PROVE g[k] = o[k]
    <3>1. k \in 1..Len(h)
      BY <1>1, <2>1
    <3>2. QED
      BY <1>2, <2>1, <3>1
  <2>4. QED
    BY <2>2, <2>3 DEF Shares
<1>4. QED
  BY <1>3 DEF Beyond

\* So does a history with a commit on top.
LEMMA BeyondOnTop ==
    ASSUME NEW dropped, NEW h \in Seq(Trees), NEW x \in Trees, NEW o \in Seq(Trees),
           Beyond(dropped, h, o)
    PROVE  Beyond(dropped, Append(h, x), o)
<1>1. Append(h, x) \in Seq(Trees)
  BY OnTop
<1>2. IsPrefix(h, Append(h, x))
  BY PrefixSame, PrefixOnTop
<1>3. QED
  BY <1>1, <1>2, BeyondFurther

\* A history that holds all of origin leaves nothing beyond it.
LEMMA BeyondWithin ==
    ASSUME NEW dropped, NEW h \in Seq(Trees), NEW o \in Seq(Trees), IsPrefix(o, h)
    PROVE  Beyond(dropped, h, o)
<1> SUFFICES ASSUME NEW i \in DOMAIN o, NEW j \in DOMAIN o, i < j PROVE Shares(h, o, i + 1)
  BY DEF Beyond
<1>1. Len(h) \in Nat /\ Len(o) \in Nat /\ i \in 1..Len(o) /\ j \in 1..Len(o) /\ i + 1 <= Len(o)
  OBVIOUS
<1>2. Len(o) <= Len(h) /\ \A k \in 1..Len(o) : o[k] = h[k]
  BY PrefixIs
<1>3. \A k \in 1..(i + 1) : k \in 1..Len(o)
  BY <1>1
<1>4. QED
  BY <1>1, <1>2, <1>3 DEF Shares

\* A commit that keeps those words is published on top of origin.
LEMMA BeyondPublished ==
    ASSUME NEW dropped, NEW h \in Seq(Trees), NEW o \in Seq(Trees), o # <<>>, NEW x \in Trees,
           Beyond(dropped, h, o), OwnKept(dropped, Tip(o), x)
    PROVE  Beyond(dropped, h, Append(o, x))
<1> DEFINE g == Append(o, x)
<1>1. /\ g \in Seq(Trees) /\ Len(g) = Len(o) + 1 /\ \A i \in 1..Len(o) : g[i] = o[i]
      /\ g[Len(o) + 1] = x
  BY AppendProperties
<1>2. /\ Len(o) \in Nat \ {0} /\ DOMAIN o = 1..Len(o) /\ Tip(o) = o[Len(o)]
  BY TipOf
<1>3. DOMAIN g = 1..(Len(o) + 1)
  BY <1>1, <1>2
<1> HIDE DEF g
<1>4. ASSUME NEW i \in DOMAIN g, NEW j \in DOMAIN g, i < j, ~Shares(h, g, i + 1)
      PROVE  OwnKept(dropped, g[i], g[j])
  <2>1. i \in 1..Len(o) /\ g[i] = o[i]
    BY <1>1, <1>2, <1>3, <1>4
  <2>2. ASSUME i < Len(o) PROVE ~Shares(h, o, i + 1)
    <3>1. \A k \in 1..(i + 1) : k \in 1..Len(o)
      BY <1>2, <2>1, <2>2
    <3>2. QED
      BY <1>1, <1>4, <3>1 DEF Shares
  <2>3. CASE j <= Len(o)
    <3>1. j \in 1..Len(o) /\ g[j] = o[j] /\ i < Len(o)
      BY <1>1, <1>2, <1>3, <1>4, <2>1, <2>3
    <3>2. QED
      BY <1>2, <1>4, <2>1, <2>2, <3>1 DEF Beyond
  <2>4. CASE j = Len(o) + 1 /\ i = Len(o)
    BY <1>1, <1>2, <2>1, <2>4
  <2>5. CASE j = Len(o) + 1 /\ i < Len(o)
    <3>1. Len(o) \in 1..Len(o) /\ ~Shares(h, o, i + 1)
      BY <1>2, <2>2, <2>5
    <3>2. OwnKept(dropped, o[i], Tip(o))
      BY <1>2, <2>1, <2>5, <3>1 DEF Beyond
    <3>3. QED
      BY <1>1, <2>1, <2>5, <3>2, OwnKeptOf
  <2>6. QED
    BY <1>2, <1>3, <1>4, <2>1, <2>3, <2>4, <2>5
<1>5. QED
  BY <1>4 DEF Beyond, g

\* The clone's view of origin, when the branch does not hold all of it.
LEMMA BeyondRef ==
    ASSUME NEW dropped, NEW b \in Seq(Trees), NEW r \in Seq(Trees), NEW o \in Seq(Trees),
           IsPrefix(r, o), ~IsPrefix(r, b), Beyond(dropped, b, o)
    PROVE  Beyond(dropped, r, o)
<1> SUFFICES ASSUME NEW i \in DOMAIN o, NEW j \in DOMAIN o, i < j, ~Shares(r, o, i + 1)
             PROVE  OwnKept(dropped, o[i], o[j])
  BY DEF Beyond
<1>1. Len(r) \in Nat /\ Len(b) \in Nat /\ i \in Nat
  OBVIOUS
<1>2. Len(r) <= Len(o) /\ \A k \in 1..Len(r) : r[k] = o[k]
  BY PrefixIs
<1>3. i + 1 > Len(r)
  <2> SUFFICES ASSUME i + 1 <= Len(r) PROVE FALSE
    BY <1>1
  <2>1. \A k \in 1..(i + 1) : k \in 1..Len(r)
    BY <1>1
  <2>2. QED
    BY <1>2, <2>1 DEF Shares
<1>4. ~Shares(b, o, i + 1)
  <2> SUFFICES ASSUME Shares(b, o, i + 1) PROVE IsPrefix(r, b)
    OBVIOUS
  <2>1. i + 1 <= Len(b) /\ \A k \in 1..(i + 1) : b[k] = o[k]
    BY DEF Shares
  <2>2. Len(r) <= Len(b)
    BY <1>1, <1>3, <2>1
  <2>3. ASSUME NEW k \in 1..Len(r) PROVE r[k] = b[k]
    <3>1. k \in 1..(i + 1)
      BY <1>1, <1>3
    <3>2. QED
      BY <1>2, <2>1, <3>1
  <2>4. QED
    BY <2>2, <2>3, PrefixIs
<1>5. QED
  BY <1>4 DEF Beyond

\* What a fast-forward brings keeps those words.
LEMMA ForwardOwn ==
    ASSUME NEW dropped, NEW b \in Seq(Trees), b # <<>>, NEW r \in Seq(Trees), NEW o \in Seq(Trees),
           IsPrefix(b, r), IsPrefix(r, o), Beyond(dropped, b, o)
    PROVE  OwnKept(dropped, Tip(b), Tip(r))
<1>1. /\ Len(b) \in Nat \ {0} /\ Tip(b) = b[Len(b)] /\ Len(r) \in Nat /\ Len(o) \in Nat
      /\ DOMAIN o = 1..Len(o)
  BY TipOf
<1>2. /\ Len(b) <= Len(r) /\ \A k \in 1..Len(b) : b[k] = r[k]
      /\ Len(r) <= Len(o) /\ \A k \in 1..Len(r) : r[k] = o[k]
  BY PrefixIs
<1>3. r # <<>> /\ Tip(r) = r[Len(r)]
  <2>1. r # <<>>
    BY <1>1, <1>2, EmptySeq
  <2>2. QED
    BY <2>1, TipOf
<1>4. Len(b) \in 1..Len(b) /\ Len(b) \in 1..Len(r) /\ Len(r) \in 1..Len(r)
  BY <1>1, <1>2
<1>5. Tip(b) = o[Len(b)] /\ Tip(r) = o[Len(r)] /\ Len(b) \in DOMAIN o /\ Len(r) \in DOMAIN o
  <2>1. b[Len(b)] = r[Len(b)] /\ r[Len(b)] = o[Len(b)] /\ r[Len(r)] = o[Len(r)]
    BY <1>2, <1>4
  <2>2. QED
    BY <1>1, <1>2, <1>3, <1>4, <2>1
<1>6. CASE Len(b) = Len(r)
  BY <1>5, <1>6, OwnKeptOf
<1>7. CASE Len(b) < Len(r)
  <2>1. ~Shares(b, o, Len(b) + 1)
    BY <1>1 DEF Shares
  <2>2. QED
    BY <1>5, <1>7, <2>1 DEF Beyond
<1>8. QED
  BY <1>1, <1>2, <1>6, <1>7

\* What two histories share, and no more: the next commits of both differ.
LEMMA SharedOf ==
    ASSUME NEW h \in Seq(Trees), NEW u \in Seq(Trees), h # <<>>, u # <<>>, h[1] = u[1]
    PROVE  /\ Shared(h, u) \in 1..Len(h) /\ Shared(h, u) <= Len(u)
           /\ \A k \in 1..Shared(h, u) : h[k] = u[k]
           /\ Shared(h, u) < Len(h) /\ Shared(h, u) < Len(u)
                 => h[Shared(h, u) + 1] # u[Shared(h, u) + 1]
<1> DEFINE S == {n \in 0..Len(h) : n <= Len(u) /\ SubSeq(h, 1, n) = SubSeq(u, 1, n)}
           n == Max(S)
<1>1. Len(h) \in Nat \ {0} /\ Len(u) \in Nat \ {0}
  BY EmptySeq
<1>2. \A m \in 1..Len(h) : m <= Len(u) =>
         /\ SubSeq(h, 1, m) \in Seq(Trees) /\ Len(SubSeq(h, 1, m)) = m
         /\ \A k \in 1..m : SubSeq(h, 1, m)[k] = h[k]
         /\ SubSeq(u, 1, m) \in Seq(Trees) /\ Len(SubSeq(u, 1, m)) = m
         /\ \A k \in 1..m : SubSeq(u, 1, m)[k] = u[k]
  <2> SUFFICES ASSUME NEW m \in 1..Len(h), m <= Len(u)
               PROVE  /\ SubSeq(h, 1, m) \in Seq(Trees) /\ Len(SubSeq(h, 1, m)) = m
                      /\ \A k \in 1..m : SubSeq(h, 1, m)[k] = h[k]
                      /\ SubSeq(u, 1, m) \in Seq(Trees) /\ Len(SubSeq(u, 1, m)) = m
                      /\ \A k \in 1..m : SubSeq(u, 1, m)[k] = u[k]
    OBVIOUS
  <2>1. \A k \in 1..m : k \in 1..Len(h) /\ k \in 1..Len(u)
    BY <1>1
  <2>2. \A k \in 1..m : h[k] \in Trees /\ u[k] \in Trees
    BY <1>1, <2>1, ElementOfSeq
  <2>3. QED
    BY <1>1, <2>1, <2>2, SubSeqProperties
<1>3. \A m \in 1..Len(h) : m <= Len(u) => (m \in S <=> \A k \in 1..m : h[k] = u[k])
  <2> SUFFICES ASSUME NEW m \in 1..Len(h), m <= Len(u)
               PROVE  m \in S <=> \A k \in 1..m : h[k] = u[k]
    OBVIOUS
  <2> DEFINE a == SubSeq(h, 1, m)
             c == SubSeq(u, 1, m)
  <2>1. /\ a \in Seq(Trees) /\ Len(a) = m /\ \A k \in 1..m : a[k] = h[k]
        /\ c \in Seq(Trees) /\ Len(c) = m /\ \A k \in 1..m : c[k] = u[k]
    BY <1>2
  <2>2. m \in S <=> a = c
    OBVIOUS
  <2> HIDE DEF a, c, S
  <2>3. a = c <=> \A k \in 1..m : a[k] = c[k]
    BY <2>1, SeqEqual
  <2>4. QED
    BY <2>1, <2>2, <2>3
<1>4. S \in SUBSET (0..Len(h)) /\ 1 \in S
  <2>1. 1 \in 1..Len(h) /\ 1 <= Len(u) /\ \A k \in 1..1 : h[k] = u[k]
    BY <1>1
  <2>2. 1 \in S
    <3> HIDE DEF S
    <3>1. QED
      BY <1>3, <2>1
  <2>3. QED
    BY <2>2
<1>5. Shared(h, u) = n
  BY DEF Shared
<1>6. n \in S /\ \A k \in S : n >= k
  <2> HIDE DEF S
  <2>1. QED
    BY <1>1, <1>4, MaxOf
<1>7. n \in 1..Len(h) /\ n <= Len(u)
  BY <1>1, <1>4, <1>6
<1> HIDE DEF n, S
<1>8. \A k \in 1..n : h[k] = u[k]
  BY <1>3, <1>6, <1>7
<1>9. ASSUME n < Len(h), n < Len(u), h[n + 1] = u[n + 1] PROVE FALSE
  <2>1. n + 1 \in 1..Len(h) /\ n + 1 <= Len(u) /\ ~(n >= n + 1)
    BY <1>1, <1>7, <1>9
  <2>2. ASSUME NEW k \in 1..(n + 1) PROVE h[k] = u[k]
    <3>1. k \in 1..n \/ k = n + 1
      BY <1>7
    <3>2. QED
      BY <1>8, <1>9, <3>1
  <2>3. n + 1 \in S
    BY <1>3, <2>1, <2>2
  <2>4. QED
    BY <1>6, <2>1, <2>3
<1>10. QED
  BY <1>5, <1>7, <1>8, <1>9

\* The outgoing commits, in order, from the last shared one to the tip.
LEMMA OutgoingIs ==
    ASSUME NEW h \in Seq(Trees), NEW u \in Seq(Trees), h # <<>>, u # <<>>, h[1] = u[1]
    PROVE  /\ Outgoing(h, u) \in Seq(Commits) /\ Len(Outgoing(h, u)) = Len(h) - Shared(h, u)
           /\ \A i \in 1..(Len(h) - Shared(h, u)) :
                 /\ Outgoing(h, u)[i].from = h[Shared(h, u) + i - 1]
                 /\ Outgoing(h, u)[i].to = h[Shared(h, u) + i]
<1> DEFINE n == Shared(h, u)
           out == [i \in 1..(Len(h) - n) |-> [from |-> h[n + i - 1], to |-> h[n + i]]]
<1>1. n \in 1..Len(h) /\ Len(h) \in Nat
  <2>1. n \in 1..Len(h)
    BY SharedOf
  <2>2. QED
    BY <2>1
<1>2. Outgoing(h, u) = out
  BY DEF Outgoing
<1> HIDE DEF n
<1>3. out \in Seq(Commits)
  BY <1>1, <1>2, OutgoingOf
<1>4. Len(out) = Len(h) - n
  <2>1. DOMAIN out = 1..(Len(h) - n) /\ Len(h) - n \in Nat
    BY <1>1
  <2> HIDE DEF out
  <2>2. QED
    BY <1>3, <2>1
<1>5. \A i \in 1..(Len(h) - n) : out[i].from = h[n + i - 1] /\ out[i].to = h[n + i]
  OBVIOUS
<1> HIDE DEF out
<1>6. QED
  BY <1>2, <1>3, <1>4, <1>5 DEF n

\* The commit a rebase starts below: what it holds, the clone's view of origin
\* holds.
LEMMA BaseOwn ==
    ASSUME NEW dropped, NEW b \in Seq(Trees), b # <<>>, NEW r \in Seq(Trees), r # <<>>,
           NEW o \in Seq(Trees), b[1] = r[1], IsPrefix(r, o), ~IsPrefix(r, b), Beyond(dropped, b, o)
    PROVE  OwnKept(dropped, b[Shared(b, r)], Tip(r))
<1> DEFINE n == Shared(b, r)
<1>1. /\ n \in 1..Len(b) /\ n <= Len(r) /\ \A k \in 1..n : b[k] = r[k]
      /\ n < Len(b) /\ n < Len(r) => b[n + 1] # r[n + 1]
  BY SharedOf
<1> HIDE DEF n
<1>2. Len(b) \in Nat /\ Len(r) \in Nat \ {0} /\ Len(o) \in Nat /\ DOMAIN o = 1..Len(o) /\ Tip(r) = r[Len(r)]
  BY TipOf
<1>3. Len(r) <= Len(o) /\ \A k \in 1..Len(r) : r[k] = o[k]
  BY PrefixIs
<1>4. n < Len(r)
  <2> SUFFICES ASSUME n = Len(r) PROVE IsPrefix(r, b)
    BY <1>1, <1>2
  <2>1. Len(r) <= Len(b) /\ \A k \in 1..Len(r) : r[k] = b[k]
    BY <1>1, <1>2
  <2>2. QED
    BY <2>1, PrefixIs
<1>5. ~Shares(b, o, n + 1)
  <2> SUFFICES ASSUME Shares(b, o, n + 1) PROVE FALSE
    OBVIOUS
  <2>1. n + 1 <= Len(b) /\ n + 1 \in 1..(n + 1) /\ n + 1 \in 1..Len(r)
    BY <1>1, <1>2, <1>4 DEF Shares
  <2>2. b[n + 1] = o[n + 1] /\ r[n + 1] = o[n + 1] /\ n < Len(b)
    BY <1>1, <1>2, <1>3, <2>1 DEF Shares
  <2>3. QED
    BY <1>1, <1>4, <2>2
<1>6. n \in DOMAIN o /\ Len(r) \in DOMAIN o /\ n \in 1..Len(r) /\ n \in 1..n /\ Len(r) \in 1..Len(r)
  BY <1>1, <1>2, <1>3
<1>7. b[n] = o[n] /\ Tip(r) = o[Len(r)]
  BY <1>1, <1>2, <1>3, <1>6
<1>8. QED
  BY <1>4, <1>5, <1>6, <1>7 DEF Beyond, n

\* A merge keeps a word of the replayed commit, unless its parent had it and
\* upstream dropped it.
LEMMA MergedOwn ==
    ASSUME NEW base \in Texts, NEW up \in Texts, NEW my \in Texts, NEW e,
           e \in Text(my), e \in Text(base) => e \in Text(up)
    PROVE  e \in Text(Merged(base, up, my))
<1> DEFINE b == Text(base)
           u == Text(up)
           m == Text(my)
           r == (u \cap m) \cup (u \ b) \cup (m \ b)
<1>1. \/ my = base /\ Merged(base, up, my) = up
      \/ Merged(base, up, my) = my
      \/ Merged(base, up, my) = r
  BY DEF Merged
<1>2. CASE Merged(base, up, my) = r
  <2>1. r \in SUBSET Edits
    BY TextOf
  <2>2. Text(r) = r
    BY <2>1, BoardAssumption DEF Text
  <2>3. QED
    BY <1>2, <2>2
<1>3. QED
  BY <1>1, <1>2

\* A copy that is not the one removed stays.
LEMMA WithoutKeeps ==
    ASSUME NEW S, NEW copies \in Seq(S), NEW text, NEW j \in DOMAIN copies, copies[j] # text
    PROVE  \E i \in DOMAIN Without(copies, text) : Without(copies, text)[i] = copies[j]
<1>1. CASE text \notin ToSet(copies)
  BY <1>1 DEF Without
<1>2. CASE text \in ToSet(copies)
  <2> DEFINE k == CHOOSE i \in DOMAIN copies : copies[i] = text
             a == SubSeq(copies, 1, k - 1)
             b == SubSeq(copies, k + 1, Len(copies))
  <2>1. k \in 1..Len(copies) /\ copies[k] = text
    BY <1>2 DEF ToSet
  <2>2. /\ a \in Seq(S) /\ Len(a) = k - 1
        /\ \A i \in 1..(k - 1) : a[i] = copies[i]
    <3> HIDE DEF k
    <3>1. QED
      BY <2>1, SubSeqProperties
  <2>3. /\ b \in Seq(S) /\ Len(b) = Len(copies) - k
        /\ \A i \in 1..(Len(copies) - k) : b[i] = copies[k + i]
    <3> HIDE DEF k
    <3>1. QED
      BY <2>1, SubSeqProperties
  <2>4. Without(copies, text) = a \o b
    BY <1>2 DEF Without, RemoveAt
  <2> HIDE DEF a, b, k
  <2> DEFINE c == a \o b
  <2>5. /\ c \in Seq(S) /\ Len(c) = Len(a) + Len(b)
        /\ \A i \in 1..(Len(a) + Len(b)) :
              c[i] = IF i <= Len(a) THEN a[i] ELSE b[i - Len(a)]
    BY <2>2, <2>3, ConcatProperties
  <2> HIDE DEF c
  <2>6. j \in 1..Len(copies) /\ j # k /\ Len(copies) \in Nat
    BY <2>1
  <2>7. \E i \in 1..Len(c) : c[i] = copies[j]
    <3>1. CASE j < k
      <4>1. j \in 1..(k - 1) /\ j \in 1..Len(c) /\ j <= Len(a)
        BY <2>1, <2>2, <2>3, <2>5, <2>6, <3>1
      <4>2. QED
        BY <2>2, <2>5, <4>1
    <3>2. CASE j > k
      <4>1. j - k \in 1..(Len(copies) - k) /\ k + (j - k) = j
        BY <2>1, <2>6, <3>2
      <4>2. /\ Len(a) + (j - k) \in 1..(Len(a) + Len(b)) /\ ~(Len(a) + (j - k) <= Len(a))
            /\ (Len(a) + (j - k)) - Len(a) = j - k
        <5>1. PICK q \in 1..Len(b) : q = j - k
          BY <2>3, <4>1
        <5>2. Len(a) \in Nat /\ Len(b) \in Nat
          BY <2>2, <2>3
        <5>3. /\ Len(a) + q \in 1..(Len(a) + Len(b)) /\ ~(Len(a) + q <= Len(a))
              /\ (Len(a) + q) - Len(a) = q
          BY <5>2
        <5>4. QED
          BY <5>1, <5>3
      <4>3. c[Len(a) + (j - k)] = b[j - k]
        BY <2>5, <4>2
      <4>4. QED
        BY <2>3, <2>5, <4>1, <4>2, <4>3
    <3>3. QED
      BY <2>1, <2>6, <3>1, <3>2
  <2>8. Without(copies, text) = c /\ DOMAIN c = 1..Len(c)
    BY <2>4, <2>5 DEF c
  <2>9. QED
    BY <2>7, <2>8
<1>3. QED
  BY <1>1, <1>2

\* The words of the copies, once one is saved and once the oldest is discarded.
LEMMA WithCopyKeeps ==
    ASSUME NEW S, NEW copies \in Seq(S), NEW text \in S
    PROVE  /\ \A j \in DOMAIN copies : j \in DOMAIN WithCopy(copies, text)
                                       /\ WithCopy(copies, text)[j] = copies[j]
           /\ \E i \in DOMAIN WithCopy(copies, text) : WithCopy(copies, text)[i] = text
<1>1. CASE \E i \in DOMAIN copies : copies[i] = text
  BY <1>1 DEF WithCopy
<1>2. CASE ~\E i \in DOMAIN copies : copies[i] = text
  <2> DEFINE c == Append(copies, text)
  <2>1. /\ c \in Seq(S) /\ Len(c) = Len(copies) + 1 /\ c[Len(copies) + 1] = text
        /\ \A i \in 1..Len(copies) : c[i] = copies[i]
    BY AppendProperties
  <2>2. WithCopy(copies, text) = c
    BY <1>2 DEF WithCopy
  <2> HIDE DEF c
  <2>3. DOMAIN c = 1..(Len(copies) + 1) /\ DOMAIN copies = 1..Len(copies) /\ Len(copies) \in Nat
    BY <2>1
  <2>4. QED
    BY <2>1, <2>2, <2>3
<1>3. QED
  BY <1>1, <1>2

\* A copy that is not the oldest stays when the oldest goes.
LEMMA TailKeeps ==
    ASSUME NEW S, NEW s \in Seq(S), s # <<>>, NEW j \in DOMAIN s
    PROVE  s[j] = Head(s) \/ \E i \in DOMAIN Tail(s) : Tail(s)[i] = s[j]
<1>1. Head(s) = s[1] /\ Tail(s) \in Seq(S) /\ Len(Tail(s)) = Len(s) - 1 /\ Len(s) \in Nat
  BY HeadTailProperties
<1>2. \A i \in 1 .. Len(Tail(s)) : Tail(s)[i] = s[i + 1]
  BY HeadTailProperties
<1>3. j \in 1..Len(s) /\ DOMAIN Tail(s) = 1..Len(Tail(s))
  BY <1>1
<1>4. CASE j = 1
  BY <1>1, <1>4
<1>5. CASE j # 1
  <2>1. j - 1 \in 1..Len(Tail(s)) /\ (j - 1) + 1 = j
    BY <1>1, <1>3, <1>5
  <2>2. QED
    BY <1>2, <1>3, <2>1
<1>6. QED
  BY <1>4, <1>5

\* The branch, and the history a rebase builds, hold every word origin holds
\* beyond them; what is about to be pushed is on the branch.
Ahead ==
    /\ Beyond(retired, branch, origin)
    /\ InRebase => Beyond(retired, reb.head, origin)
    /\ At("push") => IsPrefix(sync.head, branch)

\* Teammates publish trees that keep the words of this clone's people.
LEMMA PublishedOwn ==
    ASSUME TypeOK, Ahead, NEW tree \in Trees, origin' = Append(origin, tree),
           UNCHANGED <<branch, reb, sync>>, retired \subseteq retired',
           OwnKept(retired', Tip(origin), tree)
    PROVE  Ahead'
<1>1. \A h, o : Beyond(retired, h, o) => Beyond(retired', h, o)
  BY BeyondMore
<1>2. origin \in Seq(Trees) /\ origin # <<>> /\ branch \in Seq(Trees) /\ reb.head \in Seq(Trees)
  BY Shapes
<1> DEFINE grown == Append(origin, tree)
<1>3. \A h \in Seq(Trees) : Beyond(retired', h, origin) => Beyond(retired', h, grown)
  BY <1>2, BeyondPublished
<1> HIDE DEF grown
<1>4. Beyond(retired', branch, grown)
  BY <1>1, <1>2, <1>3 DEF Ahead
<1>5. InRebase => Beyond(retired', reb.head, grown)
  BY <1>1, <1>2, <1>3 DEF Ahead
<1>6. origin' = grown /\ branch' = branch /\ reb' = reb /\ sync' = sync
  BY DEF grown
<1>7. QED
  BY <1>4, <1>5, <1>6 DEF Ahead, InRebase, At

\* No step takes words off the histories ahead of origin: what a rebase builds
\* stands on the clone's view of origin, and a push replaces origin by the branch.
LEMMA AheadStep == TypeOK /\ RebaseFits /\ OneBoard /\ Ahead /\ [Next]_vars => Ahead'
<1> SUFFICES ASSUME TypeOK, RebaseFits, OneBoard, Ahead, [Next]_vars PROVE Ahead'
  OBVIOUS
<1>types. /\ origin \in Seq(Trees) /\ origin # <<>> /\ ref \in Seq(Trees) /\ ref # <<>>
          /\ branch \in Seq(Trees) /\ branch # <<>> /\ index \in Trees
          /\ Tip(origin) \in Trees
          /\ reb \in [head : Seq(Trees), todo : Seq(Commits), mine : Trees \cup {<<>>},
                      unmerged : SUBSET Docs]
          /\ sync \in [pc : PCs, tries : 1..PushAttempts, doc : Docs \cup {NoDoc},
                       stopped : BOOLEAN, carried : Trees, head : Seq(Trees)]
          /\ Idle.pc = "idle" /\ IsPrefix(ref, origin) /\ reb.head \in Seq(Trees)
          /\ sync.head \in Seq(Trees)
  BY Shapes DEF OneBoard
<1>now. /\ Beyond(retired, branch, origin)
        /\ reb # NoRebase => Beyond(retired, reb.head, origin)
        /\ sync.pc = "push" => IsPrefix(sync.head, branch)
  BY DEF Ahead, InRebase, At
<1>goal. ASSUME Beyond(retired', branch', origin'),
                reb' # NoRebase => Beyond(retired', reb'.head, origin'),
                sync'.pc = "push" => IsPrefix(sync'.head, branch')
         PROVE  Ahead'
  BY <1>goal DEF Ahead, InRebase, At
<1>more. ASSUME retired \subseteq retired'
         PROVE  \A h, o : Beyond(retired, h, o) => Beyond(retired', h, o)
  BY <1>more, BeyondMore
<1>goto. ASSUME NEW p, Goto(p) PROVE sync'.pc = p /\ sync'.head = sync.head
  BY <1>goto, <1>types DEF Goto
<1>pcs. RebasePCs = {"pick", "stop", "export", "keep", "continue"}
  BY DEF RebasePCs
<1>outside. ASSUME sync.pc \notin RebasePCs \cup {"idle"} PROVE ~InRebase /\ reb = NoRebase
  BY <1>outside, NoRebaseAt
\* No commit is made.
<1>still. ASSUME origin' = origin, branch' = branch, retired \subseteq retired',
                 reb' = NoRebase \/ reb' = reb \/ (reb # NoRebase /\ reb'.head = reb.head),
                 sync'.pc # "push" \/ (sync'.pc = sync.pc /\ sync'.head = sync.head)
          PROVE  Ahead'
  <2>1. Beyond(retired', branch', origin')
    BY <1>still, <1>now, <1>more
  <2>2. reb' # NoRebase => Beyond(retired', reb'.head, origin')
    BY <1>still, <1>now, <1>more
  <2>3. sync'.pc = "push" => IsPrefix(sync'.head, branch')
    BY <1>still, <1>now
  <2>4. QED
    BY <1>goal, <2>1, <2>2, <2>3
\* A fast-forward.
<1>forward. ASSUME FastForward, origin' = origin, retired' = retired,
                   sync'.pc # "push" \/ (sync'.pc = sync.pc /\ sync'.head = sync.head)
            PROVE  Ahead'
  <2>1. CASE UNCHANGED clone
    BY <1>forward, <1>still, <2>1 DEF clone
  <2>2. CASE MayFastForward /\ branch' = ref /\ reb' = reb
    <3>1. reb = NoRebase /\ IsPrefix(branch, ref)
      BY <2>2 DEF MayFastForward, InRebase
    <3>2. Beyond(retired, ref, origin)
      BY <1>types, <1>now, <3>1, BeyondFurther
    <3>3. sync'.pc = "push" => IsPrefix(sync'.head, ref)
      BY <1>forward, <1>types, <1>now, <3>1, PrefixTrans
    <3>4. QED
      BY <1>forward, <1>goal, <2>2, <3>1, <3>2, <3>3
  <2>3. QED
    BY <1>forward, <2>1, <2>2 DEF FastForward
<1>0. CASE UNCHANGED vars
  BY <1>0, <1>still DEF vars
<1>1. CASE HealRebase
  <2>1. sync'.pc = "check"
    BY <1>1, <1>goto DEF HealRebase
  <2>2. reb' \in {reb, NoRebase} /\ branch' = branch /\ origin' = origin /\ retired' = retired
    BY <1>1 DEF HealRebase, Abort, clone, people
  <2>3. QED
    BY <1>still, <2>1, <2>2
<1>2. CASE CheckWorktree
  BY <1>2, <1>still, <1>goto DEF CheckWorktree, clone, people
<1>3. CASE ClassifyCopies
  <2>1. sync'.pc = "remove"
    BY <1>3, <1>types DEF ClassifyCopies
  <2>2. QED
    BY <1>3, <1>still, <2>1 DEF ClassifyCopies, clone, people
<1>4. CASE RemoveCarriedCopies
  <2>1. sync'.pc = "stage"
    BY <1>4, <1>types DEF RemoveCarriedCopies
  <2>2. QED
    BY <1>4, <1>still, <2>1 DEF RemoveCarriedCopies, clone, people
<1>5. CASE StageAll
  BY <1>5, <1>still, <1>goto DEF StageAll, people
<1>6. CASE CommitStaged
  <2>1. sync'.pc \in {"fetch", "heldFetch"} /\ UNCHANGED <<origin, reb, retired>>
    BY <1>6, <1>goto DEF CommitStaged, people
  <2>2. CASE branch' = branch
    BY <1>still, <2>1, <2>2
  <2>3. CASE branch' = Append(branch, index)
    <3>1. Beyond(retired, Append(branch, index), origin)
      BY <1>types, <1>now, BeyondOnTop
    <3>2. QED
      BY <1>goal, <1>now, <2>1, <2>3, <3>1
  <2>4. QED
    BY <1>6, <2>2, <2>3 DEF CommitStaged
<1>7. CASE HeldFetch
  BY <1>7, <1>still, <1>goto DEF HeldFetch, clone, people
<1>8. CASE HeldMerge
  BY <1>8, <1>forward, <1>types DEF HeldMerge, End, people
<1>9. CASE FetchOrigin
  BY <1>9, <1>still, <1>goto DEF FetchOrigin, clone, people
<1>10. CASE StartRebase
  <2>1. UNCHANGED <<origin, retired, branch>> /\ sync'.pc # "push"
    BY <1>10, <1>goto, <1>types DEF StartRebase, End, clone, people
  <2>2. CASE reb' = reb
    BY <1>still, <2>1, <2>2
  <2>3. CASE reb' # reb
    <3>1. /\ ~IsPrefix(ref, branch)
          /\ reb' = [NoRebase EXCEPT !.head = ref, !.todo = Outgoing(branch, ref)]
      BY <1>10, <2>3 DEF StartRebase, clone
    <3>2. reb'.head = ref
      BY <3>1 DEF NoRebase
    <3>3. Beyond(retired, ref, origin)
      BY <1>types, <1>now, <3>1, BeyondRef
    <3>4. QED
      BY <1>goal, <1>now, <2>1, <3>2, <3>3
  <2>4. QED
    BY <2>2, <2>3
<1>11. CASE PickCommit
  <2>1. reb # NoRebase /\ reb.head # <<>> /\ reb.todo # <<>>
    BY <1>11 DEF PickCommit, RebaseFits, At, RebasePCs, InRebase
  <2>2. PickTree \in Trees
    BY <2>1, PickTypes
  <2>3. UNCHANGED <<origin, retired, branch>> /\ sync'.pc # "push"
    BY <1>11, <1>types DEF PickCommit, At, people
  <2>4. reb'.head = reb.head \/ reb'.head = Append(reb.head, PickTree)
    BY <1>11 DEF PickCommit
  <2>5. Beyond(retired, Append(reb.head, PickTree), origin)
    BY <1>types, <1>now, <2>1, <2>2, BeyondOnTop
  <2>6. QED
    BY <1>goal, <1>now, <2>1, <2>3, <2>4, <2>5
<1>12. CASE FinishRebase
  <2>1. reb # NoRebase
    BY <1>12 DEF FinishRebase, RebaseFits, At, RebasePCs, InRebase
  <2>2. /\ branch' = reb.head /\ reb' = NoRebase /\ UNCHANGED <<origin, retired>>
        /\ sync'.pc # "push"
    BY <1>12, <1>goto, <1>types DEF FinishRebase, End, people
  <2>3. QED
    BY <1>goal, <1>now, <2>1, <2>2
<1>13. CASE LookAtStop
  BY <1>13, <1>still, <1>goto DEF LookAtStop, SkipCommit, clone, people
<1>14. CASE ExportMine
  <2>1. sync'.pc = "keep"
    BY <1>14, <1>types DEF ExportMine
  <2>2. QED
    BY <1>14, <1>still, <2>1 DEF ExportMine, clone, people
<1>15. CASE KeepUpstream
  <2>1. sync'.pc # "push" /\ reb'.head = reb.head
    BY <1>15, <1>types DEF KeepUpstream
  <2>2. reb # NoRebase
    BY <1>15 DEF KeepUpstream, RebaseFits, At, RebasePCs, InRebase
  <2>3. QED
    BY <1>15, <1>still, <2>1, <2>2 DEF KeepUpstream, people
<1>16. CASE ContinueRebase
  <2>1. reb # NoRebase
    BY <1>16 DEF ContinueRebase, RebaseFits, At, RebasePCs, InRebase
  <2>2. UNCHANGED <<origin, retired, branch>> /\ sync'.pc = "pick"
    BY <1>16, <1>goto DEF ContinueRebase, people
  <2>3. reb'.head = reb.head \/ reb'.head = Append(reb.head, index)
    BY <1>16, <1>types DEF ContinueRebase
  <2>4. Beyond(retired, Append(reb.head, index), origin)
    BY <1>types, <1>now, <2>1, BeyondOnTop
  <2>5. QED
    BY <1>goal, <1>now, <2>1, <2>2, <2>3, <2>4
<1>17. CASE ContinueRefused
  BY <1>17, <1>still, <1>goto DEF ContinueRefused, clone, people
<1>18. CASE HoldMalformed
  BY <1>18, <1>still, <1>goto, <1>types DEF HoldMalformed, End, clone, people
<1>19. CASE ReadHead
  <2>1. /\ sync'.pc = "push" /\ sync'.head = branch
        /\ UNCHANGED <<origin, retired, branch, reb>>
    BY <1>19, <1>types DEF ReadHead, clone, people
  <2>2. IsPrefix(branch, branch)
    BY <1>types, PrefixSame
  <2>3. QED
    BY <1>goal, <1>now, <2>1, <2>2
<1>20. CASE PushHead
  <2>1. reb = NoRebase /\ reb' = reb /\ retired' = retired /\ IsPrefix(sync.head, branch)
    BY <1>20, <1>outside, <1>pcs, <1>now DEF PushHead, At, people
  <2>2. sync'.pc # "push"
    BY <1>20, <1>types DEF PushHead, End, Idle
  <2>3. CASE UNCHANGED <<origin, branch>>
    BY <1>still, <2>1, <2>2, <2>3
  <2>4. CASE branch # sync.head /\ origin' = sync.head /\ branch' = branch
    <3>1. Beyond(retired, branch, sync.head)
      BY <1>types, <2>1, BeyondWithin
    <3>2. QED
      BY <1>goal, <2>1, <2>2, <2>4, <3>1
  <2>5. CASE branch = sync.head /\ origin' = Forget(sync.head) /\ branch' = Forget(branch)
    <3>1. Forget(branch) \in Seq(Trees)
      BY <1>types, Forgotten
    <3>2. Beyond(retired, Forget(branch), Forget(branch))
      BY <3>1, PrefixSame, BeyondWithin
    <3>3. QED
      BY <1>goal, <2>1, <2>2, <2>5, <3>2
  <2>6. QED
    BY <1>20, <2>3, <2>4, <2>5 DEF PushHead
<1>21. CASE Crash
  BY <1>21, <1>still, <1>types DEF Crash, End, clone, people
<1>22. CASE NetworkFails
  BY <1>22, <1>still, <1>types DEF NetworkFails, End, clone, people
<1>23. CASE PushAnswerLost
  <2>1. /\ reb = NoRebase /\ reb' = reb /\ UNCHANGED <<branch, retired>> /\ IsPrefix(sync.head, branch)
        /\ origin' = sync.head /\ sync'.pc # "push"
    BY <1>23, <1>outside, <1>pcs, <1>now, <1>types DEF PushAnswerLost, At, End, clone, people
  <2>2. Beyond(retired, branch, sync.head)
    BY <1>types, <2>1, BeyondWithin
  <2>3. QED
    BY <1>goal, <2>1, <2>2
<1>24. CASE LoopFails
  BY <1>24, <1>still, <1>types DEF LoopFails, Abort, End, people
<1>25. CASE PullFetch
  BY <1>25, <1>still DEF PullFetch, clone, people
<1>26. CASE PullMerge
  BY <1>26, <1>forward DEF PullMerge, people
<1>27. ASSUME NEW e \in Edits, Teammate(e) PROVE Ahead'
  <2> DEFINE tree == [Tip(origin) EXCEPT ![DocOf[e]] = Text(@) \cup {e}]
  <2>1. /\ origin' = Append(origin, tree) /\ UNCHANGED <<branch, reb, sync>> /\ retired' = retired
    BY <1>27 DEF Teammate, clone
  <2>2. DocOf[e] \in Docs
    BY BoardAssumption
  <2>3. Text(Tip(origin)[DocOf[e]]) \cup {e} \in Texts /\ Text(Text(Tip(origin)[DocOf[e]]) \cup {e})
                                                       = Text(Tip(origin)[DocOf[e]]) \cup {e}
    <3>1. Tip(origin)[DocOf[e]] \in Texts
      BY <1>types, <2>2 DEF Trees
    <3>2. Text(Tip(origin)[DocOf[e]]) \cup {e} \in SUBSET Edits
      BY <3>1, TextOf
    <3>3. QED
      BY <3>2, TextOf, SetsAreTexts
  <2>4. tree \in Trees /\ \A d \in Docs : Text(Tip(origin)[d]) \subseteq Text(tree[d])
    BY <1>types, <2>2, <2>3 DEF Trees
  <2>5. OwnKept(retired', Tip(origin), tree)
    <3> HIDE DEF tree
    <3>1. QED
      BY <2>4 DEF OwnKept
  <2> HIDE DEF tree
  <2>6. QED
    BY <2>1, <2>4, <2>5, PublishedOwn
<1>28. ASSUME NEW d \in Docs, TeammateDeletes(d) PROVE Ahead'
  <2> DEFINE tree == [Tip(origin) EXCEPT ![d] = NoDoc]
  <2>1. /\ origin' = Append(origin, tree) /\ UNCHANGED <<branch, reb, sync>>
        /\ retired' = retired \cup Tip(origin)[d] /\ Tip(origin)[d] # NoDoc
    BY <1>28 DEF TeammateDeletes, clone
  <2>2. /\ tree \in Trees /\ \A c \in Docs : c # d => tree[c] = Tip(origin)[c]
    <3>1. NoDoc \in Texts
      BY DEF Texts
    <3>2. QED
      BY <1>types, <3>1 DEF Trees
  <2> HIDE DEF tree
  <2>3. OwnKept(retired', Tip(origin), tree)
    <3> SUFFICES ASSUME NEW c \in Docs
                 PROVE  (Text(Tip(origin)[c]) \cap Mine) \ retired' \subseteq Text(tree[c])
      BY DEF OwnKept
    <3>1. CASE c = d
      BY <2>1, <3>1 DEF Text
    <3>2. CASE c # d
      BY <2>2, <3>2
    <3>3. QED
      BY <3>1, <3>2
  <2>4. QED
    BY <2>1, <2>2, <2>3, PublishedOwn
<1>29. ASSUME NEW e \in Edits, Edit(e) \/ Mend(e) PROVE Ahead'
  BY <1>29, <1>still DEF Edit, Mend
<1>30. ASSUME NEW d \in Docs, Delete(d) \/ MergeByHand(d) PROVE Ahead'
  BY <1>30, <1>still DEF Delete, MergeByHand
<1>31. ASSUME NEW d \in Docs, ReadDocument(d) PROVE Ahead'
  BY <1>31, <1>still DEF ReadDocument, clone
<1>32. CASE Abandon \/ Keep \/ Take \/ Revise
  <2>1. UNCHANGED <<origin, branch, reb, sync>> /\ retired \subseteq retired'
    BY <1>32 DEF Abandon, Keep, Take, Revise, Overwrite, LeaveDocument, clone
  <2>2. QED
    BY <1>still, <2>1
<1>33. CASE Discard
  <2>1. sync'.pc = sync.pc /\ sync'.head = sync.head
    <3>1. UNCHANGED sync \/ DiscardFrom(job.doc, saved[job.doc])
      BY <1>33 DEF Discard
    <3>2. QED
      BY <1>types, <3>1 DEF DiscardFrom
  <2>2. UNCHANGED <<origin, branch, reb>> /\ retired \subseteq retired'
    BY <1>33 DEF Discard, clone
  <2>3. QED
    BY <1>still, <2>1, <2>2
<1>34. QED
  BY <1>0, <1>1, <1>2, <1>3, <1>4, <1>5, <1>6, <1>7, <1>8, <1>9, <1>10, <1>11, <1>12, <1>13, <1>14, <1>15, <1>16, <1>17, <1>18, <1>19, <1>20, <1>21, <1>22, <1>23, <1>24, <1>25, <1>26, <1>27, <1>28, <1>29, <1>30, <1>31, <1>32, <1>33, Steps

\* Outside a rebase a live word of this clone's people is in the worktree or in
\* a saved copy.
Rest == ~InRebase => \A e \in Own : In(e, wt) \/ Copied(e)

\* In a rebase aborting it brings the word back, and the worktree is what is staged.
Back == InRebase =>
    /\ \A e \in Own : In(e, Tip(branch)) \/ Copied(e) \/ (Untracked(DocOf[e]) /\ In(e, wt))
    /\ \A d \in Docs : IF Untracked(d) THEN Tip(branch)[d] = NoDoc ELSE wt[d] = index[d]

\* The commits to replay lead to the branch.
Chain == InRebase =>
    /\ \A i \in DOMAIN reb.todo : i > 1 => reb.todo[i].from = reb.todo[i - 1].to
    /\ reb.todo # <<>> => reb.todo[Len(reb.todo)].to = Tip(branch)

\* The replayed commit: the parent of the next one, or the branch.
Base == IF reb.todo = <<>> THEN Tip(branch) ELSE Head(reb.todo).from

\* What has been replayed holds the words of the replayed commit, or a copy does.
Picking ==
    /\ At("pick") => /\ reb.unmerged = {} /\ index = Tip(reb.head)
                     /\ \A e \in Own : In(e, Base) => In(e, Tip(reb.head)) \/ Copied(e)
    /\ sync.pc \in {"stop", "export", "keep", "continue"} =>
         /\ \A e \in Own : In(e, Base) => In(e, index) \/ Copied(e) \/ DocOf[e] \in reb.unmerged
         /\ \A d \in reb.unmerged : index[d] # NoDoc
         /\ reb.unmerged # {} => reb.mine = Base
    /\ At("stop") /\ reb.unmerged = {} => index = Tip(reb.head)
    /\ At("keep") => \A e \in Own : DocOf[e] = sync.doc /\ In(e, Base) => Copied(e)

\* A copy about to be removed holds no word that is nowhere else.
Carried ==
    /\ ~At("remove") => sync.carried = NothingCarried
    /\ \A d \in Docs : sync.carried[d] # NoDoc =>
         /\ \E i \in DOMAIN saved[d] : saved[d][i] = sync.carried[d]
         /\ \A e \in Own : DocOf[e] = d /\ e \in sync.carried[d] =>
               \/ In(e, wt)
               \/ \E i \in DOMAIN saved[d] : e \in saved[d][i] /\ saved[d][i] # sync.carried[d]

\* The place of every word of this clone's people, in each state of a sync.
Local == Rest /\ Back /\ Chain /\ Picking /\ Carried

\* Such a word belongs to a document.
LEMMA OwnDocs == \A e \in Own : DocOf[e] \in Docs /\ e \in Mine /\ e \in Edits
BY BoardAssumption DEF Own, Edits

\* A step that ends outside a rebase and decides no removal.
LEMMA OutsideLocal ==
    ASSUME ~InRebase', sync'.pc \notin RebasePCs \cup {"remove"}, sync'.carried = NothingCarried,
           \A e \in Own' : In(e, wt') \/ Copied(e)'
    PROVE  Local'
<1>1. Rest' /\ Back' /\ Chain'
  BY DEF Rest, Back, Chain
<1>2. Picking'
  BY DEF Picking, At, RebasePCs
<1>3. Carried'
  BY DEF Carried, At, NothingCarried
<1>4. QED
  BY <1>1, <1>2, <1>3 DEF Local

\* A step that touches neither the clone nor a saved copy.
LEMMA QuietLocal ==
    ASSUME Local, UNCHANGED <<clone, saved>>, Own' \subseteq Own,
           \/ sync' = sync
           \/ sync'.pc \notin RebasePCs \cup {"remove"} /\ sync'.carried = NothingCarried
    PROVE  Local'
<1>1. UNCHANGED <<branch, index, wt, reb, saved>>
  BY DEF clone
<1>2. Rest' /\ Back' /\ Chain'
  <2>1. Rest'
    BY <1>1 DEF Local, Rest, InRebase, Copied
  <2>2. Back'
    BY <1>1 DEF Local, Back, InRebase, Copied, Untracked
  <2>3. Chain'
    BY <1>1 DEF Local, Chain, InRebase
  <2>4. QED
    BY <2>1, <2>2, <2>3
<1>3. CASE sync' = sync
  <2>1. Picking'
    BY <1>1, <1>3 DEF Local, Picking, At, Base, Copied
  <2>2. Carried'
    BY <1>1, <1>3 DEF Local, Carried, At
  <2>3. QED
    BY <1>2, <2>1, <2>2 DEF Local
<1>4. CASE sync'.pc \notin RebasePCs \cup {"remove"} /\ sync'.carried = NothingCarried
  <2>1. Picking'
    BY <1>4 DEF Picking, At, RebasePCs
  <2>2. Carried'
    BY <1>4 DEF Carried, At, NothingCarried
  <2>3. QED
    BY <1>2, <2>1, <2>2 DEF Local
<1>5. QED
  BY <1>3, <1>4

\* A step of the people here, or of the background pull, outside a rebase.
LEMMA PeopleLocal ==
    ASSUME TypeOK, RebaseFits, Local, ~InRebase, reb' = reb, sync'.pc = sync.pc,
           \A e \in Own' : In(e, wt') \/ Copied(e)', Carried'
    PROVE  Local'
<1>1. ~InRebase'
  BY DEF InRebase
<1>2. sync'.pc \notin RebasePCs
  BY DEF RebaseFits
<1>3. Rest' /\ Back' /\ Chain'
  BY <1>1 DEF Rest, Back, Chain
<1>4. Picking'
  BY <1>2 DEF Picking, At, RebasePCs
<1>5. QED
  BY <1>3, <1>4 DEF Local

\* The rebase is aborted: what the branch holds is in the worktree again.
LEMMA AbortLocal ==
    ASSUME TypeOK, Local, InRebase, Abort, saved' = saved, Own' \subseteq Own,
           sync'.pc \notin RebasePCs \cup {"remove"}, sync'.carried = NothingCarried
    PROVE  Local'
<1>1. reb' = NoRebase /\ wt' = Checkout(Tip(branch))
  BY DEF Abort
<1>2. ASSUME NEW e \in Own PROVE In(e, wt') \/ Copied(e)
  <2>1. DocOf[e] \in Docs
    BY OwnDocs
  <2>2. wt'[DocOf[e]] = IF Untracked(DocOf[e]) /\ Tip(branch)[DocOf[e]] = NoDoc
                        THEN wt[DocOf[e]] ELSE Tip(branch)[DocOf[e]]
    BY <1>1, <2>1 DEF Checkout
  <2>3. In(e, Tip(branch)) \/ Copied(e) \/ (Untracked(DocOf[e]) /\ In(e, wt))
    BY DEF Local, Back
  <2>4. CASE In(e, Tip(branch))
    BY <2>2, <2>4 DEF In, Text
  <2>5. CASE Untracked(DocOf[e]) /\ In(e, wt)
    <3>1. Tip(branch)[DocOf[e]] = NoDoc
      BY <2>1, <2>5 DEF Local, Back
    <3>2. QED
      BY <2>2, <2>5, <3>1 DEF In
  <2>6. QED
    BY <2>3, <2>4, <2>5
<1>3. \A e \in Own' : In(e, wt') \/ Copied(e)'
  BY <1>2 DEF Copied
<1>4. ~InRebase'
  BY <1>1 DEF InRebase
<1>5. QED
  BY <1>3, <1>4, OutsideLocal

\* What a fast-forward brings holds the words the worktree holds.
LEMMA ForwardWords ==
    ASSUME TypeOK, OneBoard, Ahead, FastForward
    PROVE  \A e \in Own : In(e, wt) => In(e, wt')
<1>1. CASE UNCHANGED clone
  BY <1>1 DEF clone
<1>2. CASE /\ MayFastForward
           /\ wt' = [d \in Docs |-> IF d \in Incoming THEN Tip(ref)[d] ELSE wt[d]]
  <2>1. IsPrefix(branch, ref) /\ \A d \in Incoming : wt[d] = Tip(branch)[d]
    BY <1>2 DEF MayFastForward
  <2>2. IsPrefix(ref, origin) /\ Beyond(retired, branch, origin)
    BY DEF OneBoard, Ahead
  <2>3. OwnKept(retired, Tip(branch), Tip(ref))
    BY <2>1, <2>2, Shapes, ForwardOwn
  <2>4. ASSUME NEW e \in Own, In(e, wt) PROVE In(e, wt')
    <3>1. DocOf[e] \in Docs /\ e \in Mine /\ e \notin retired
      BY OwnDocs DEF Own
    <3>2. wt'[DocOf[e]] = IF DocOf[e] \in Incoming THEN Tip(ref)[DocOf[e]] ELSE wt[DocOf[e]]
      BY <1>2, <3>1
    <3>3. CASE DocOf[e] \in Incoming
      <4>1. e \in Text(Tip(branch)[DocOf[e]])
        BY <2>1, <2>4, <3>3 DEF In
      <4>2. e \in Text(Tip(ref)[DocOf[e]])
        BY <2>3, <3>1, <4>1 DEF OwnKept
      <4>3. QED
        BY <3>2, <3>3, <4>2 DEF In
    <3>4. CASE DocOf[e] \notin Incoming
      BY <2>4, <3>2, <3>4 DEF In
    <3>5. QED
      BY <3>3, <3>4
  <2>5. QED
    BY <2>4
<1>3. QED
  BY <1>1, <1>2 DEF FastForward

\* No saved copy goes and no word of the worktree: what was carried still is.
LEMMA CarriedStays ==
    ASSUME Carried, UNCHANGED <<saved, sync>>,
           \A e \in Own' : In(e, wt') \/ (e \in Own /\ ~In(e, wt))
    PROVE  Carried'
BY DEF Carried, At

\* Removing the carried copies loses no word.
LEMMA RemovedWords ==
    ASSUME TypeOK, Local, ~InRebase, RemoveCarriedCopies
    PROVE  \A e \in Own : In(e, wt) \/ Copied(e)'
<1> SUFFICES ASSUME NEW e \in Own, ~In(e, wt) PROVE Copied(e)'
  OBVIOUS
<1> DEFINE d == DocOf[e]
           text == sync.carried[d]
<1>1. d \in Docs /\ saved[d] \in Seq(SUBSET Edits)
  BY OwnDocs, Shapes
<1>2. saved'[d] = Without(saved[d], text)
  BY <1>1 DEF RemoveCarriedCopies
<1>3. PICK j \in DOMAIN saved[d] : e \in saved[d][j]
  BY DEF Local, Rest, Copied
<1>4. PICK k \in DOMAIN saved[d] : e \in saved[d][k] /\ saved[d][k] # text
  <2>1. CASE saved[d][j] = text
    <3>1. saved[d][j] \in SUBSET Edits
      BY <1>1, <1>3, ElementOfSeq
    <3>2. text # NoDoc
      BY <2>1, <3>1, BoardAssumption
    <3>3. QED
      BY <1>1, <1>3, <2>1, <3>2 DEF Local, Carried
  <2>2. CASE saved[d][j] # text
    BY <1>3, <2>2
  <2>3. QED
    BY <2>1, <2>2
<1> HIDE DEF d, text
<1>5. \E i \in DOMAIN Without(saved[d], text) : Without(saved[d], text)[i] = saved[d][k]
  <2> DEFINE copies == saved[d]
  <2>1. copies \in Seq(SUBSET Edits) /\ k \in DOMAIN copies /\ copies[k] # text
    BY <1>1, <1>4
  <2> HIDE DEF copies
  <2>2. \E i \in DOMAIN Without(copies, text) : Without(copies, text)[i] = copies[k]
    BY <2>1, WithoutKeeps
  <2>3. QED
    BY <2>2 DEF copies
<1>6. \E i \in DOMAIN saved'[d] : e \in saved'[d][i]
  BY <1>2, <1>4, <1>5
<1>7. QED
  BY <1>6 DEF Copied, d

\* A write that adds words to a document of the worktree.
LEMMA AddLocal ==
    ASSUME TypeOK, RebaseFits, Local, ~InRebase, UNCHANGED <<reb, saved, sync>>,
           NEW d \in Docs, wt[d] # NoDoc, NEW more \in SUBSET Edits,
           wt' = [wt EXCEPT ![d] = wt[d] \cup more],
           \A e \in Own' : e \in Own \/ (DocOf[e] = d /\ e \in more)
    PROVE  Local'
<1>1. wt[d] \in SUBSET Edits /\ Text(wt[d]) = wt[d] /\ Text(wt[d] \cup more) = wt[d] \cup more
  <2>1. wt[d] \in Texts
    BY Shapes DEF Trees
  <2>2. wt[d] \in SUBSET Edits /\ Text(wt[d]) = wt[d]
    BY <2>1, TextOf
  <2>3. wt[d] \cup more \in SUBSET Edits
    BY <2>2
  <2>4. Text(wt[d] \cup more) = wt[d] \cup more
    BY <2>3, TextOf, SetsAreTexts
  <2>5. QED
    BY <2>2, <2>4
<1>2. wt \in Trees
  BY Shapes
<1>3. wt'[d] = wt[d] \cup more /\ \A c \in Docs : c # d => wt'[c] = wt[c]
  BY <1>2 DEF Trees
<1>4. ASSUME NEW e \in Own, In(e, wt) PROVE In(e, wt')
  <2>1. DocOf[e] \in Docs
    BY OwnDocs
  <2>2. CASE DocOf[e] = d
    BY <1>1, <1>3, <1>4, <2>2 DEF In
  <2>3. CASE DocOf[e] # d
    BY <1>3, <1>4, <2>1, <2>3 DEF In
  <2>4. QED
    BY <2>2, <2>3
<1>5. ASSUME NEW e \in Edits, DocOf[e] = d, e \in more PROVE In(e, wt')
  BY <1>1, <1>3, <1>5 DEF In
<1>6. Own' \subseteq Edits
  BY DEF Own, Edits
<1>7. \A e \in Own' : In(e, wt') \/ (e \in Own /\ ~In(e, wt))
  BY <1>4, <1>5, <1>6
<1>8. Carried'
  BY <1>7, CarriedStays DEF Local
<1>9. \A e \in Own' : In(e, wt') \/ Copied(e)'
  BY <1>7 DEF Local, Rest, Copied
<1>10. QED
  BY <1>8, <1>9, PeopleLocal

\* A settlement touches one document, its copies and the removal decided on them.
LEMMA SettleFrame ==
    ASSUME TypeOK, RebaseFits, Local, ~InRebase, reb' = reb, retired \subseteq retired', made' = made,
           NEW d \in Docs, NEW left, NEW still,
           saved' = [saved EXCEPT ![d] = left],
           sync'.pc = sync.pc, sync'.carried = [sync.carried EXCEPT ![d] = still],
           still \in {NoDoc, sync.carried[d]},
           \A c \in Docs : c # d => wt'[c] = wt[c],
           \A e \in Own' : DocOf[e] = d => e \in Text(wt'[d]) \/ \E i \in DOMAIN left : e \in left[i],
           still # NoDoc =>
              /\ \E i \in DOMAIN left : left[i] = still
              /\ \A e \in Own' : DocOf[e] = d /\ e \in still =>
                    \/ e \in Text(wt'[d])
                    \/ \E i \in DOMAIN left : e \in left[i] /\ left[i] # still
    PROVE  Local'
<1>1. /\ saved \in [Docs -> Seq(SUBSET Edits)]
      /\ sync \in [pc : PCs, tries : 1..PushAttempts, doc : Docs \cup {NoDoc},
                   stopped : BOOLEAN, carried : Trees, head : Seq(Trees)]
      /\ sync.carried \in Trees
  BY Shapes
<1>2. Own' \subseteq Own
  BY DEF Own
<1>3. saved'[d] = left /\ \A c \in Docs : c # d => saved'[c] = saved[c]
  BY <1>1
<1>5. sync'.carried[d] = still /\ \A c \in Docs : c # d => sync'.carried[c] = sync.carried[c]
  BY <1>1 DEF Trees
<1>6. ASSUME NEW e \in Own' PROVE In(e, wt') \/ Copied(e)'
  <2>1. e \in Own /\ DocOf[e] \in Docs
    BY <1>2, OwnDocs
  <2>2. CASE DocOf[e] = d
    BY <1>3, <2>2 DEF In, Copied
  <2>3. CASE DocOf[e] # d
    BY <1>3, <2>1, <2>3 DEF Local, Rest, In, Copied
  <2>4. QED
    BY <2>2, <2>3
<1>7. ASSUME sync'.pc # "remove" PROVE sync'.carried = NothingCarried
  <2>1. sync.carried = NothingCarried
    BY <1>7 DEF Local, Carried, At
  <2>2. still = NoDoc
    BY <2>1 DEF NothingCarried
  <2>3. [NothingCarried EXCEPT ![d] = NoDoc] = NothingCarried
    BY DEF NothingCarried
  <2>4. QED
    BY <2>1, <2>2, <2>3
<1>8. ASSUME NEW c \in Docs, sync'.carried[c] # NoDoc
      PROVE  /\ \E i \in DOMAIN saved'[c] : saved'[c][i] = sync'.carried[c]
             /\ \A e \in Own' : DocOf[e] = c /\ e \in sync'.carried[c] =>
                   \/ In(e, wt')
                   \/ \E i \in DOMAIN saved'[c] : e \in saved'[c][i] /\ saved'[c][i] # sync'.carried[c]
  <2>1. CASE c = d
    BY <1>3, <1>5, <1>8, <2>1 DEF In
  <2>2. CASE c # d
    <3>1. sync'.carried[c] = sync.carried[c] /\ saved'[c] = saved[c] /\ wt'[c] = wt[c]
      BY <1>3, <1>5, <2>2
    <3>2. /\ \E i \in DOMAIN saved[c] : saved[c][i] = sync.carried[c]
          /\ \A e \in Own : DocOf[e] = c /\ e \in sync.carried[c] =>
                \/ In(e, wt)
                \/ \E i \in DOMAIN saved[c] : e \in saved[c][i] /\ saved[c][i] # sync.carried[c]
      BY <1>8, <3>1 DEF Local, Carried
    <3>3. QED
      BY <1>2, <3>1, <3>2 DEF In
  <2>3. QED
    BY <2>1, <2>2
<1>9. Carried'
  BY <1>7, <1>8 DEF Carried, At
<1>10. QED
  BY <1>6, <1>9, PeopleLocal

\* What a discard does to the removal decided on.
LEMMA DiscardedCarried ==
    ASSUME TypeOK, NEW d \in Docs, NEW copies, DiscardFrom(d, copies)
    PROVE  /\ saved' = [saved EXCEPT ![d] = Tail(copies)] /\ sync'.pc = sync.pc
           /\ sync'.carried = [sync.carried EXCEPT ![d] =
                                  IF sync.carried[d] = Head(copies) THEN NoDoc ELSE sync.carried[d]]
BY Shapes DEF DiscardFrom

\* The oldest copy is settled and its words, like those of the document, are in
\* the document the settlement writes, or somebody dropped them.
LEMMA SettleLocal ==
    ASSUME TypeOK, RebaseFits, Local, ~InRebase, reb' = reb, retired \subseteq retired', made' = made,
           NEW d \in Docs, saved[d] # <<>>, DiscardFrom(d, saved[d]),
           \A c \in Docs : c # d => wt'[c] = wt[c],
           \A e \in Own' : DocOf[e] = d /\ e \in Text(wt[d]) => e \in Text(wt'[d]),
           \A e \in Own' : DocOf[e] = d /\ e \in Head(saved[d]) => e \in Text(wt'[d])
    PROVE  Local'
<1> DEFINE copies == saved[d]
           left == Tail(copies)
           head == Head(copies)
<1>1. copies \in Seq(SUBSET Edits) /\ copies # <<>>
  BY Shapes
<1>2. PICK still : still = IF sync.carried[d] = head THEN NoDoc ELSE sync.carried[d]
  OBVIOUS
<1>gone. /\ saved' = [saved EXCEPT ![d] = left] /\ sync'.pc = sync.pc
         /\ sync'.carried = [sync.carried EXCEPT ![d] = still]
  BY <1>2, DiscardedCarried
<1>3. ASSUME NEW j \in DOMAIN copies
      PROVE  copies[j] = head \/ \E i \in DOMAIN left : left[i] = copies[j]
  <2> HIDE DEF copies
  <2>1. QED
    BY <1>1, <1>3, TailKeeps
<1>4. Own' \subseteq Own
  BY DEF Own
<1>5. ASSUME NEW e \in Own', DocOf[e] = d
      PROVE  e \in Text(wt'[d]) \/ \E i \in DOMAIN left : e \in left[i]
  <2>1. e \in Text(wt[d]) \/ \E j \in DOMAIN copies : e \in copies[j]
    BY <1>4, <1>5 DEF Local, Rest, In, Copied
  <2> HIDE DEF left
  <2>2. CASE e \in Text(wt[d])
    BY <1>5, <2>2
  <2>3. ASSUME NEW j \in DOMAIN copies, e \in copies[j]
        PROVE  e \in Text(wt'[d]) \/ \E i \in DOMAIN left : e \in left[i]
    BY <1>3, <1>5, <2>3
  <2>4. QED
    BY <2>1, <2>2, <2>3
<1>6. ASSUME still # NoDoc
      PROVE  /\ \E i \in DOMAIN left : left[i] = still
             /\ \A e \in Own' : DocOf[e] = d /\ e \in still =>
                   \/ e \in Text(wt'[d])
                   \/ \E i \in DOMAIN left : e \in left[i] /\ left[i] # still
  <2>0. still = sync.carried[d] /\ still # head
    BY <1>2, <1>6
  <2>1. /\ \E i \in DOMAIN copies : copies[i] = still
        /\ \A e \in Own : DocOf[e] = d /\ e \in still =>
              \/ e \in Text(wt[d])
              \/ \E i \in DOMAIN copies : e \in copies[i] /\ copies[i] # still
    BY <1>6, <2>0 DEF Local, Carried, In
  <2> HIDE DEF left
  <2>2. \E i \in DOMAIN left : left[i] = still
    BY <1>3, <2>0, <2>1
  <2>3. ASSUME NEW e \in Own', DocOf[e] = d, e \in still, e \notin Text(wt'[d])
        PROVE  \E i \in DOMAIN left : e \in left[i] /\ left[i] # still
    <3>1. e \in Own /\ e \notin Text(wt[d]) /\ e \notin head
      BY <1>4, <2>3
    <3>2. PICK j \in DOMAIN copies : e \in copies[j] /\ copies[j] # still
      BY <2>1, <2>3, <3>1
    <3>3. \E i \in DOMAIN left : left[i] = copies[j]
      BY <1>3, <3>1, <3>2
    <3>4. QED
      BY <3>2, <3>3
  <2>4. QED
    BY <2>2, <2>3
<1>7. still \in {NoDoc, sync.carried[d]}
  BY <1>2
<1>8. PICK rest : rest = left
  OBVIOUS
<1> HIDE DEF left, head
<1>9. QED
  BY <1>5, <1>6, <1>7, <1>8, <1>gone, SettleFrame

\* A document is written over: what it held is in the new text, in a copy that no
\* removal is decided on, or dropped.
LEMMA OverLocal ==
    ASSUME TypeOK, RebaseFits, Local, ~InRebase, UNCHANGED <<reb, sync, made>>, retired \subseteq retired',
           NEW d \in Docs, NEW left,
           saved' = [saved EXCEPT ![d] = left],
           \A j \in DOMAIN saved[d] : \E i \in DOMAIN left : left[i] = saved[d][j],
           \A c \in Docs : c # d => wt'[c] = wt[c],
           \A e \in Own' : DocOf[e] = d /\ e \in Text(wt[d]) =>
              e \in Text(wt'[d]) \/ \E i \in DOMAIN left : e \in left[i] /\ left[i] # sync.carried[d]
    PROVE  Local'
<1>1. PICK still : still = sync.carried[d]
  OBVIOUS
<1>2. Own' \subseteq Own
  BY DEF Own
<1>3. sync'.carried = [sync.carried EXCEPT ![d] = still] /\ sync'.pc = sync.pc
  BY <1>1, Shapes DEF Trees
<1>4. ASSUME NEW e \in Own', DocOf[e] = d
      PROVE  e \in Text(wt'[d]) \/ \E i \in DOMAIN left : e \in left[i]
  <2>1. e \in Text(wt[d]) \/ \E j \in DOMAIN saved[d] : e \in saved[d][j]
    BY <1>2, <1>4 DEF Local, Rest, In, Copied
  <2>2. QED
    BY <1>4, <2>1
<1>5. ASSUME still # NoDoc
      PROVE  /\ \E i \in DOMAIN left : left[i] = still
             /\ \A e \in Own' : DocOf[e] = d /\ e \in still =>
                   \/ e \in Text(wt'[d])
                   \/ \E i \in DOMAIN left : e \in left[i] /\ left[i] # still
  <2>1. /\ \E j \in DOMAIN saved[d] : saved[d][j] = still
        /\ \A e \in Own : DocOf[e] = d /\ e \in still =>
              \/ e \in Text(wt[d])
              \/ \E j \in DOMAIN saved[d] : e \in saved[d][j] /\ saved[d][j] # still
    BY <1>1, <1>5 DEF Local, Carried, In
  <2>2. ASSUME NEW e \in Own', DocOf[e] = d, e \in still, e \notin Text(wt'[d])
        PROVE  \E i \in DOMAIN left : e \in left[i] /\ left[i] # still
    <3>1. CASE e \in Text(wt[d])
      BY <1>1, <2>2, <3>1
    <3>2. CASE e \notin Text(wt[d])
      <4>1. PICK j \in DOMAIN saved[d] : e \in saved[d][j] /\ saved[d][j] # still
        BY <1>2, <2>1, <2>2, <3>2
      <4>2. QED
        BY <4>1
    <3>3. QED
      BY <3>1, <3>2
  <2>3. QED
    BY <2>1, <2>2
<1>6. still \in {NoDoc, sync.carried[d]}
  BY <1>1
<1>7. QED
  BY <1>3, <1>4, <1>5, <1>6, SettleFrame

\* The settlement under way.
LEMMA JobIs ==
    ASSUME TypeOK, job # NoJob
    PROVE  /\ job \in Jobs
           /\ job.doc \in Docs /\ job.text \in SUBSET Edits /\ job.present \in Texts /\ job.remote \in Texts
           /\ Text(job.text) = job.text
<1>1. job \in Jobs
  BY DEF TypeOK
<1>2. job.text \in SUBSET Edits
  BY <1>1 DEF Jobs
<1>3. QED
  BY <1>1, <1>2, TextOf, SetsAreTexts DEF Jobs

\* `keep` puts the copy in place of what it read and of what came since.
LEMMA KeepLocal ==
    ASSUME TypeOK, RebaseFits, Local, Keep
    PROVE  Local'
<1> DEFINE d == job.doc
           meant == (Text(job.present) \cap Text(job.remote)) \ job.text
<1>1. /\ job # NoJob /\ ~InRebase /\ UNCHANGED <<reb, made, sync, saved>> /\ ~KeepWouldOverwrite
      /\ Overwrite(job.text, meant, {})
  BY DEF Keep, Judging
<1>2. d \in Docs /\ Text(job.text) = job.text /\ wt \in Trees
  BY <1>1, JobIs, Shapes
<1>3. /\ wt' = [wt EXCEPT ![d] = job.text] /\ retired \subseteq retired'
      /\ Text(wt[d]) \ (Text(job.text) \cup meant \cup {}) \subseteq retired' /\ meant \subseteq retired'
  BY <1>1 DEF Overwrite, Write
<1> HIDE DEF d, meant
<1>4. wt'[d] = job.text /\ \A c \in Docs : c # d => wt'[c] = wt[c]
  BY <1>2, <1>3 DEF Trees
<1>5. ASSUME NEW e \in Own', e \in Text(wt[d]) PROVE e \in Text(wt'[d])
  BY <1>3, <1>4, <1>5 DEF Own
<1>6. PICK left : left = saved[d]
  OBVIOUS
<1>7. /\ saved' = [saved EXCEPT ![d] = left]
      /\ \A j \in DOMAIN saved[d] : \E i \in DOMAIN left : left[i] = saved[d][j]
  BY <1>1, <1>2, <1>6, Shapes
<1>8. QED
  BY <1>1, <1>2, <1>3, <1>4, <1>5, <1>7, OverLocal

\* `revise` drops the copy's words that the document it read lacks.
LEMMA ReviseLocal ==
    ASSUME TypeOK, RebaseFits, Local, Revise
    PROVE  Local'
<1>1. UNCHANGED <<clone, saved, sync, made>> /\ retired \subseteq retired'
  BY DEF Revise, LeaveDocument, clone
<1>2. Own' \subseteq Own
  BY <1>1 DEF Own
<1>3. QED
  BY <1>1, <1>2, QuietLocal

\* `take` drops the copy's words that upstream lacks, and saves first what is
\* nowhere else.
LEMMA TakeLocal ==
    ASSUME TypeOK, RebaseFits, Local, Take
    PROVE  Local'
<1> DEFINE d == job.doc
           leaves == job.later \/ job.present = job.remote
           absent == job.remote # NoDoc /\ Tip(ref)[d] = NoDoc
           meant == job.text \ (Text(job.remote) \cap Text(Tip(ref)[d]))
           doc == IF job.remote = NoDoc THEN NoDoc ELSE Tip(ref)[d]
           left == IF TakeWouldErase THEN WithCopy(saved[d], job.present) ELSE saved[d]
<1>1. /\ job # NoJob /\ ~InRebase /\ UNCHANGED <<reb, made, sync, branch, index>>
      /\ saved' = IF TakeWouldErase THEN [saved EXCEPT ![d] = left] ELSE saved
      /\ \/ leaves /\ LeaveDocument(meant)
         \/ ~leaves /\ absent /\ UNCHANGED <<wt, retired>>
         \/ ~leaves /\ ~absent /\ Overwrite(doc, meant, SavedFirst)
  BY DEF Take, Judging
<1>2. /\ d \in Docs /\ wt \in Trees /\ saved[d] \in Seq(SUBSET Edits)
      /\ job.present \in Texts /\ saved \in [Docs -> Seq(SUBSET Edits)]
  BY <1>1, JobIs, Shapes
<1>3. saved' = [saved EXCEPT ![d] = left]
  BY <1>1, <1>2
<1>4. ASSUME TakeWouldErase
      PROVE  job.present \in SUBSET Edits /\ Text(job.present) = job.present
  BY <1>2, <1>4, TextOf DEF TakeWouldErase
<1>5. /\ \A j \in DOMAIN saved[d] : \E i \in DOMAIN left : left[i] = saved[d][j]
      /\ TakeWouldErase => \E i \in DOMAIN left : left[i] = job.present
  <2>1. CASE TakeWouldErase
    <3>1. left = WithCopy(saved[d], job.present)
      BY <2>1
    <3> HIDE DEF left, d
    <3>2. QED
      BY <1>2, <1>4, <2>1, <3>1, WithCopyKeeps
  <2>2. CASE ~TakeWouldErase
    BY <2>2
  <2>3. QED
    BY <2>1, <2>2
<1>6. CASE leaves
  <2>1. ~TakeWouldErase
    BY <1>6 DEF TakeWouldErase
  <2>2. UNCHANGED <<clone, saved>> /\ retired \subseteq retired'
    BY <1>1, <1>6, <2>1 DEF LeaveDocument, clone
  <2>3. Own' \subseteq Own
    BY <1>1, <2>2 DEF Own
  <2>4. QED
    BY <1>1, <2>2, <2>3, QuietLocal
<1>7. CASE ~leaves /\ absent
  <2>1. UNCHANGED <<wt, retired>>
    BY <1>1, <1>7
  <2>2. PICK all : all = left
    OBVIOUS
  <2> HIDE DEF left, d
  <2>3. QED
    BY <1>1, <1>2, <1>3, <1>5, <2>1, <2>2, OverLocal
<1>8. CASE ~leaves /\ ~absent
  <2>1. /\ wt' = [wt EXCEPT ![d] = doc] /\ retired \subseteq retired'
        /\ Text(wt[d]) \ (Text(doc) \cup meant \cup SavedFirst) \subseteq retired' /\ meant \subseteq retired'
    BY <1>1, <1>8 DEF Overwrite, Write
  <2>2. wt'[d] = doc /\ \A c \in Docs : c # d => wt'[c] = wt[c]
    <3> HIDE DEF d, doc
    <3>1. QED
      BY <1>2, <2>1 DEF Trees
  <2>3. ASSUME NEW e \in Own', e \in Text(wt[d]), e \notin Text(doc)
        PROVE  TakeWouldErase /\ sync.carried[d] # job.present /\ e \in Text(job.present)
    <3>1. e \in SavedFirst /\ e \notin meant
      BY <2>1, <2>3 DEF Own
    <3>2. sync.carried[d] # job.present /\ e \in Text(job.present) /\ job.present # NoDoc
      BY <3>1 DEF SavedFirst, Text
    <3>3. e \notin job.text
      <4>1. CASE job.remote = NoDoc
        BY <3>1, <4>1 DEF Text
      <4>2. CASE job.remote # NoDoc
        BY <2>3, <3>1, <4>2
      <4>3. QED
        BY <4>1, <4>2
    <3>4. job.present # job.text
      BY <3>2, <3>3 DEF Text
    <3>5. QED
      BY <1>8, <3>2, <3>4 DEF TakeWouldErase
  <2>4. ASSUME NEW e \in Own', e \in Text(wt[d])
        PROVE  e \in Text(wt'[d]) \/ \E i \in DOMAIN left : e \in left[i] /\ left[i] # sync.carried[d]
    <3>1. CASE e \in Text(doc)
      BY <2>2, <3>1
    <3>2. CASE e \notin Text(doc)
      <4>1. TakeWouldErase /\ sync.carried[d] # job.present /\ e \in Text(job.present)
        BY <2>3, <2>4, <3>2
      <4> HIDE DEF left, d
      <4>2. QED
        BY <1>4, <1>5, <4>1
    <3>3. QED
      BY <3>1, <3>2
  <2>5. ~InRebase /\ UNCHANGED <<reb, sync, made>> /\ retired \subseteq retired' /\ d \in Docs
    BY <1>1, <1>2, <2>1
  <2>6. \A c \in Docs : c # d => wt'[c] = wt[c]
    BY <2>2
  <2>7. PICK all : all = left
    OBVIOUS
  <2>8. /\ saved' = [saved EXCEPT ![d] = all]
        /\ \A j \in DOMAIN saved[d] : \E i \in DOMAIN all : all[i] = saved[d][j]
        /\ \A e \in Own' : DocOf[e] = d /\ e \in Text(wt[d]) =>
              e \in Text(wt'[d]) \/ \E i \in DOMAIN all : e \in all[i] /\ all[i] # sync.carried[d]
    BY <1>3, <1>5, <2>4, <2>7
  <2> HIDE DEF left, d
  <2>9. QED
    BY <2>5, <2>6, <2>8, OverLocal
<1>9. QED
  BY <1>6, <1>7, <1>8

\* A settlement that has written has the copy's words in the document as it left
\* it, or dropped them.
JobWords == job # NoJob /\ job.written => (job.text \cap Mine) \ Text(job.present) \subseteq retired

\* What the document holds no longer when its copy goes is dropped.
LEMMA DiscardLocal ==
    ASSUME TypeOK, RebaseFits, Local, JobWords, Discard
    PROVE  Local'
<1> DEFINE d == job.doc
           lost == (job.text \cap Text(job.present)) \ Text(wt[d])
<1>1. job # NoJob /\ job.written /\ ~InRebase /\ UNCHANGED <<clone, made>> /\ reb' = reb /\ wt' = wt
  BY DEF Discard, clone
<1>2. d \in Docs
  BY <1>1, JobIs
<1>3. CASE saved[d] # <<>> /\ Head(saved[d]) = job.text
  <2>1. DiscardFrom(d, saved[d]) /\ retired' = retired \cup lost
    BY <1>3 DEF Discard
  <2>2. ASSUME NEW e \in Own', DocOf[e] = d, e \in Head(saved[d]) PROVE e \in Text(wt'[d])
    BY <1>1, <1>3, <2>1, <2>2 DEF Own, JobWords
  <2>3. retired \subseteq retired'
    BY <2>1
  <2> HIDE DEF d, lost
  <2>4. QED
    BY <1>1, <1>2, <1>3, <2>1, <2>2, <2>3, SettleLocal
<1>4. CASE ~(saved[d] # <<>> /\ Head(saved[d]) = job.text)
  <2>1. UNCHANGED <<saved, sync, retired>>
    BY <1>4 DEF Discard
  <2>2. Own' \subseteq Own
    BY <1>1, <2>1 DEF Own
  <2>3. QED
    BY <1>1, <2>1, <2>2, QuietLocal
<1>5. QED
  BY <1>3, <1>4

\* A take that leaves the document as it stands, because a later copy waits, leaves
\* none of the copy's words only upstream.
TakesStep == Take => ~job.later \/ job.text \cap Text(job.remote) \cap Text(Tip(ref)[job.doc])
                                      \subseteq Text(job.present)

\* Every step of a settlement keeps JobWords, and no other step touches it.
LEMMA JobWordsStep ==
    TypeOK /\ JobWords /\ retired \subseteq retired' /\ [Next]_vars /\ [TakesStep]_vars => JobWords'
<1> SUFFICES ASSUME TypeOK, JobWords, retired \subseteq retired', [Next]_vars, [TakesStep]_vars,
                    job' # NoJob, job'.written
             PROVE  (job'.text \cap Mine) \ Text(job'.present) \subseteq retired'
  BY DEF JobWords
<1>1. CASE job' = job
  BY <1>1 DEF JobWords
<1>2. ASSUME NEW d \in Docs, ReadDocument(d) PROVE FALSE
  BY <1>2 DEF ReadDocument
<1>3. CASE Abandon \/ Discard
  BY <1>3 DEF Abandon, Discard
<1>4. CASE Keep
  <2>1. job # NoJob /\ job' = [job EXCEPT !.present = job.text, !.written = TRUE]
    BY <1>4 DEF Keep, Judging, Overwrite
  <2>2. job \in Jobs /\ Text(job.text) = job.text
    BY <2>1, JobIs
  <2>3. job'.text = job.text /\ job'.present = job.text
    BY <2>1, <2>2 DEF Jobs
  <2>4. QED
    BY <2>2, <2>3
<1>5. CASE Revise
  <2>1. /\ job # NoJob /\ job.present # NoDoc /\ job' = [job EXCEPT !.written = TRUE]
        /\ retired' = retired \cup (job.text \ job.present)
    BY <1>5 DEF Revise, Judging, LeaveDocument
  <2>2. job'.text = job.text /\ job'.present = job.present
    BY <2>1, JobIs DEF Jobs
  <2>3. QED
    BY <2>1, <2>2 DEF Text
<1>6. CASE Take
  <2> DEFINE up == Tip(ref)[job.doc]
             meant == job.text \ (Text(job.remote) \cap Text(up))
             doc == IF job.remote = NoDoc THEN NoDoc ELSE up
  <2>1. job # NoJob /\ job \in Jobs
    BY <1>6, JobIs DEF Take, Judging
  <2>2. \/ (job.later \/ job.present = job.remote) /\ LeaveDocument(meant)
        \/ Overwrite(doc, meant, SavedFirst)
    BY <1>6 DEF Take
  <2>3. CASE (job.later \/ job.present = job.remote) /\ LeaveDocument(meant)
    <3>1. job' = [job EXCEPT !.written = TRUE] /\ meant \subseteq retired'
      BY <2>3 DEF LeaveDocument
    <3>2. job'.text = job.text /\ job'.present = job.present
      BY <2>1, <3>1 DEF Jobs
    <3>3. job.text \cap Text(job.remote) \cap Text(up) \subseteq Text(job.present)
      <4>1. CASE job' = job
        BY <2>3, <4>1, <3>1, <1>6 DEF Take, Judging, TakesStep, vars
      <4>2. CASE job' # job
        BY <1>6, <2>3, <4>2 DEF TakesStep, vars
      <4>3. QED
        BY <4>1, <4>2
    <3>4. QED
      BY <3>1, <3>2, <3>3
  <2>4. CASE Overwrite(doc, meant, SavedFirst)
    <3>1. job' = [job EXCEPT !.present = doc, !.written = TRUE] /\ meant \subseteq retired'
      BY <2>4 DEF Overwrite
    <3>2. job'.text = job.text /\ job'.present = doc
      BY <2>1, <3>1 DEF Jobs
    <3>3. Text(job.remote) \cap Text(up) \subseteq Text(doc)
      BY DEF Text
    <3>4. QED
      BY <3>1, <3>2, <3>3
  <2>5. QED
    BY <2>2, <2>3, <2>4
<1>7. job' = job \/ Abandon \/ Discard \/ Keep \/ Revise \/ Take \/ \E d \in Docs : ReadDocument(d)
  BY Steps DEF vars, people, Next, SyncStep, HealRebase, CheckWorktree, ClassifyCopies,
     RemoveCarriedCopies, StageAll, CommitStaged, HeldFetch, HeldMerge, FetchOrigin, StartRebase,
     PickCommit, FinishRebase, LookAtStop, ExportMine, KeepUpstream, ContinueRebase, ContinueRefused,
     HoldMalformed, ReadHead, PushHead, Crash, NetworkFails, PushAnswerLost, LoopFails, PullFetch,
     PullMerge, Teammate, Edit, Mend, TeammateDeletes, Delete, MergeByHand
<1>8. QED
  BY <1>1, <1>2, <1>3, <1>4, <1>5, <1>6, <1>7

\* What Git writes over the worktree: untracked files stay, the rest is as staged.
LEMMA CheckedOut ==
    ASSUME NEW tree, index' = tree, wt' = Checkout(tree)
    PROVE  \A d \in Docs :
              /\ Untracked(d)' => Untracked(d)
              /\ ~Untracked(d)' => wt'[d] = index'[d]
              /\ Untracked(d) /\ tree[d] = NoDoc => Untracked(d)' /\ wt'[d] = wt[d]
<1> SUFFICES ASSUME NEW d \in Docs
             PROVE  /\ Untracked(d)' => Untracked(d)
                    /\ ~Untracked(d)' => wt'[d] = index'[d]
                    /\ Untracked(d) /\ tree[d] = NoDoc => Untracked(d)' /\ wt'[d] = wt[d]
  OBVIOUS
<1>1. wt'[d] = IF Untracked(d) /\ tree[d] = NoDoc THEN wt[d] ELSE tree[d]
  BY DEF Checkout
<1>2. CASE Untracked(d) /\ tree[d] = NoDoc
  BY <1>1, <1>2 DEF Untracked
<1>3. CASE ~(Untracked(d) /\ tree[d] = NoDoc)
  BY <1>1, <1>3 DEF Untracked
<1>4. QED
  BY <1>2, <1>3

\* Nothing is decided for removal inside a rebase.
LEMMA NothingDecided ==
    ASSUME sync'.pc # "remove", sync'.carried = sync.carried, Local, sync.pc # "remove"
    PROVE  Carried'
BY DEF Local, Carried, At, NothingCarried

\* The rebase starts: the branch lies on a commit whose words upstream kept.
LEMMA StartLocal ==
    ASSUME TypeOK, RebaseFits, OneBoard, Ahead, Local, StartRebase,
           ~Dirty, ~Collides, ~IsPrefix(ref, branch)
    PROVE  Local'
<1>1. /\ sync.pc = "rebase"
      /\ UNCHANGED <<ref, branch, saved, retired, made>>
      /\ reb' = [NoRebase EXCEPT !.head = ref, !.todo = Outgoing(branch, ref)]
      /\ index' = Tip(ref) /\ wt' = Checkout(Tip(ref)) /\ Goto("pick")
  BY DEF StartRebase, At, people
<1>2. /\ ref \in Seq(Trees) /\ ref # <<>> /\ branch \in Seq(Trees) /\ branch # <<>> /\ index \in Trees
      /\ wt \in Trees /\ origin \in Seq(Trees)
      /\ sync \in [pc : PCs, tries : 1..PushAttempts, doc : Docs \cup {NoDoc},
                   stopped : BOOLEAN, carried : Trees, head : Seq(Trees)]
  BY Shapes
<1>3. sync'.pc = "pick" /\ sync'.carried = sync.carried
  BY <1>1, <1>2 DEF Goto
<1>4. ~InRebase
  <2>1. sync.pc \notin RebasePCs \cup {"idle"}
    BY <1>1 DEF RebasePCs
  <2>2. QED
    BY <2>1, NoRebaseAt
<1>5. /\ reb'.head = ref /\ reb'.todo = Outgoing(branch, ref) /\ reb'.unmerged = {} /\ InRebase'
  <2>1. /\ reb'.head = ref /\ reb'.todo = Outgoing(branch, ref) /\ reb'.unmerged = {}
    BY <1>1 DEF NoRebase
  <2>2. reb'.head # NoRebase.head
    BY <1>2, <2>1 DEF NoRebase
  <2>3. QED
    BY <2>1, <2>2 DEF InRebase
<1>6. Own' = Own
  BY <1>1 DEF Own
<1>7. index = Tip(branch) /\ \A d \in Docs : Untracked(d) \/ wt[d] = index[d]
  BY DEF Dirty, Unstaged
<1>8. \A d \in Docs : Untracked(d) => Tip(ref)[d] = NoDoc
  BY DEF Collides
<1> DEFINE n == Shared(branch, ref)
           todo == Outgoing(branch, ref)
           tip == Tip(ref)
<1>9. branch[1] = ref[1]
  BY RootOf
<1>10. /\ n \in 1..Len(branch) /\ Len(branch) \in Nat \ {0} /\ Tip(branch) = branch[Len(branch)]
  <2>1. Len(branch) \in Nat \ {0} /\ Tip(branch) = branch[Len(branch)]
    BY <1>2, TipOf
  <2>2. n \in 1..Len(branch)
    BY <1>2, <1>9, SharedOf
  <2>3. QED
    BY <2>1, <2>2
<1>11. /\ todo \in Seq(Commits) /\ Len(todo) = Len(branch) - n
       /\ \A i \in 1..(Len(branch) - n) : todo[i].from = branch[n + i - 1] /\ todo[i].to = branch[n + i]
  BY <1>2, <1>9, OutgoingIs
<1>12. OwnKept(retired, branch[n], tip)
  <2>1. IsPrefix(ref, origin) /\ Beyond(retired, branch, origin)
    BY DEF OneBoard, Ahead
  <2>2. QED
    BY <1>2, <1>9, <2>1, BaseOwn
<1> HIDE DEF n, todo
<1>13. \A d \in Docs :
          /\ Untracked(d)' => Untracked(d)
          /\ ~Untracked(d)' => wt'[d] = index'[d]
          /\ Untracked(d) /\ tip[d] = NoDoc => Untracked(d)' /\ wt'[d] = wt[d]
  <2> HIDE DEF tip
  <2>1. index' = tip /\ wt' = Checkout(tip)
    BY <1>1 DEF tip
  <2>2. QED
    BY <2>1, CheckedOut
<1>14. Rest'
  BY <1>5 DEF Rest
<1>15. Back'
  <2>1. ASSUME NEW e \in Own
        PROVE  In(e, Tip(branch)) \/ Copied(e) \/ (Untracked(DocOf[e])' /\ In(e, wt'))
    <3>1. DocOf[e] \in Docs
      BY OwnDocs
    <3>2. In(e, wt) \/ Copied(e)
      BY <1>4 DEF Local, Rest
    <3>3. CASE Untracked(DocOf[e]) /\ In(e, wt)
      BY <1>8, <1>13, <3>1, <3>3 DEF In, tip
    <3>4. CASE ~Untracked(DocOf[e]) /\ In(e, wt)
      BY <1>7, <3>1, <3>4 DEF In
    <3>5. QED
      BY <3>2, <3>3, <3>4
  <2>2. ASSUME NEW d \in Docs
        PROVE  IF Untracked(d)' THEN Tip(branch)[d] = NoDoc ELSE wt'[d] = index'[d]
    BY <1>7, <1>13 DEF Untracked
  <2>3. branch' = branch /\ saved' = saved
    BY <1>1
  <2>4. QED
    BY <1>6, <2>1, <2>2, <2>3 DEF Back, Copied
<1>16. Len(todo) \in Nat /\ DOMAIN todo = 1..Len(todo)
  BY <1>11
<1>17. Chain'
  <2>1. ASSUME NEW i \in DOMAIN todo, i > 1 PROVE todo[i].from = todo[i - 1].to
    <3>1. i \in 1..(Len(branch) - n) /\ i - 1 \in 1..(Len(branch) - n) /\ n + (i - 1) = n + i - 1
      BY <1>10, <1>11, <1>16, <2>1
    <3>2. todo[i].from = branch[n + i - 1] /\ todo[i - 1].to = branch[n + (i - 1)]
      BY <1>11, <3>1
    <3>3. QED
      BY <3>1, <3>2
  <2>2. ASSUME todo # <<>> PROVE todo[Len(todo)].to = Tip(branch)
    <3>1. Len(todo) # 0
      BY <1>11, <2>2, EmptySeq
    <3>2. Len(todo) \in 1..(Len(branch) - n) /\ n + Len(todo) = Len(branch)
      BY <1>10, <1>11, <1>16, <3>1
    <3>3. todo[Len(todo)].to = branch[n + Len(todo)]
      BY <1>11, <3>2
    <3>4. QED
      BY <1>10, <3>2, <3>3
  <2>3. reb'.todo = todo /\ branch' = branch
    BY <1>1, <1>5 DEF todo
  <2>4. QED
    BY <2>1, <2>2, <2>3 DEF Chain
<1>18. Base' = branch[n]
  <2>1. reb'.todo = todo /\ branch' = branch
    BY <1>1, <1>5 DEF todo
  <2>2. CASE todo = <<>>
    <3>1. Len(todo) = 0
      BY <2>2
    <3>2. n = Len(branch)
      BY <1>10, <1>11, <3>1
    <3>3. QED
      BY <1>10, <2>1, <2>2, <3>2 DEF Base
  <2>3. CASE todo # <<>>
    <3>1. Len(todo) # 0 /\ Head(todo) = todo[1]
      BY <1>11, <2>3, EmptySeq, TailOf
    <3>2. 1 \in 1..(Len(branch) - n) /\ n + 1 - 1 = n
      BY <1>10, <1>11, <1>16, <3>1
    <3>3. todo[1].from = branch[n + 1 - 1]
      BY <1>11, <3>2
    <3>4. QED
      BY <2>1, <2>3, <3>1, <3>2, <3>3 DEF Base
  <2>4. QED
    BY <2>2, <2>3
<1>19. Picking'
  <2>1. reb'.unmerged = {} /\ index' = tip /\ Tip(reb'.head) = tip
    BY <1>1, <1>5
  <2>2. ASSUME NEW e \in Own, In(e, Base') PROVE In(e, tip)
    <3>1. DocOf[e] \in Docs /\ e \in Mine /\ e \notin retired
      BY OwnDocs DEF Own
    <3> HIDE DEF tip
    <3>2. QED
      BY <1>12, <1>18, <2>2, <3>1 DEF OwnKept, In
  <2> HIDE DEF tip
  <2>3. QED
    BY <1>3, <1>6, <2>1, <2>2 DEF Picking, At
<1>20. Carried'
  BY <1>1, <1>3, NothingDecided
<1>21. QED
  BY <1>14, <1>15, <1>17, <1>19, <1>20 DEF Local

\* Inside a rebase the branch is as it was: what aborting brings back stays, if
\* no untracked file is written over.
LEMMA ReplayLocal ==
    ASSUME Local, InRebase, InRebase', UNCHANGED <<branch, made, retired>>,
           \A e \in Own : Copied(e) => Copied(e)',
           \A e \in Own : Untracked(DocOf[e]) /\ In(e, wt) => Untracked(DocOf[e])' /\ In(e, wt'),
           \A d \in Docs : Untracked(d)' => Untracked(d),
           \A d \in Docs : ~Untracked(d)' => wt'[d] = index'[d],
           Chain', Picking', sync'.pc # "remove", sync'.carried = sync.carried, sync.pc # "remove"
    PROVE  Local'
<1>1. Own' = Own
  BY DEF Own
<1>2. Back'
  <2>1. ASSUME NEW e \in Own
        PROVE  In(e, Tip(branch)) \/ Copied(e)' \/ (Untracked(DocOf[e])' /\ In(e, wt'))
    BY DEF Local, Back
  <2>2. ASSUME NEW d \in Docs
        PROVE  IF Untracked(d)' THEN Tip(branch)[d] = NoDoc ELSE wt'[d] = index'[d]
    BY DEF Local, Back
  <2>3. QED
    BY <1>1, <2>1, <2>2 DEF Back
<1>3. Rest'
  BY DEF Rest
<1>4. Carried'
  BY NothingDecided
<1>5. QED
  BY <1>2, <1>3, <1>4 DEF Local

\* The next commit is replayed: a merge keeps its words, and a conflict stops
\* before the document is written over.
LEMMA PickLocal ==
    ASSUME TypeOK, RebaseFits, Local, PickCommit
    PROVE  Local'
<1>1. /\ sync.pc = "pick" /\ reb.todo # <<>> /\ ~PickBlocked
      /\ UNCHANGED <<branch, saved, made, retired>>
      /\ index' = PickTree /\ wt' = Checkout(PickTree)
      /\ reb' = [head |-> IF PickConflicts = {} /\ PickTree # Tip(reb.head)
                         THEN Append(reb.head, PickTree) ELSE reb.head,
                 todo |-> Tail(reb.todo),
                 mine |-> IF PickConflicts = {} THEN <<>> ELSE Head(reb.todo).to,
                 unmerged |-> PickConflicts]
      /\ sync' = IF PickConflicts = {} THEN sync
                 ELSE [sync EXCEPT !.pc = "stop", !.stopped = TRUE]
  BY DEF PickCommit, At, people
<1>2. InRebase /\ reb.head # <<>>
  BY <1>1 DEF RebaseFits, RebasePCs
<1> DEFINE todo == reb.todo
           pick == Head(reb.todo)
           tree == PickTree
           conflicts == PickConflicts
<1>3. /\ todo \in Seq(Commits) /\ todo # <<>> /\ reb.head \in Seq(Trees) /\ wt \in Trees
      /\ pick \in Commits /\ pick = todo[1] /\ Tail(todo) \in Seq(Commits)
      /\ tree \in Trees /\ conflicts \in SUBSET Docs /\ Tip(reb.head) \in Trees
      /\ sync \in [pc : PCs, tries : 1..PushAttempts, doc : Docs \cup {NoDoc},
                   stopped : BOOLEAN, carried : Trees, head : Seq(Trees)]
  BY <1>1, <1>2, PickTypes, Shapes
<1>4. /\ Len(todo) \in Nat \ {0} /\ Len(Tail(todo)) = Len(todo) - 1
      /\ \A i \in 1..Len(Tail(todo)) : Tail(todo)[i] = todo[i + 1]
      /\ DOMAIN todo = 1..Len(todo) /\ DOMAIN Tail(todo) = 1..Len(Tail(todo))
  <2> HIDE DEF todo
  <2>1. Len(todo) \in Nat \ {0}
    BY <1>3, EmptySeq
  <2>2. Len(Tail(todo)) = Len(todo) - 1 /\ \A i \in 1..Len(Tail(todo)) : Tail(todo)[i] = todo[i + 1]
    BY <1>3, HeadTailProperties
  <2>3. QED
    BY <1>3, <2>1, <2>2
<1>5. /\ \A i \in 1..Len(todo) : i > 1 => todo[i].from = todo[i - 1].to
      /\ todo[Len(todo)].to = Tip(branch)
  BY <1>1, <1>2, <1>4 DEF Local, Chain
<1>6. tree = [d \in Docs |-> IF d \in conflicts THEN Text(Tip(reb.head)[d]) \cup Text(pick.to[d])
                            ELSE Merged(pick.from[d], Tip(reb.head)[d], pick.to[d])]
  BY DEF PickTree
<1>7. /\ reb'.todo = Tail(todo) /\ reb'.unmerged = conflicts
      /\ conflicts # {} => reb'.mine = pick.to
      /\ reb'.head = IF conflicts = {} /\ tree # Tip(reb.head) THEN Append(reb.head, tree) ELSE reb.head
  BY <1>1
<1>8. /\ conflicts = {} => sync'.pc = "pick"
      /\ conflicts # {} => sync'.pc = "stop"
      /\ sync'.carried = sync.carried
  BY <1>1, <1>3
<1>9. \A e \in Own : In(e, pick.from) => In(e, Tip(reb.head)) \/ Copied(e)
  BY <1>1 DEF Local, Picking, At, Base
<1>10. \A d \in Docs : Untracked(d) => tree[d] = NoDoc
  BY <1>1 DEF PickBlocked
<1>11. \A d \in Docs :
          /\ Untracked(d)' => Untracked(d)
          /\ ~Untracked(d)' => wt'[d] = index'[d]
          /\ Untracked(d) /\ tree[d] = NoDoc => Untracked(d)' /\ wt'[d] = wt[d]
  <2>1. index' = tree /\ wt' = Checkout(tree)
    BY <1>1
  <2> HIDE DEF tree
  <2>2. QED
    BY <2>1, CheckedOut
<1>staged. index' = tree
  BY <1>1
<1> HIDE DEF todo, pick, tree, conflicts
<1>12. Chain'
  <2>1. ASSUME NEW i \in DOMAIN Tail(todo), i > 1 PROVE Tail(todo)[i].from = Tail(todo)[i - 1].to
    <3>1. i \in 1..Len(Tail(todo)) /\ i - 1 \in 1..Len(Tail(todo)) /\ i + 1 \in 1..Len(todo) /\ i + 1 > 1
          /\ i + 1 - 1 = i /\ i - 1 + 1 = i
      BY <1>4, <2>1
    <3>2. Tail(todo)[i] = todo[i + 1] /\ Tail(todo)[i - 1] = todo[i - 1 + 1]
      BY <1>4, <3>1
    <3>3. todo[i + 1].from = todo[i + 1 - 1].to
      BY <1>5, <3>1
    <3>4. QED
      BY <3>1, <3>2, <3>3
  <2>2. ASSUME Tail(todo) # <<>> PROVE Tail(todo)[Len(Tail(todo))].to = Tip(branch)
    <3>1. Len(Tail(todo)) # 0
      BY <1>3, <2>2, EmptySeq
    <3>2. Len(Tail(todo)) \in 1..Len(Tail(todo)) /\ Len(Tail(todo)) + 1 = Len(todo)
      BY <1>4, <3>1
    <3>3. Tail(todo)[Len(Tail(todo))] = todo[Len(todo)]
      BY <1>4, <3>2
    <3>4. QED
      BY <1>5, <3>3
  <2>3. branch' = branch /\ reb'.todo = Tail(todo)
    BY <1>1, <1>7
  <2>4. QED
    BY <2>1, <2>2, <2>3 DEF Chain
<1>13. Base' = pick.to
  <2>1. reb'.todo = Tail(todo) /\ branch' = branch
    BY <1>1, <1>7
  <2>2. CASE Tail(todo) = <<>>
    <3>1. Len(todo) = 1
      BY <1>4, <2>2
    <3>2. QED
      BY <1>3, <1>5, <2>1, <2>2, <3>1 DEF Base
  <2>3. CASE Tail(todo) # <<>>
    <3>1. Len(Tail(todo)) # 0 /\ Head(Tail(todo)) = Tail(todo)[1]
      BY <1>3, <2>3, EmptySeq, TailOf
    <3>2. 1 \in 1..Len(Tail(todo)) /\ 1 + 1 \in 1..Len(todo) /\ 1 + 1 > 1 /\ 1 + 1 - 1 = 1
      BY <1>4, <3>1
    <3>3. Tail(todo)[1] = todo[1 + 1]
      BY <1>4, <3>2
    <3>4. todo[1 + 1].from = todo[1 + 1 - 1].to
      BY <1>5, <3>2
    <3>5. QED
      BY <1>3, <2>1, <2>3, <3>1, <3>2, <3>3, <3>4 DEF Base
  <2>4. QED
    BY <2>2, <2>3
<1>14. ASSUME NEW e \in Own, In(e, pick.to), DocOf[e] \notin conflicts
       PROVE  In(e, tree) \/ Copied(e)
  <2>1. DocOf[e] \in Docs
    BY OwnDocs
  <2> DEFINE base == pick.from[DocOf[e]]
             up == Tip(reb.head)[DocOf[e]]
             my == pick.to[DocOf[e]]
  <2>2. tree[DocOf[e]] = Merged(base, up, my)
    BY <1>6, <1>14, <2>1
  <2>3. base \in Texts /\ up \in Texts /\ my \in Texts
    BY <1>3, <2>1 DEF Commits, Trees
  <2>4. e \in Text(my) /\ (e \in Text(base) => e \in Text(up) \/ Copied(e))
    BY <1>9, <1>14 DEF In
  <2> HIDE DEF base, up, my
  <2>5. CASE e \in Text(base) => e \in Text(up)
    <3>1. e \in Text(Merged(base, up, my))
      BY <2>3, <2>4, <2>5, MergedOwn
    <3>2. QED
      BY <2>2, <3>1 DEF In
  <2>6. QED
    BY <2>4, <2>5
<1>15. \A e : Copied(e)' <=> Copied(e)
  BY <1>1 DEF Copied
<1>16. Own' = Own
  BY <1>1 DEF Own
<1>17. Picking'
  <2>1. CASE conflicts = {}
    <3>1. Tip(reb'.head) = tree
      <4>1. CASE tree # Tip(reb.head)
        <5>1. reb'.head = Append(reb.head, tree)
          BY <1>7, <2>1, <4>1
        <5>2. QED
          BY <1>3, <5>1, OnTop
      <4>2. CASE tree = Tip(reb.head)
        BY <1>7, <4>2
      <4>3. QED
        BY <4>1, <4>2
    <3>2. ASSUME NEW e \in Own, In(e, Base') PROVE In(e, tree) \/ Copied(e)
      BY <1>13, <1>14, <2>1, <3>2
    <3>3. QED
      BY <1>7, <1>8, <1>15, <1>16, <1>staged, <2>1, <3>1, <3>2 DEF Picking, At
  <2>2. CASE conflicts # {}
    <3>1. ASSUME NEW e \in Own, In(e, Base')
          PROVE  In(e, tree) \/ Copied(e) \/ DocOf[e] \in conflicts
      BY <1>13, <1>14, <3>1
    <3>2. ASSUME NEW d \in conflicts PROVE tree[d] # NoDoc
      <4>1. d \in Docs
        BY <1>3, <3>2
      <4>2. Text(Tip(reb.head)[d]) \in SUBSET Edits /\ Text(pick.to[d]) \in SUBSET Edits
        BY <1>3, <4>1, TextOf DEF Commits, Trees
      <4>3. tree[d] = Text(Tip(reb.head)[d]) \cup Text(pick.to[d])
        BY <1>6, <3>2, <4>1
      <4>4. QED
        BY <4>2, <4>3, SetsAreTexts
    <3>3. reb'.mine = Base'
      BY <1>7, <1>13, <2>2
    <3>4. reb'.unmerged = conflicts /\ index' = tree /\ sync'.pc = "stop" /\ Own' = Own
      BY <1>7, <1>8, <1>16, <1>staged, <2>2
    <3>5. /\ \A e \in Own' : In(e, Base') => In(e, index') \/ Copied(e)' \/ DocOf[e] \in reb'.unmerged
          /\ \A d \in reb'.unmerged : index'[d] # NoDoc
      BY <1>15, <3>1, <3>2, <3>4
    <3>6. QED
      BY <2>2, <3>3, <3>4, <3>5 DEF Picking, At
  <2>3. QED
    BY <2>1, <2>2
<1>18. InRebase'
  <2>1. reb'.head # <<>>
    <3>1. CASE reb'.head = reb.head
      BY <1>2, <3>1
    <3>2. CASE reb'.head = Append(reb.head, tree)
      <4>1. Append(reb.head, tree) \in Seq(Trees) /\ Len(Append(reb.head, tree)) = Len(reb.head) + 1
        BY <1>3, AppendProperties
      <4>2. Len(reb.head) \in Nat
        BY <1>3
      <4>3. Len(reb'.head) # 0
        BY <3>2, <4>1, <4>2
      <4>4. QED
        BY <4>3
    <3>3. QED
      BY <1>7, <3>1, <3>2
  <2>2. QED
    BY <2>1 DEF InRebase, NoRebase
<1>19. \A e \in Own : Untracked(DocOf[e]) /\ In(e, wt) => Untracked(DocOf[e])' /\ In(e, wt')
  BY <1>10, <1>11, OwnDocs DEF In
<1>20. sync'.pc # "remove" /\ sync.pc # "remove"
  BY <1>1, <1>8
<1>21. \A e \in Own : Copied(e) => Copied(e)'
  BY <1>15
<1>22. /\ \A d \in Docs : Untracked(d)' => Untracked(d)
       /\ \A d \in Docs : ~Untracked(d)' => wt'[d] = index'[d]
  BY <1>11
<1>23. QED
  BY <1>1, <1>2, <1>8, <1>12, <1>17, <1>18, <1>19, <1>20, <1>21, <1>22, ReplayLocal

\* The facts every step of the conflict loop starts from.
LEMMA LoopFacts ==
    ASSUME TypeOK, RebaseFits, Local, sync.pc \in RebasePCs
    PROVE  /\ InRebase /\ reb.head # <<>> /\ reb.head \in Seq(Trees) /\ wt \in Trees /\ index \in Trees
           /\ reb.unmerged \in SUBSET Docs /\ sync.carried = NothingCarried
           /\ \A d \in Docs : ~Untracked(d) => wt[d] = index[d]
           /\ sync \in [pc : PCs, tries : 1..PushAttempts, doc : Docs \cup {NoDoc},
                        stopped : BOOLEAN, carried : Trees, head : Seq(Trees)]
<1>1. InRebase /\ reb.head # <<>>
  BY DEF RebaseFits
<1>2. sync.pc # "remove"
  BY DEF RebasePCs
<1>3. sync.carried = NothingCarried
  BY <1>2 DEF Local, Carried, At
<1>4. \A d \in Docs : ~Untracked(d) => wt[d] = index[d]
  BY <1>1 DEF Local, Back
<1>5. QED
  BY <1>1, <1>3, <1>4, Shapes

\* The worktree and the copies stay as they are in the middle of a rebase.
LEMMA LoopLocal ==
    ASSUME TypeOK, RebaseFits, Local, sync.pc \in RebasePCs, InRebase',
           UNCHANGED <<branch, made, retired, index, wt>>, reb'.todo = reb.todo,
           \A e \in Own : Copied(e) => Copied(e)', Picking',
           sync'.pc # "remove", sync'.carried = sync.carried
    PROVE  Local'
<1>1. /\ InRebase /\ \A d \in Docs : ~Untracked(d) => wt[d] = index[d]
  BY LoopFacts
<1>2. \A d : Untracked(d)' <=> Untracked(d)
  BY DEF Untracked
<1>3. Chain'
  BY <1>1 DEF Local, Chain
<1>4. sync.pc # "remove"
  BY DEF RebasePCs
<1>5. \A e \in Own : Untracked(DocOf[e]) /\ In(e, wt) => Untracked(DocOf[e])' /\ In(e, wt')
  BY <1>2
<1>6. QED
  BY <1>1, <1>2, <1>3, <1>4, <1>5, ReplayLocal

\* The commit skipped at a stop without unmerged paths was empty.
LEMMA LookLocal ==
    ASSUME TypeOK, RebaseFits, Local, LookAtStop
    PROVE  Local'
<1>1. sync.pc = "stop" /\ UNCHANGED <<branch, reb, saved, made, retired>>
  BY DEF LookAtStop, At, SkipCommit, clone, people
<1>2. sync.pc \in RebasePCs
  BY <1>1 DEF RebasePCs
<1>3. /\ InRebase /\ reb.head # <<>> /\ wt \in Trees
      /\ \A d \in Docs : ~Untracked(d) => wt[d] = index[d]
      /\ sync \in [pc : PCs, tries : 1..PushAttempts, doc : Docs \cup {NoDoc},
                   stopped : BOOLEAN, carried : Trees, head : Seq(Trees)]
  BY <1>2, LoopFacts
<1>4. UNCHANGED <<index, wt>>
  <2>1. CASE reb.unmerged = {}
    <3>1. index = Tip(reb.head)
      BY <1>1, <2>1 DEF Local, Picking, At
    <3>2. index' = index /\ wt' = Checkout(index)
      BY <2>1, <3>1 DEF LookAtStop, SkipCommit
    <3>3. \A d \in Docs : wt'[d] = wt[d]
      BY <1>3, <3>2 DEF Checkout, Untracked
    <3>4. wt' = wt
      BY <1>3, <3>2, <3>3 DEF Checkout, Trees
    <3>5. QED
      BY <3>2, <3>4
  <2>2. CASE reb.unmerged # {}
    BY <2>2 DEF LookAtStop, clone
  <2>3. QED
    BY <2>1, <2>2
<1>5. /\ sync'.pc = IF reb.unmerged = {} THEN "pick" ELSE "export"
      /\ sync'.carried = sync.carried
  BY <1>3 DEF LookAtStop, Goto
<1>6. /\ \A e : Copied(e)' <=> Copied(e)
      /\ Own' = Own /\ Base' = Base
  BY <1>1 DEF Copied, Own, Base
<1>7. /\ \A e \in Own : In(e, Base) => In(e, index) \/ Copied(e) \/ DocOf[e] \in reb.unmerged
      /\ \A d \in reb.unmerged : index[d] # NoDoc
      /\ reb.unmerged # {} => reb.mine = Base
      /\ reb.unmerged = {} => index = Tip(reb.head)
  BY <1>1 DEF Local, Picking, At
<1>8. Picking'
  <2>1. CASE reb.unmerged = {}
    <3>1. ASSUME NEW e \in Own', In(e, Base') PROVE In(e, Tip(reb.head)) \/ Copied(e)'
      BY <1>6, <1>7, <2>1, <3>1
    <3>2. sync'.pc = "pick" /\ index' = Tip(reb.head) /\ reb' = reb
      BY <1>1, <1>4, <1>5, <1>7, <2>1
    <3>3. QED
      BY <2>1, <3>1, <3>2 DEF Picking, At
  <2>2. CASE reb.unmerged # {}
    <3>1. sync'.pc = "export" /\ index' = index /\ reb' = reb
      BY <1>1, <1>4, <1>5, <2>2
    <3>2. ASSUME NEW e \in Own', In(e, Base')
          PROVE  In(e, index') \/ Copied(e)' \/ DocOf[e] \in reb'.unmerged
      BY <1>6, <1>7, <3>1, <3>2
    <3>3. /\ \A d \in reb'.unmerged : index'[d] # NoDoc
          /\ reb'.unmerged # {} => reb'.mine = Base'
      BY <1>6, <1>7, <3>1
    <3>4. QED
      BY <3>1, <3>2, <3>3 DEF Picking, At
  <2>3. QED
    BY <2>1, <2>2
<1>9. InRebase' /\ sync'.pc # "remove"
  BY <1>1, <1>3, <1>5 DEF InRebase
<1>10. QED
  BY <1>1, <1>2, <1>4, <1>5, <1>6, <1>8, <1>9, LoopLocal

\* Your version is saved before upstream's is kept ...
LEMMA ExportLocal ==
    ASSUME TypeOK, RebaseFits, Local, ExportMine
    PROVE  Local'
<1>1. sync.pc = "export" /\ UNCHANGED <<branch, index, wt, reb, made, retired>>
  BY DEF ExportMine, At, clone, people
<1>2. sync.pc \in RebasePCs
  BY <1>1 DEF RebasePCs
<1>3. /\ InRebase /\ reb.unmerged \in SUBSET Docs
      /\ sync \in [pc : PCs, tries : 1..PushAttempts, doc : Docs \cup {NoDoc},
                   stopped : BOOLEAN, carried : Trees, head : Seq(Trees)]
  BY <1>2, LoopFacts
<1>4. PICK d \in reb.unmerged :
         /\ sync' = [sync EXCEPT !.pc = "keep", !.doc = d]
         /\ saved' = IF reb.mine[d] = NoDoc THEN saved
                     ELSE [saved EXCEPT ![d] = WithCopy(saved[d], reb.mine[d])]
  BY DEF ExportMine, ExportedVersion
<1>5. sync'.pc = "keep" /\ sync'.doc = d /\ sync'.carried = sync.carried
  BY <1>3, <1>4
<1>6. /\ \A e \in Own : In(e, Base) => In(e, index) \/ Copied(e) \/ DocOf[e] \in reb.unmerged
      /\ \A c \in reb.unmerged : index[c] # NoDoc
      /\ reb.mine = Base
  BY <1>1, <1>4 DEF Local, Picking, At
<1>7. d \in Docs /\ reb.mine \in Trees /\ saved \in [Docs -> Seq(SUBSET Edits)]
  BY <1>3, <1>4, Shapes DEF RebaseFits
<1> DEFINE mine == reb.mine[d]
           copies == saved[d]
<1>8. mine \in Texts /\ copies \in Seq(SUBSET Edits)
  BY <1>7 DEF Trees
<1>9. CASE mine = NoDoc
  <2>1. saved' = saved
    BY <1>4, <1>9
  <2>2. \A e : Copied(e)' <=> Copied(e)
    BY <2>1 DEF Copied
  <2>3. \A e \in Own : DocOf[e] = d => ~In(e, Base)
    BY <1>6, <1>9 DEF In, Text
  <2>4. Own' = Own /\ Base' = Base
    BY <1>1 DEF Own, Base
  <2>5. Picking'
    <3>1. ASSUME NEW e \in Own', In(e, Base')
          PROVE  In(e, index') \/ Copied(e)' \/ DocOf[e] \in reb'.unmerged
      BY <1>1, <1>6, <2>2, <2>4, <3>1
    <3>2. /\ \A c \in reb'.unmerged : index'[c] # NoDoc
          /\ reb'.mine = Base'
      BY <1>1, <1>6, <2>4
    <3>3. \A e \in Own' : DocOf[e] = sync'.doc /\ In(e, Base') => Copied(e)'
      BY <1>5, <2>3, <2>4
    <3>4. QED
      BY <1>5, <3>1, <3>2, <3>3 DEF Picking, At
  <2>6. \A e \in Own : Copied(e) => Copied(e)'
    BY <2>2
  <2>7. InRebase' /\ sync'.pc # "remove"
    BY <1>1, <1>3, <1>5 DEF InRebase
  <2>8. QED
    BY <1>1, <1>2, <1>5, <2>5, <2>6, <2>7, LoopLocal
<1>10. CASE mine # NoDoc
  <2> DEFINE more == WithCopy(copies, mine)
  <2>1. mine \in SUBSET Edits /\ Text(mine) = mine
    BY <1>8, <1>10, TextOf
  <2>2. saved' = [saved EXCEPT ![d] = more]
    BY <1>4, <1>10
  <2>3. saved'[d] = more /\ \A c \in Docs : c # d => saved'[c] = saved[c]
    BY <1>7, <2>2
  <2>4. /\ \A j \in DOMAIN copies : j \in DOMAIN more /\ more[j] = copies[j]
        /\ \E i \in DOMAIN more : more[i] = mine
    <3> HIDE DEF copies, mine
    <3>1. QED
      BY <1>8, <2>1, WithCopyKeeps
  <2> HIDE DEF more
  <2>5. ASSUME NEW e \in Own, Copied(e) PROVE Copied(e)'
    <3>1. DocOf[e] \in Docs
      BY OwnDocs
    <3>2. CASE DocOf[e] = d
      BY <2>3, <2>4, <2>5, <3>2 DEF Copied
    <3>3. CASE DocOf[e] # d
      BY <2>3, <2>5, <3>1, <3>3 DEF Copied
    <3>4. QED
      BY <3>2, <3>3
  <2>6. ASSUME NEW e \in Own, DocOf[e] = d, In(e, Base) PROVE Copied(e)'
    <3>1. e \in mine
      BY <1>6, <2>1, <2>6 DEF In
    <3> HIDE DEF mine
    <3>2. \E i \in DOMAIN more : e \in more[i]
      BY <2>4, <3>1
    <3>3. QED
      BY <2>3, <2>6, <3>2 DEF Copied
  <2>7. Own' = Own /\ Base' = Base
    BY <1>1 DEF Own, Base
  <2>8. Picking'
    <3>1. ASSUME NEW e \in Own', In(e, Base')
          PROVE  In(e, index') \/ Copied(e)' \/ DocOf[e] \in reb'.unmerged
      BY <1>1, <1>6, <2>5, <2>7, <3>1
    <3>2. /\ \A c \in reb'.unmerged : index'[c] # NoDoc
          /\ reb'.mine = Base'
      BY <1>1, <1>6, <2>7
    <3>3. \A e \in Own' : DocOf[e] = sync'.doc /\ In(e, Base') => Copied(e)'
      BY <1>5, <2>6, <2>7
    <3>4. QED
      BY <1>5, <3>1, <3>2, <3>3 DEF Picking, At
  <2>9. InRebase' /\ sync'.pc # "remove"
    BY <1>1, <1>3, <1>5 DEF InRebase
  <2>10. QED
    BY <1>1, <1>2, <1>5, <2>5, <2>8, <2>9, LoopLocal
<1>11. QED
  BY <1>9, <1>10

\* ... so that keeping upstream's loses nothing.
LEMMA KeepUpstreamLocal ==
    ASSUME TypeOK, RebaseFits, Local, KeepUpstream
    PROVE  Local'
<1>0. PICK d : d = sync.doc
  OBVIOUS
<1>1. /\ sync.pc = "keep" /\ UNCHANGED <<branch, saved, made, retired>>
      /\ index' = [index EXCEPT ![d] = Tip(ref)[d]] /\ wt' = [wt EXCEPT ![d] = Tip(ref)[d]]
      /\ reb' = [reb EXCEPT !.unmerged = reb.unmerged \ {d}]
      /\ sync' = [sync EXCEPT !.doc = NoDoc,
                     !.pc = IF reb.unmerged = {d} THEN "continue" ELSE "export"]
  BY <1>0 DEF KeepUpstream, UpstreamVersion, At, people
<1>2. sync.pc \in RebasePCs
  BY <1>1 DEF RebasePCs
<1>3. /\ InRebase /\ reb.head # <<>> /\ wt \in Trees /\ index \in Trees /\ reb.unmerged \in SUBSET Docs
      /\ \A c \in Docs : ~Untracked(c) => wt[c] = index[c]
      /\ sync \in [pc : PCs, tries : 1..PushAttempts, doc : Docs \cup {NoDoc},
                   stopped : BOOLEAN, carried : Trees, head : Seq(Trees)]
      /\ reb \in [head : Seq(Trees), todo : Seq(Commits), mine : Trees \cup {<<>>},
                  unmerged : SUBSET Docs]
  BY <1>2, LoopFacts, Shapes
<1>4. d \in reb.unmerged /\ d \in Docs
  BY <1>0, <1>1, <1>3 DEF RebaseFits, At
<1>5. /\ \A e \in Own : In(e, Base) => In(e, index) \/ Copied(e) \/ DocOf[e] \in reb.unmerged
      /\ \A c \in reb.unmerged : index[c] # NoDoc
      /\ reb.mine = Base
      /\ \A e \in Own : DocOf[e] = d /\ In(e, Base) => Copied(e)
  BY <1>0, <1>1, <1>4 DEF Local, Picking, At
<1>6. /\ index'[d] = wt'[d]
      /\ \A c \in Docs : c # d => index'[c] = index[c] /\ wt'[c] = wt[c]
  BY <1>1, <1>3, <1>4 DEF Trees
<1>7. /\ reb'.unmerged = reb.unmerged \ {d} /\ reb'.todo = reb.todo /\ reb'.mine = reb.mine
      /\ reb'.head = reb.head
  BY <1>1, <1>3
<1>8. sync'.pc \in {"continue", "export"} /\ sync'.carried = sync.carried
  BY <1>1, <1>3
<1>9. Own' = Own /\ Base' = Base /\ \A e : Copied(e)' <=> Copied(e)
  BY <1>1, <1>7 DEF Own, Base, Copied
<1>10. ~Untracked(d) /\ ~Untracked(d)' /\ \A c \in Docs : c # d => (Untracked(c)' <=> Untracked(c))
  BY <1>4, <1>5, <1>6 DEF Untracked
<1>11. Chain'
  BY <1>1, <1>3, <1>7 DEF Local, Chain
<1>12. Picking'
  <2>1. ASSUME NEW e \in Own', In(e, Base')
        PROVE  In(e, index') \/ Copied(e)' \/ DocOf[e] \in reb'.unmerged
    <3>1. DocOf[e] \in Docs
      BY <1>9, OwnDocs
    <3>2. CASE DocOf[e] = d
      BY <1>5, <1>9, <2>1, <3>2
    <3>3. CASE DocOf[e] # d
      BY <1>5, <1>6, <1>7, <1>9, <2>1, <3>1, <3>3 DEF In
    <3>4. QED
      BY <3>2, <3>3
  <2>2. \A c \in reb'.unmerged : index'[c] # NoDoc
    BY <1>3, <1>5, <1>6, <1>7
  <2>3. reb'.mine = Base'
    BY <1>5, <1>7, <1>9
  <2>4. QED
    BY <1>8, <2>1, <2>2, <2>3 DEF Picking, At
<1>13. InRebase'
  BY <1>3, <1>7 DEF InRebase, NoRebase
<1>14. \A e \in Own : Untracked(DocOf[e]) /\ In(e, wt) => Untracked(DocOf[e])' /\ In(e, wt')
  BY <1>6, <1>10, OwnDocs DEF In
<1>15. /\ \A c \in Docs : Untracked(c)' => Untracked(c)
       /\ \A c \in Docs : ~Untracked(c)' => wt'[c] = index'[c]
  BY <1>3, <1>6, <1>10
<1>16. /\ \A e \in Own : Copied(e) => Copied(e)'
       /\ sync'.pc # "remove" /\ sync.pc # "remove"
  BY <1>1, <1>8, <1>9
<1>17. QED
  BY <1>1, <1>3, <1>8, <1>11, <1>12, <1>13, <1>14, <1>15, <1>16, ReplayLocal

\* `--continue` commits what is staged; it is refused only over an empty commit,
\* as nobody writes at a stop.
LEMMA ContinueLocal ==
    ASSUME TypeOK, RebaseFits, Local, ContinueRebase \/ ContinueRefused
    PROVE  Local'
<1>1. sync.pc = "continue" /\ UNCHANGED <<branch, index, wt, saved, made, retired>>
  BY DEF ContinueRebase, ContinueRefused, At, clone, people
<1>2. sync.pc \in RebasePCs
  BY <1>1 DEF RebasePCs
<1>3. /\ InRebase /\ reb.head # <<>> /\ reb.head \in Seq(Trees) /\ index \in Trees
      /\ \A d \in Docs : ~Untracked(d) => wt[d] = index[d]
      /\ sync \in [pc : PCs, tries : 1..PushAttempts, doc : Docs \cup {NoDoc},
                   stopped : BOOLEAN, carried : Trees, head : Seq(Trees)]
      /\ reb \in [head : Seq(Trees), todo : Seq(Commits), mine : Trees \cup {<<>>},
                  unmerged : SUBSET Docs]
  BY <1>2, LoopFacts, Shapes
<1>4. reb.unmerged = {}
  BY <1>1 DEF RebaseFits, At
<1>5. \A e \in Own : In(e, Base) => In(e, index) \/ Copied(e)
  BY <1>1, <1>4 DEF Local, Picking, At
<1>6. \A e : Copied(e)' <=> Copied(e)
  BY <1>1 DEF Copied
<1>7. Own' = Own
  BY <1>1 DEF Own
<1>8. CASE ContinueRebase
  <2>1. reb' = [reb EXCEPT !.head = IF index = Tip(reb.head) THEN reb.head ELSE Append(reb.head, index),
                          !.mine = <<>>] /\ Goto("pick")
    BY <1>8 DEF ContinueRebase
  <2>2. /\ reb'.head = IF index = Tip(reb.head) THEN reb.head ELSE Append(reb.head, index)
        /\ reb'.todo = reb.todo /\ reb'.unmerged = {}
    BY <1>3, <1>4, <2>1
  <2>3. sync'.pc = "pick" /\ sync'.carried = sync.carried
    BY <1>3, <2>1 DEF Goto
  <2>4. Tip(reb'.head) = index
    BY <1>3, <2>2, OnTop
  <2>5. Base' = Base
    BY <1>1, <2>2 DEF Base
  <2>6. Picking'
    <3>1. ASSUME NEW e \in Own', In(e, Base') PROVE In(e, Tip(reb'.head)) \/ Copied(e)'
      BY <1>5, <1>6, <1>7, <2>4, <2>5, <3>1
    <3>2. QED
      BY <1>1, <2>2, <2>3, <2>4, <3>1 DEF Picking, At
  <2>7. InRebase'
    <3>1. reb'.head # <<>>
      <4>1. CASE index = Tip(reb.head)
        BY <1>3, <2>2, <4>1
      <4>2. CASE index # Tip(reb.head)
        <5>1. Len(Append(reb.head, index)) = Len(reb.head) + 1 /\ Len(reb.head) \in Nat
          BY <1>3, AppendProperties
        <5>2. Len(reb'.head) # 0
          BY <2>2, <4>2, <5>1
        <5>3. QED
          BY <5>2
      <4>3. QED
        BY <4>1, <4>2
    <3>2. QED
      BY <3>1 DEF InRebase, NoRebase
  <2>8. sync'.pc # "remove" /\ \A e \in Own : Copied(e) => Copied(e)'
    BY <1>6, <2>3
  <2>9. QED
    BY <1>1, <1>2, <2>2, <2>3, <2>6, <2>7, <2>8, LoopLocal
<1>9. CASE ContinueRefused
  <2>1. ~Unstaged
    BY <1>3 DEF Unstaged
  <2>2. index = Tip(reb.head) /\ Goto("stop") /\ reb' = reb
    BY <1>9, <2>1 DEF ContinueRefused, clone
  <2>3. sync'.pc = "stop" /\ sync'.carried = sync.carried
    BY <1>3, <2>2 DEF Goto
  <2>4. Base' = Base /\ InRebase'
    BY <1>1, <1>3, <2>2 DEF Base, InRebase
  <2>5. Picking'
    <3>1. ASSUME NEW e \in Own', In(e, Base') PROVE In(e, index') \/ Copied(e)'
      BY <1>1, <1>5, <1>6, <1>7, <2>4, <3>1
    <3>2. QED
      BY <1>1, <1>4, <2>2, <2>3, <3>1 DEF Picking, At
  <2>6. sync'.pc # "remove" /\ reb'.todo = reb.todo /\ \A e \in Own : Copied(e) => Copied(e)'
    BY <1>6, <2>2, <2>3
  <2>7. QED
    BY <1>1, <1>2, <2>3, <2>4, <2>5, <2>6, LoopLocal
<1>10. QED
  BY <1>8, <1>9

\* The branch moves onto what was replayed, which the worktree holds.
LEMMA FinishLocal ==
    ASSUME TypeOK, RebaseFits, Local, FinishRebase
    PROVE  Local'
<1>1. /\ sync.pc = "pick" /\ reb.todo = <<>> /\ reb' = NoRebase
      /\ UNCHANGED <<index, wt, saved, made, retired>>
      /\ IF sync.stopped THEN End ELSE Goto("hold")
  BY DEF FinishRebase, At, people
<1>2. sync.pc \in RebasePCs
  BY <1>1 DEF RebasePCs
<1>3. /\ InRebase /\ \A d \in Docs : ~Untracked(d) => wt[d] = index[d]
      /\ sync.carried = NothingCarried
      /\ sync \in [pc : PCs, tries : 1..PushAttempts, doc : Docs \cup {NoDoc},
                   stopped : BOOLEAN, carried : Trees, head : Seq(Trees)]
  BY <1>2, LoopFacts
<1>4. index = Tip(reb.head) /\ \A e \in Own : In(e, Tip(branch)) => In(e, index) \/ Copied(e)
  BY <1>1 DEF Local, Picking, At, Base
<1>5. ASSUME NEW e \in Own PROVE In(e, wt) \/ Copied(e)
  <2>1. In(e, Tip(branch)) \/ Copied(e) \/ (Untracked(DocOf[e]) /\ In(e, wt))
    BY <1>3 DEF Local, Back
  <2>2. CASE In(e, index)
    <3>1. DocOf[e] \in Docs
      BY OwnDocs
    <3>2. ~Untracked(DocOf[e])
      BY <2>2 DEF In, Untracked, Text
    <3>3. QED
      BY <1>3, <2>2, <3>1, <3>2 DEF In
  <2>3. QED
    BY <1>4, <2>1, <2>2
<1>6. \A e \in Own' : In(e, wt') \/ Copied(e)'
  BY <1>1, <1>5 DEF Own, Copied
<1>7. ~InRebase' /\ sync'.pc \in {"idle", "hold"} /\ sync'.carried = NothingCarried
  <2>1. ~InRebase'
    BY <1>1 DEF InRebase
  <2>2. CASE sync.stopped
    BY <1>1, <2>1, <2>2 DEF End, Idle
  <2>3. CASE ~sync.stopped
    BY <1>1, <1>3, <2>1, <2>3 DEF Goto
  <2>4. QED
    BY <2>2, <2>3
<1>8. sync'.pc \notin RebasePCs \cup {"remove"}
  BY <1>7 DEF RebasePCs
<1>9. QED
  BY <1>6, <1>7, <1>8, OutsideLocal

\* A fast-forward, of a held sync or of the background pull.
LEMMA PullLocal ==
    ASSUME TypeOK, RebaseFits, OneBoard, Ahead, Local, FastForward, UNCHANGED <<saved, sync, made, retired>>
    PROVE  Local'
<1>1. Own' = Own
  BY DEF Own
<1>2. CASE UNCHANGED clone
  BY <1>1, <1>2, QuietLocal
<1>3. CASE ~UNCHANGED clone
  <2>1. ~InRebase /\ reb' = reb
    BY <1>3 DEF FastForward, MayFastForward
  <2>2. \A e \in Own : In(e, wt) => In(e, wt')
    BY ForwardWords
  <2>3. Carried'
    BY <1>1, <2>2, CarriedStays DEF Local
  <2>4. \A e \in Own' : In(e, wt') \/ Copied(e)'
    BY <1>1, <2>1, <2>2 DEF Local, Rest, Copied
  <2>5. QED
    BY <2>1, <2>3, <2>4, PeopleLocal
<1>4. QED
  BY <1>2, <1>3

\* A copy is judged carried: the document holds its words.
LEMMA ClassifyLocal ==
    ASSUME TypeOK, RebaseFits, Local, ClassifyCopies
    PROVE  Local'
<1>1. /\ sync.pc = "classify" /\ UNCHANGED <<branch, index, wt, reb, saved, made, retired>>
      /\ sync' = [sync EXCEPT !.pc = "remove",
             !.carried = [d \in Docs |->
                 IF \E i \in DOMAIN saved[d] : CopyIsCarried(saved[d][i], wt[d]) THEN wt[d] ELSE NoDoc]]
  BY DEF ClassifyCopies, At, clone, people
<1>2. ~InRebase
  <2>1. sync.pc \notin RebasePCs \cup {"idle"}
    BY <1>1 DEF RebasePCs
  <2>2. QED
    BY <2>1, NoRebaseAt
<1>3. sync'.pc = "remove" /\ sync'.carried = [d \in Docs |->
         IF \E i \in DOMAIN saved[d] : CopyIsCarried(saved[d][i], wt[d]) THEN wt[d] ELSE NoDoc]
  BY <1>1, Shapes
<1>4. ~InRebase' /\ Own' = Own
  BY <1>1, <1>2 DEF InRebase, Own
<1>5. Rest'
  BY <1>1, <1>2, <1>4 DEF Local, Rest, Copied
<1>6. Back' /\ Chain'
  BY <1>4 DEF Back, Chain
<1>7. Picking'
  BY <1>3 DEF Picking, At
<1>8. ASSUME NEW d \in Docs, sync'.carried[d] # NoDoc
      PROVE  /\ \E i \in DOMAIN saved[d] : saved[d][i] = sync'.carried[d]
             /\ \A e \in Own : DocOf[e] = d /\ e \in sync'.carried[d] => In(e, wt)
  <2>1. PICK i \in DOMAIN saved[d] : CopyIsCarried(saved[d][i], wt[d])
    BY <1>3, <1>8
  <2>2. wt[d] # NoDoc /\ saved[d][i] = wt[d] /\ sync'.carried[d] = wt[d]
    BY <1>3, <2>1 DEF CopyIsCarried
  <2>3. QED
    BY <2>2 DEF In, Text
<1>9. Carried'
  BY <1>1, <1>3, <1>4, <1>8 DEF Carried, At
<1>10. QED
  BY <1>5, <1>6, <1>7, <1>9 DEF Local

\* A deletion drops the words of the document.
LEMMA DeleteLocal ==
    ASSUME TypeOK, RebaseFits, Local, NEW d \in Docs, Delete(d)
    PROVE  Local'
<1>1. /\ ~InRebase /\ UNCHANGED <<reb, saved, sync, made>> /\ wt[d] # NoDoc
      /\ wt' = [wt EXCEPT ![d] = NoDoc] /\ retired' = retired \cup wt[d]
  BY DEF Delete, Write
<1>2. \A c \in Docs : c # d => wt'[c] = wt[c]
  BY <1>1, Shapes DEF Trees
<1>3. Own' \subseteq Own
  BY <1>1 DEF Own
<1>4. ASSUME NEW e \in Own' PROVE In(e, wt') \/ ~In(e, wt)
  <2>1. DocOf[e] \in Docs /\ e \notin wt[d]
    BY <1>1, <1>3, OwnDocs DEF Own
  <2>2. CASE DocOf[e] = d
    BY <1>1, <2>1, <2>2 DEF In, Text
  <2>3. CASE DocOf[e] # d
    BY <1>2, <2>1, <2>3 DEF In
  <2>4. QED
    BY <2>2, <2>3
<1>5. Carried'
  <2>1. \A e \in Own' : In(e, wt') \/ (e \in Own /\ ~In(e, wt))
    BY <1>3, <1>4
  <2>2. QED
    BY <1>1, <2>1, CarriedStays DEF Local
<1>6. ASSUME NEW e \in Own' PROVE In(e, wt') \/ Copied(e)'
  <2>1. In(e, wt) \/ Copied(e)
    BY <1>1, <1>3 DEF Local, Rest
  <2>2. Copied(e)' <=> Copied(e)
    BY <1>1 DEF Copied
  <2>3. QED
    BY <1>4, <2>1, <2>2
<1>7. QED
  BY <1>1, <1>5, <1>6, PeopleLocal

\* Words people write: an edit, a repair, a copy worked in by hand.
LEMMA WriteLocal ==
    ASSUME TypeOK, RebaseFits, Local, ~WritesAtStops,
           \/ \E e \in Edits : Edit(e) \/ Mend(e)
           \/ \E d \in Docs : MergeByHand(d)
    PROVE  Local'
<1>1. ASSUME NEW e \in Edits, Edit(e) \/ Mend(e) PROVE Local'
  <2>1. /\ ~InRebase /\ UNCHANGED <<reb, saved, sync, retired>>
        /\ wt' = [wt EXCEPT ![DocOf[e]] = wt[DocOf[e]] \cup {e}] /\ made' = made \cup {e}
    BY <1>1 DEF Edit, Mend, MayWrite, Write
  <2>2. wt[DocOf[e]] # NoDoc
    <3>1. CASE Mend(e)
      <4>1. PICK c \in Clash : c \subseteq Text(wt[DocOf[e]])
        BY <3>1 DEF Mend, Broken
      <4>2. c # {}
        BY BoardAssumption
      <4>3. QED
        BY <4>1, <4>2 DEF Text
    <3>2. CASE Edit(e)
      BY <3>2 DEF Edit
    <3>3. QED
      BY <1>1, <3>1, <3>2
  <2>3. DocOf[e] \in Docs
    BY BoardAssumption
  <2>4. PICK d \in Docs, more \in SUBSET Edits : d = DocOf[e] /\ more = {e}
    BY <2>3
  <2>5. \A x \in Own' : x \in Own \/ (DocOf[x] = d /\ x \in more)
    BY <2>1, <2>4 DEF Own
  <2>6. wt[d] # NoDoc /\ wt' = [wt EXCEPT ![d] = wt[d] \cup more]
    BY <2>1, <2>2, <2>4
  <2>7. QED
    BY <2>1, <2>5, <2>6, AddLocal
<1>2. ASSUME NEW d \in Docs, MergeByHand(d) PROVE Local'
  <2>1. /\ ~InRebase /\ UNCHANGED <<reb, saved, sync, made, retired>> /\ saved[d] # <<>>
        /\ wt[d] # NoDoc /\ wt' = [wt EXCEPT ![d] = wt[d] \cup Head(saved[d])]
    BY <1>2 DEF MergeByHand, Settling, Write
  <2>2. saved[d] \in Seq(SUBSET Edits)
    BY Shapes
  <2>3. Head(saved[d]) \in SUBSET Edits
    BY <2>1, <2>2, TailOf
  <2>4. PICK more \in SUBSET Edits : more = Head(saved[d])
    BY <2>3
  <2>5. Own' = Own
    BY <2>1 DEF Own
  <2>6. wt' = [wt EXCEPT ![d] = wt[d] \cup more]
    BY <2>1, <2>4
  <2>7. QED
    BY <2>1, <2>5, <2>6, AddLocal
<1>3. QED
  BY <1>1, <1>2

\* Every step keeps each of those words in its place.
LEMMA LocalStep ==
    ASSUME ~WritesAtStops
    PROVE  TypeOK /\ RebaseFits /\ OneBoard /\ Ahead /\ Local /\ JobWords /\ [Next]_vars => Local'
<1> SUFFICES ASSUME TypeOK, RebaseFits, OneBoard, Ahead, Local, JobWords, [Next]_vars PROVE Local'
  OBVIOUS
<1>types. /\ sync \in [pc : PCs, tries : 1..PushAttempts, doc : Docs \cup {NoDoc},
                       stopped : BOOLEAN, carried : Trees, head : Seq(Trees)]
          /\ Idle.pc = "idle" /\ Idle.carried = NothingCarried
  BY Shapes DEF Idle
<1>pcs. RebasePCs = {"pick", "stop", "export", "keep", "continue"}
  BY DEF RebasePCs
<1>outside. ASSUME sync.pc \notin RebasePCs \cup {"idle"} PROVE ~InRebase
  BY <1>outside, NoRebaseAt
<1>none. ASSUME sync.pc # "remove" PROVE sync.carried = NothingCarried
  BY <1>none DEF Local, Carried, At
<1>goto. ASSUME NEW p, Goto(p) PROVE sync'.pc = p /\ sync'.carried = sync.carried
  BY <1>goto, <1>types DEF Goto
<1>end. ASSUME End PROVE sync'.pc = "idle" /\ sync'.carried = NothingCarried
  BY <1>end, <1>types DEF End
<1>rest. ASSUME ~InRebase, UNCHANGED <<wt, saved, made, retired>>
         PROVE  \A e \in Own' : In(e, wt') \/ Copied(e)'
  BY <1>rest DEF Local, Rest, Own, Copied
\* The clone and the copies stay as they are.
<1>quiet. ASSUME UNCHANGED <<clone, saved>>, made' \subseteq made \cup Theirs, retired \subseteq retired',
                 sync' = sync \/ (sync'.pc \notin RebasePCs \cup {"remove"} /\ sync'.carried = NothingCarried)
          PROVE  Local'
  <2>1. Own' \subseteq Own
    BY <1>quiet, BoardAssumption DEF Own
  <2>2. QED
    BY <1>quiet, <2>1, QuietLocal
\* A rebase is aborted.
<1>abort. ASSUME InRebase, Abort, UNCHANGED <<saved, made, retired>>,
                 sync'.pc \notin RebasePCs \cup {"remove"}, sync'.carried = NothingCarried
          PROVE  Local'
  <2>1. Own' \subseteq Own
    BY <1>abort DEF Own
  <2>2. QED
    BY <1>abort, <2>1, AbortLocal
<1>0. CASE UNCHANGED vars
  BY <1>0, <1>quiet DEF vars, clone
<1>1. CASE HealRebase
  <2>1. /\ UNCHANGED <<saved, made, retired>> /\ sync'.pc \notin RebasePCs \cup {"remove"}
        /\ sync'.carried = NothingCarried
    BY <1>1, <1>goto, <1>none, <1>pcs DEF HealRebase, At, people
  <2>2. CASE InRebase
    BY <1>1, <1>abort, <2>1, <2>2 DEF HealRebase
  <2>3. CASE ~InRebase
    BY <1>1, <1>quiet, <2>1, <2>3 DEF HealRebase
  <2>4. QED
    BY <2>2, <2>3
<1>2. CASE CheckWorktree
  <2>1. UNCHANGED <<clone, saved, made, retired>> /\ sync.pc = "check"
    BY <1>2 DEF CheckWorktree, At, people
  <2>2. sync'.pc \in {"heldFetch", "classify"} /\ sync'.carried = sync.carried
    BY <1>2, <1>goto DEF CheckWorktree
  <2>3. QED
    BY <1>none, <1>pcs, <1>quiet, <2>1, <2>2
<1>3. CASE ClassifyCopies
  BY <1>3, ClassifyLocal
<1>4. CASE RemoveCarriedCopies
  <2>1. /\ sync.pc = "remove" /\ UNCHANGED <<wt, reb, made, retired>>
        /\ sync'.pc = "stage" /\ sync'.carried = NothingCarried
    BY <1>4, <1>types DEF RemoveCarriedCopies, At, clone, people
  <2>2. ~InRebase
    BY <1>outside, <1>pcs, <2>1
  <2>3. \A e \in Own' : In(e, wt') \/ Copied(e)'
    BY <1>4, <2>1, <2>2, RemovedWords DEF Own
  <2>4. ~InRebase' /\ sync'.pc \notin RebasePCs \cup {"remove"}
    BY <1>pcs, <2>1, <2>2 DEF InRebase
  <2>5. QED
    BY <2>1, <2>3, <2>4, OutsideLocal
<1>5. CASE StageAll
  <2>1. sync.pc = "stage" /\ UNCHANGED <<wt, reb, saved, made, retired>> /\ Goto("commit")
    BY <1>5 DEF StageAll, At, people
  <2>2. ~InRebase
    BY <1>outside, <1>pcs, <2>1
  <2>3. ~InRebase' /\ sync'.pc \notin RebasePCs \cup {"remove"} /\ sync'.carried = NothingCarried
    BY <1>goto, <1>none, <1>pcs, <2>1, <2>2 DEF InRebase
  <2>4. QED
    BY <1>rest, <2>1, <2>2, <2>3, OutsideLocal
<1>6. CASE CommitStaged
  <2>1. sync.pc = "commit" /\ UNCHANGED <<wt, reb, saved, made, retired>>
    BY <1>6 DEF CommitStaged, At, people
  <2>2. Goto("fetch") \/ Goto("heldFetch")
    BY <1>6 DEF CommitStaged
  <2>3. ~InRebase
    BY <1>outside, <1>pcs, <2>1
  <2>4. ~InRebase' /\ sync'.pc \notin RebasePCs \cup {"remove"} /\ sync'.carried = NothingCarried
    BY <1>goto, <1>none, <1>pcs, <2>1, <2>2, <2>3 DEF InRebase
  <2>5. QED
    BY <1>rest, <2>1, <2>3, <2>4, OutsideLocal
<1>7. CASE HeldFetch
  <2>1. UNCHANGED <<clone, saved, made, retired>> /\ sync.pc = "heldFetch" /\ Goto("heldMerge")
    BY <1>7 DEF HeldFetch, At, people
  <2>2. QED
    BY <1>goto, <1>none, <1>pcs, <1>quiet, <2>1
<1>8. CASE HeldMerge
  <2>1. sync.pc = "heldMerge" /\ UNCHANGED <<saved, made, retired>> /\ End /\ FastForward
    BY <1>8 DEF HeldMerge, At, people
  <2>2. ~InRebase
    BY <1>outside, <1>pcs, <2>1
  <2>3. ~InRebase' /\ sync'.pc \notin RebasePCs \cup {"remove"} /\ sync'.carried = NothingCarried
    BY <1>end, <1>pcs, <2>1, <2>2 DEF InRebase, FastForward, clone
  <2>4. \A e \in Own : In(e, wt) => In(e, wt')
    BY <2>1, ForwardWords
  <2>5. \A e \in Own' : In(e, wt') \/ Copied(e)'
    BY <2>1, <2>2, <2>4 DEF Local, Rest, Own, Copied
  <2>6. QED
    BY <2>3, <2>5, OutsideLocal
<1>9. CASE FetchOrigin
  <2>1. UNCHANGED <<clone, saved, made, retired>> /\ sync.pc = "fetch" /\ Goto("rebase")
    BY <1>9 DEF FetchOrigin, At, people
  <2>2. QED
    BY <1>goto, <1>none, <1>pcs, <1>quiet, <2>1
<1>10. CASE StartRebase
  <2>1. CASE ~Dirty /\ ~Collides /\ ~IsPrefix(ref, branch)
    BY <1>10, <2>1, StartLocal
  <2>2. CASE ~(~Dirty /\ ~Collides /\ ~IsPrefix(ref, branch))
    <3>1. /\ UNCHANGED <<clone, saved, made, retired>> /\ sync.pc = "rebase" /\ (End \/ Goto("hold"))
      BY <1>10, <2>2 DEF StartRebase, At, people
    <3>2. sync'.pc \in {"idle", "hold"} /\ sync'.carried = NothingCarried
      BY <1>end, <1>goto, <1>none, <3>1
    <3>3. QED
      BY <1>pcs, <1>quiet, <3>1, <3>2
  <2>3. QED
    BY <2>1, <2>2
<1>11. CASE PickCommit
  BY <1>11, PickLocal
<1>12. CASE FinishRebase
  BY <1>12, FinishLocal
<1>13. CASE LookAtStop
  BY <1>13, LookLocal
<1>14. CASE ExportMine
  BY <1>14, ExportLocal
<1>15. CASE KeepUpstream
  BY <1>15, KeepUpstreamLocal
<1>16. CASE ContinueRebase \/ ContinueRefused
  BY <1>16, ContinueLocal
<1>17. CASE HoldMalformed
  <2>1. UNCHANGED <<clone, saved, made, retired>> /\ sync.pc = "hold" /\ (End \/ Goto("head"))
    BY <1>17 DEF HoldMalformed, At, people
  <2>2. sync'.pc \in {"idle", "head"} /\ sync'.carried = NothingCarried
    BY <1>end, <1>goto, <1>none, <2>1
  <2>3. QED
    BY <1>pcs, <1>quiet, <2>1, <2>2
<1>18. CASE ReadHead
  <2>1. UNCHANGED <<clone, saved, made, retired>> /\ sync.pc = "head"
        /\ sync' = [sync EXCEPT !.pc = "push", !.head = branch]
    BY <1>18 DEF ReadHead, At, people
  <2>2. sync'.pc = "push" /\ sync'.carried = sync.carried
    BY <1>types, <2>1
  <2>3. QED
    BY <1>none, <1>pcs, <1>quiet, <2>1, <2>2
<1>19. CASE PushHead
  <2>1. sync.pc = "push" /\ UNCHANGED <<wt, reb, saved, made, retired>>
    BY <1>19 DEF PushHead, At, people
  <2>2. sync'.pc \in {"idle", "fetch"} /\ sync'.carried = NothingCarried
    BY <1>19, <1>types DEF PushHead, End, Idle
  <2>3. ~InRebase
    BY <1>outside, <1>pcs, <2>1
  <2>4. ~InRebase' /\ sync'.pc \notin RebasePCs \cup {"remove"}
    BY <1>pcs, <2>1, <2>2, <2>3 DEF InRebase
  <2>5. QED
    BY <1>rest, <2>1, <2>2, <2>3, <2>4, OutsideLocal
<1>20. CASE Crash \/ NetworkFails \/ PushAnswerLost
  <2>1. UNCHANGED <<clone, saved, made, retired>> /\ End
    BY <1>20 DEF Crash, NetworkFails, PushAnswerLost, people
  <2>2. QED
    BY <1>end, <1>pcs, <1>quiet, <2>1
<1>21. CASE LoopFails
  <2>1. UNCHANGED <<saved, made, retired>> /\ End /\ Abort /\ sync.pc \in RebasePCs
    BY <1>21, <1>pcs DEF LoopFails, people
  <2>2. InRebase
    BY <2>1 DEF RebaseFits
  <2>3. QED
    BY <1>abort, <1>end, <1>pcs, <2>1, <2>2
<1>22. CASE PullFetch
  BY <1>22, <1>quiet DEF PullFetch, people
<1>23. CASE PullMerge
  BY <1>23, PullLocal DEF PullMerge, people
<1>24. ASSUME NEW e \in Edits, Teammate(e) \/ Edit(e) \/ Mend(e) PROVE Local'
  <2>1. CASE Teammate(e)
    BY <1>quiet, <2>1 DEF Teammate
  <2>2. CASE Edit(e) \/ Mend(e)
    BY <2>2, WriteLocal
  <2>3. QED
    BY <1>24, <2>1, <2>2
<1>25. ASSUME NEW d \in Docs, TeammateDeletes(d) \/ Delete(d) \/ ReadDocument(d) \/ MergeByHand(d)
       PROVE  Local'
  <2>1. CASE TeammateDeletes(d)
    BY <1>quiet, <2>1 DEF TeammateDeletes
  <2>2. CASE ReadDocument(d)
    BY <1>quiet, <2>2 DEF ReadDocument
  <2>3. CASE Delete(d)
    BY <2>3, DeleteLocal
  <2>4. CASE MergeByHand(d)
    BY <2>4, WriteLocal
  <2>5. QED
    BY <1>25, <2>1, <2>2, <2>3, <2>4
<1>26. CASE Abandon
  BY <1>26, <1>quiet DEF Abandon
<1>27. CASE Keep
  BY <1>27, KeepLocal
<1>28. CASE Take
  BY <1>28, TakeLocal
<1>29. CASE Revise
  BY <1>29, ReviseLocal
<1>30. CASE Discard
  BY <1>30, DiscardLocal
<1>31. QED
  BY <1>0, <1>1, <1>2, <1>3, <1>4, <1>5, <1>6, <1>7, <1>8, <1>9, <1>10, <1>11, <1>12, <1>13, <1>14, <1>15, <1>16, <1>17, <1>18, <1>19, <1>20, <1>21, <1>22, <1>23, <1>24, <1>25, <1>26, <1>27, <1>28, <1>29, <1>30, Steps

\* The inductive invariant behind EditAccounted.
WordsInv == BoardInv /\ Ahead /\ Local /\ JobWords

\* It holds on a new board ...
LEMMA WordsInit == Init => WordsInv
<1> SUFFICES ASSUME Init PROVE WordsInv
  OBVIOUS
<1>1. BoardInv
  BY BoardInit
<1>2. /\ reb = NoRebase /\ sync = Idle /\ made = {} /\ branch = origin
  BY DEF Init
<1>3. ~InRebase /\ sync.pc = "idle" /\ sync.carried = NothingCarried
  BY <1>2 DEF InRebase, Idle
<1>4. Ahead
  <2>1. IsPrefix(origin, branch) /\ origin \in Seq(Trees) /\ branch \in Seq(Trees)
    BY <1>1, <1>2, Shapes, PrefixSame DEF BoardInv
  <2>2. Beyond(retired, branch, origin)
    BY <2>1, BeyondWithin
  <2>3. QED
    BY <1>3, <2>2 DEF Ahead, At
<1>5. Own = {}
  BY <1>2 DEF Own
<1>6. Rest /\ Back /\ Chain
  BY <1>3, <1>5 DEF Rest, Back, Chain
<1>7. Picking
  BY <1>3 DEF Picking, At
<1>8. Carried
  BY <1>3 DEF Carried, At, NothingCarried
<1>9. JobWords
  BY DEF Init, JobWords
<1>10. QED
  BY <1>1, <1>4, <1>6, <1>7, <1>8, <1>9 DEF WordsInv, Local

\* ... and after every step ...
LEMMA WordsStep ==
    ASSUME ~WritesAtStops
    PROVE  WordsInv /\ [Next]_vars /\ [TakesStep]_vars => WordsInv'
<1> SUFFICES ASSUME WordsInv, [Next]_vars, [TakesStep]_vars PROVE WordsInv'
  OBVIOUS
<1>1. TypeOK /\ RebaseFits /\ OneBoard /\ BoardInv /\ Ahead /\ Local /\ JobWords /\ Content
  BY DEF WordsInv, BoardInv, Content
<1>2. BoardInv'
  BY <1>1, BoardStep
<1>3. Ahead'
  BY <1>1, AheadStep
<1>4. Local'
  BY <1>1, LocalStep
<1>5. JobWords'
  BY <1>1, RefStep, JobWordsStep
<1>6. QED
  BY <1>2, <1>3, <1>4, <1>5 DEF WordsInv

\* ... and says where to find each live edit.
LEMMA WordsFound == WordsInv => EditAccounted
<1> SUFFICES ASSUME WordsInv, NEW e \in Live PROVE e \in Found
  BY DEF EditAccounted
<1>1. TypeOK /\ PublishedInPlace /\ Rest /\ Back
  BY DEF WordsInv, BoardInv, Local
<1>2. e \in made /\ e \notin retired /\ e \in Edits /\ DocOf[e] \in Docs
  BY <1>1, BoardAssumption DEF Live, TypeOK, Edits
<1>3. CASE e \in Theirs
  <2>1. e \in Text(Tip(origin)[DocOf[e]])
    BY <1>1, <1>2, <1>3 DEF PublishedInPlace
  <2>2. QED
    BY <1>2, <2>1 DEF Found, Published
<1>4. CASE e \in Mine
  <2>1. e \in Own
    BY <1>2, <1>4 DEF Own
  <2>2. In(e, wt) \/ In(e, Tip(branch)) \/ Copied(e)
    BY <1>1, <2>1 DEF Rest, Back
  <2>3. CASE In(e, wt) \/ In(e, Tip(branch))
    BY <1>2, <2>3 DEF In, Found
  <2>4. CASE Copied(e)
    <3>1. PICK i \in DOMAIN saved[DocOf[e]] : e \in saved[DocOf[e]][i]
      BY <2>4 DEF Copied
    <3>2. saved[DocOf[e]][i] \in ToSet(saved[DocOf[e]])
      BY DEF ToSet
    <3>3. e \in SavedText
      BY <1>2, <3>1, <3>2 DEF SavedText
    <3>4. QED
      BY <3>3 DEF Found
  <2>5. QED
    BY <2>2, <2>3, <2>4
<1>5. QED
  BY <1>2, <1>3, <1>4 DEF Edits

\* No word is lost, for any board: an edit nobody dropped and no settlement overran
\* is on the shared board, in the clone's branch or worktree, or in a saved copy,
\* whatever commits, conflicts, rebases, kills and pulls do, if nobody writes while a
\* rebase has stopped (the skip of such a stop drops the words of a whole commit) and
\* every `take` satisfies TakesStep.
THEOREM WordsKept ==
    ASSUME ~WritesAtStops
    PROVE  Spec /\ [][TakesStep]_vars => []EditAccounted
<1>1. Init => WordsInv
  BY WordsInit
<1>2. WordsInv /\ [Next]_vars /\ [TakesStep]_vars => WordsInv'
  BY WordsStep
<1>3. WordsInv => EditAccounted
  BY WordsFound
<1>4. QED
  BY <1>1, <1>2, <1>3, PTL DEF Spec
==============================================================================
