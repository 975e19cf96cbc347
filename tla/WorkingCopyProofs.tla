-------------------------- MODULE WorkingCopyProofs --------------------------
(***************************************************************************)
(* Proofs about WorkingCopy: that pull keeps every local edit, that the     *)
(* digest it records is offered only by a copy that is at it (unless a pull *)
(* straddled an acknowledgement), and that it never takes the copy back.    *)
(* What the steps of the journal preserve is proved in IntentJournalProofs. *)
(***************************************************************************)
EXTENDS WorkingCopy, IntentJournalProofs

-----------------------------------------------------------------------------
(* The inductive invariant *)

Digests == Heads \union {NoDigest}
Markers == [run : Nat, at : Nat, done : BOOLEAN, digest : Digests]

Stages == {"begun", "read", "mark", "heads", "fetch", "reconcile", "apply", "write", "delete", "complete"}

\* A pull under way.
Running(k) ==
    k \in [pc : Stages, run : Nat, at : Nat, attempt : Nat, known : Digests,
           expected : {k.expected}, held : BOOLEAN, listed : Served, head : Served,
           born : Nat, consistent : BOOLEAN, digest : Digests, seen : {k.seen}]

CopyTypeOK ==
    /\ mark \in Markers /\ acks \in Nat /\ refetch \in BOOLEAN /\ runs \in Nat
    /\ pulls = [r \in Realms |-> pulls[r]]
    /\ \A r \in Realms : pulls[r] = IdlePull \/ Running(pulls[r])
    /\ born \in Nat /\ committed \in [Ids -> Nat] /\ baseBorn \in Nat /\ released \in BOOLEAN
    /\ ackAt \in Nat /\ stamp \in Nat /\ straddled \in BOOLEAN

\* Every pull has a run of its own, and began and listed before what is to come.
RunsApart ==
    /\ mark.at <= acks
    /\ \A r \in Realms : ~At(r, "idle") =>
          pulls[r].run <= runs /\ pulls[r].at <= acks /\ pulls[r].born <= born
    /\ \A q, r \in Realms :
          q # r /\ ~At(q, "idle") /\ ~At(r, "idle") => pulls[q].run # pulls[r].run

\* No head is younger than the shared one, and no conflict is resolved before
\* one was reviewed.
Grown ==
    /\ baseBorn <= born /\ \A i \in Ids : committed[i] <= born
    /\ reviews = 0 => \A t \in Tasks : task[t].pc # "review"

\* The copy asks for a document again only while its base row names one, and an
\* unheld document that it does not ask for is the one its base row names.
AtBase ==
    /\ refetch => base # Absent
    /\ ~overtaken /\ Unsettled = {} /\ ~refetch => doc = base

\* A digest that is the copy's, unless an unsettled intent holds the document.
Matches(d) == Unsettled = {} => HoldsVersion(d)

MarkTrue == mark.done /\ acks = mark.at /\ mark.digest # NoDigest => Matches(mark.digest)

\* What a pull carries from one stage to the next: the digest it offers is the
\* one of the row it expects, the digest it may record is what it listed.
Sequenced(k) ==
    /\ k.pc = "mark" /\ k.known # NoDigest =>
          /\ k.attempt < PullMarkAttempts
          /\ k.expected.done /\ k.known = k.expected.digest
          /\ straddled \/ k.at <= k.expected.at
    /\ k.pc \in {"fetch", "reconcile"} /\ k.consistent => k.listed = k.digest
    /\ k.pc \in {"apply", "write"} /\ k.consistent => k.head = k.digest
    /\ k.pc = "delete" /\ k.consistent => k.digest = Absent

\* A pull that began at the time of the last acknowledgement or after it, and the
\* row such a pull has left, name that acknowledgement.
ClockTrue ==
    ~straddled =>
        /\ ackAt <= mark.run => acks = mark.at
        /\ \A r \in Realms : pulls[r].pc \notin {"idle", "begun"} =>
              (ackAt <= pulls[r].run => acks = pulls[r].at)

Fenced(k) == mark = Marker(k.run, k.at, FALSE, NoDigest) /\ acks = k.at

\* While its fence holds, a pull has listed the authority no earlier than the
\* base row was taken; a resolution renews the base row under a standing fence.
Younger(k) ==
    /\ k.pc \in {"reconcile", "apply", "write", "delete"} /\ Fenced(k)
    /\ Unsettled = {} \/ reviews = 0
    => baseBorn <= k.born

\* While its fence holds, what a pull offers or records is the copy's.
Faithful(k) ==
    Fenced(k) =>
        /\ k.pc = "heads" => /\ k.known # NoDigest => Matches(k.known)
                             /\ k.held => Unsettled # {}
        /\ k.pc = "reconcile" /\ k.consistent => k.digest = Absent \/ Matches(k.digest)
        /\ k.pc = "complete" /\ k.consistent /\ k.digest # NoDigest => Matches(k.digest)

PullInv(k) ==
    /\ Sequenced(k)
    /\ ~released => Younger(k)
    /\ ~overtaken /\ ~released /\ ~straddled => Faithful(k)

FencedInv ==
    /\ CopyTypeOK /\ RunsApart /\ Grown /\ AtBase /\ ClockTrue
    /\ ~overtaken /\ ~released /\ ~straddled => MarkTrue
    /\ \A r \in Realms : ~At(r, "idle") => PullInv(pulls[r])

CopyInv == BaseInv /\ LinkedInv(TRUE) /\ RetiredInv /\ FencedInv

-----------------------------------------------------------------------------
(* Pulls *)

LEMMA DigestTypes ==
    /\ Served \subseteq Heads /\ Heads \subseteq Digests /\ NoDigest \in Digests
    /\ NoDigest \notin Heads /\ Absent \in Served /\ Absent \in Heads
<1>1. Served \subseteq Heads
  BY ServedIsStored
<1>2. Absent \in Heads
  BY DEF Heads
<1>3. Absent \in Served
  <2>1. Stored(Absent) \in Served /\ Stored(Absent) = Absent
    BY <1>2, StoredTwice DEF Stored
  <2> QED
    BY <2>1
<1> QED
  BY <1>1, <1>2, <1>3, PullAssumption DEF Digests

\* The fields of a pull.
LEMMA RunningIs ==
    ASSUME NEW k, Running(k)
    PROVE  /\ k.pc \in Stages /\ k.pc # "idle" /\ k # IdlePull
           /\ k.run \in Nat /\ k.at \in Nat /\ k.attempt \in Nat /\ k.known \in Digests
           /\ k.held \in BOOLEAN /\ k.listed \in Served /\ k.head \in Served /\ k.born \in Nat
           /\ k.consistent \in BOOLEAN /\ k.digest \in Digests
BY DEF Running, Stages, IdlePull

\* A pull as it begins.
LEMMA PullRuns ==
    \A run, at \in Nat :
        /\ Running(Pull(run, at)) /\ Pull(run, at).pc = "read"
        /\ Pull(run, at).run = run /\ Pull(run, at).at = at /\ Pull(run, at).born = 0
        /\ Pull(run, at).consistent = TRUE
<1> SUFFICES ASSUME NEW run \in Nat, NEW at \in Nat
             PROVE  /\ Running(Pull(run, at)) /\ Pull(run, at).pc = "read"
                    /\ Pull(run, at).run = run /\ Pull(run, at).at = at /\ Pull(run, at).born = 0
                    /\ Pull(run, at).consistent = TRUE
  OBVIOUS
<1>1. Absent \in Served /\ NoDigest \in Digests
  BY DigestTypes
<1> QED
  BY <1>1 DEF Pull, Running, Stages

\* A pull that has nothing left to apply.
LEMMA DoneIs ==
    ASSUME NEW r \in Realms, Running(pulls[r])
    PROVE  LET k == Done(r)
           IN  /\ Running(k) /\ k.pc = "complete" /\ k.run = pulls[r].run /\ k.at = pulls[r].at
               /\ k.born = 0 /\ k.digest = pulls[r].digest /\ k.consistent = pulls[r].consistent
<1> DEFINE p == Pull(pulls[r].run, pulls[r].at)
<1>1. /\ pulls[r].run \in Nat /\ pulls[r].at \in Nat
      /\ pulls[r].consistent \in BOOLEAN /\ pulls[r].digest \in Digests
  BY RunningIs
<1>2. Running(p) /\ p.run = pulls[r].run /\ p.at = pulls[r].at /\ p.born = 0
  BY <1>1, PullRuns
<1>3. Done(r) = [p EXCEPT !.pc = "complete", !.digest = pulls[r].digest,
                          !.consistent = pulls[r].consistent]
  BY DEF Done
<1> HIDE DEF p
<1> QED
  BY <1>1, <1>2, <1>3 DEF Running, Stages

\* The pull of one realm moves on.
LEMMA StepIs ==
    ASSUME CopyTypeOK, NEW r \in Realms, NEW k, Step(r, k)
    PROVE  /\ pulls'[r] = k /\ \A q \in Realms : q # r => pulls'[q] = pulls[q]
           /\ pulls' = [q \in Realms |-> pulls'[q]]
BY DEF CopyTypeOK, Step

\* What a pull carries, seen under another name.
LEMMA PullRenamed ==
    ASSUME NEW r \in Realms, NEW k, k = pulls'[r], PullInv(k)'
    PROVE  PullInv(pulls[r])'
BY DEF PullInv, Sequenced, Younger, Faithful, Fenced, Matches, HoldsVersion

\* It depends on the marker, the acknowledgements, the base row and the journal.
LEMMA PullSteady ==
    ASSUME NEW k, PullInv(k),
           UNCHANGED <<mark, acks, base, refetch, journal, reviews, baseBorn, released, overtaken,
                       straddled>>
    PROVE  PullInv(k)'
<1>1. Unsettled' = Unsettled
  BY DEF Unsettled
<1> QED
  BY <1>1 DEF PullInv, Sequenced, Younger, Faithful, Fenced, Matches, HoldsVersion

\* Without its fence, only the order of its stages.
LEMMA PullUnfenced ==
    ASSUME NEW k, PullInv(k), ~Fenced(k)', UNCHANGED straddled
    PROVE  PullInv(k)'
BY DEF PullInv, Sequenced, Younger, Faithful

\* One realm's pull is apart from the others'.
LEMMA StepApart ==
    ASSUME CopyTypeOK, RunsApart, NEW r \in Realms, NEW k, Step(r, k), born <= born',
           k = IdlePull \/ (/\ Running(k) /\ ~At(r, "idle") /\ k.run = pulls[r].run
                            /\ k.at = pulls[r].at /\ k.born <= born'),
           UNCHANGED <<acks, runs>>, mark'.at <= acks, born' \in Nat
    PROVE  RunsApart'
<1>1. /\ pulls'[r] = k /\ \A q \in Realms : q # r => pulls'[q] = pulls[q]
  BY StepIs
<1>2. k.pc = "idle" \/ (/\ ~At(r, "idle") /\ k.run = pulls[r].run
                        /\ k.at = pulls[r].at /\ k.born <= born')
  BY DEF IdlePull
<1>3. ASSUME NEW q \in Realms, pulls'[q].pc # "idle"
      PROVE  /\ pulls[q].pc # "idle" /\ pulls'[q].run = pulls[q].run
             /\ pulls'[q].run <= runs' /\ pulls'[q].at <= acks' /\ pulls'[q].born <= born'
  <2>1. CASE q = r
    BY <1>1, <1>2, <1>3, <2>1 DEF RunsApart, At
  <2>2. CASE q # r
    <3>1. Running(pulls[q]) /\ pulls'[q] = pulls[q]
      BY <1>1, <1>3, <2>2 DEF CopyTypeOK, IdlePull
    <3>2. pulls[q].born \in Nat /\ born \in Nat
      BY <3>1, RunningIs DEF CopyTypeOK
    <3>3. pulls[q].run <= runs /\ pulls[q].at <= acks /\ pulls[q].born <= born
      BY <1>3, <3>1 DEF RunsApart, At
    <3> QED
      BY <1>3, <3>1, <3>2, <3>3
  <2> QED
    BY <2>1, <2>2
<1> QED
  BY <1>3 DEF RunsApart, At

\* It stays as far behind the last acknowledgement as it was.
LEMMA ClockKept ==
    ASSUME CopyTypeOK, ClockTrue, NEW r \in Realms, NEW k, Step(r, k), ~At(r, "idle"),
           k = IdlePull \/ (~At(r, "begun") /\ k.run = pulls[r].run /\ k.at = pulls[r].at),
           UNCHANGED <<acks, ackAt, straddled>>,
           \/ UNCHANGED mark
           \/ ~At(r, "begun") /\ mark'.run = pulls[r].run /\ mark'.at = pulls[r].at
    PROVE  ClockTrue'
<1>1. pulls'[r] = k /\ \A q \in Realms : q # r => pulls'[q] = pulls[q]
  BY StepIs
<1>2. k.pc = "idle" \/ (~At(r, "begun") /\ k.run = pulls[r].run /\ k.at = pulls[r].at)
  BY DEF IdlePull
<1> QED
  BY <1>1, <1>2 DEF ClockTrue, At

-----------------------------------------------------------------------------
(* The stages of a pull that touch neither the copy nor its marker *)

\* One pull moves on and nothing else does.
LEMMA AdvanceFenced ==
    ASSUME FencedInv, NEW r \in Realms, NEW k, Step(r, k), ~At(r, "idle"),
           k = IdlePull \/ (/\ Running(k) /\ ~At(r, "begun") /\ k.run = pulls[r].run
                            /\ k.at = pulls[r].at /\ k.born <= born /\ PullInv(k)),
           UNCHANGED <<vars, mark, acks, refetch, runs, baseBorn, History>>
    PROVE  FencedInv'
<1>0. /\ UNCHANGED <<doc, base, journal, overtaken, task, reviews>>
      /\ UNCHANGED <<mark, acks, refetch, runs, baseBorn, born, committed, released>>
      /\ UNCHANGED <<ackAt, stamp, straddled>>
  BY DEF vars, localVars, History, Clock
<1>1. /\ pulls'[r] = k /\ \A q \in Realms : q # r => pulls'[q] = pulls[q]
      /\ pulls' = [q \in Realms |-> pulls'[q]]
  BY StepIs DEF FencedInv
<1>2. CopyTypeOK'
  BY <1>0, <1>1 DEF FencedInv, CopyTypeOK
<1>3. RunsApart'
  <2>1. CopyTypeOK /\ RunsApart /\ born \in Nat /\ mark.at <= acks
    BY DEF FencedInv, CopyTypeOK, RunsApart
  <2>2. born <= born' /\ born' \in Nat /\ mark'.at <= acks /\ UNCHANGED <<acks, runs>>
    BY <1>0, <2>1
  <2>3. k = IdlePull \/ (/\ Running(k) /\ ~At(r, "idle") /\ k.run = pulls[r].run
                         /\ k.at = pulls[r].at /\ k.born <= born')
    BY <1>0
  <2> QED
    BY <2>1, <2>2, <2>3, StepApart
<1>4. Unsettled' = Unsettled
  BY <1>0 DEF Unsettled
<1>5. Grown'
  BY <1>0 DEF FencedInv, Grown
<1>6. AtBase'
  BY <1>0, <1>4 DEF FencedInv, AtBase
<1>7. (~overtaken /\ ~released /\ ~straddled => MarkTrue)'
  BY <1>0, <1>4 DEF FencedInv, MarkTrue, Matches, HoldsVersion
<1>9. ClockTrue'
  BY <1>0, ClockKept DEF FencedInv
<1>8. ASSUME NEW q \in Realms, ~At(q, "idle")'
      PROVE  PullInv(pulls[q])'
  <2> SUFFICES ASSUME NEW n, n = pulls'[q]
               PROVE  PullInv(n)'
    BY PullRenamed
  <2>1. n.pc # "idle"
    BY <1>8 DEF At
  <2>2. CASE q = r
    <3>1. n = k /\ PullInv(k)
      BY <1>1, <2>1, <2>2 DEF IdlePull
    <3>2. PullInv(k)'
      BY <1>0, <3>1, PullSteady
    <3> QED
      BY <3>1, <3>2
  <2>3. CASE q # r
    <3>1. n = pulls[q] /\ PullInv(pulls[q])
      BY <1>1, <2>1, <2>3 DEF FencedInv, At
    <3>2. PullInv(n)
      BY <3>1
    <3> QED
      BY <1>0, <3>2, PullSteady
  <2> QED
    BY <2>2, <2>3
<1> QED
  BY <1>2, <1>3, <1>5, <1>6, <1>7, <1>8, <1>9 DEF FencedInv

\* What a pull under way carries.
LEMMA CarriedIs ==
    ASSUME FencedInv, NEW r \in Realms, ~At(r, "idle")
    PROVE  /\ Running(pulls[r]) /\ PullInv(pulls[r]) /\ CopyTypeOK
           /\ pulls[r].run <= runs /\ pulls[r].at <= acks /\ pulls[r].born <= born
           /\ born \in Nat /\ acks \in Nat /\ baseBorn \in Nat /\ baseBorn <= born
           /\ pulls[r].run \in Nat /\ pulls[r].at \in Nat /\ pulls[r].born \in Nat
<1>1. Running(pulls[r])
  BY DEF FencedInv, CopyTypeOK, At, IdlePull
<1> QED
  BY <1>1, RunningIs DEF FencedInv, CopyTypeOK, RunsApart, Grown

\* A pull that ends leaves everything as it was.
LEMMA FailsFenced ==
    ASSUME FencedInv, NEW r \in Realms, PullFails(r)
    PROVE  FencedInv'
<1>1. Step(r, IdlePull) /\ ~At(r, "idle")
  BY DEF PullFails, Stop
<1>2. UNCHANGED <<vars, mark, acks, refetch, runs, baseBorn, History>>
  BY DEF PullFails
<1> QED
  BY <1>1, <1>2, AdvanceFenced

\* The digest is read from the marker.
LEMMA ReadFenced ==
    ASSUME FencedInv, NEW r \in Realms, PullRead(r)
    PROVE  FencedInv'
<1> DEFINE p == pulls[r]
           k == [p EXCEPT !.pc = "mark", !.expected = mark,
                    !.known = IF p.attempt >= PullMarkAttempts THEN NoDigest ELSE LastKnownDigest]
<1>0. /\ ~At(r, "idle") /\ ~At(r, "begun") /\ Step(r, k) /\ p.pc = "read"
      /\ UNCHANGED <<vars, mark, acks, refetch, runs, baseBorn, History>>
  BY DEF PullRead, At
<1>1. /\ Running(p) /\ p.at <= acks /\ p.born <= born /\ mark \in Markers /\ ClockTrue
  BY <1>0, CarriedIs DEF CopyTypeOK, FencedInv
<1>2. LastKnownDigest \in Digests
  BY <1>1, DigestTypes DEF LastKnownDigest, Markers
<1>3. /\ Running(k) /\ k.pc = "mark" /\ k.run = p.run /\ k.at = p.at /\ k.born = p.born
      /\ k.attempt = p.attempt /\ k.expected = mark
      /\ k.known = IF p.attempt >= PullMarkAttempts THEN NoDigest ELSE LastKnownDigest
  <2>1. (IF p.attempt >= PullMarkAttempts THEN NoDigest ELSE LastKnownDigest) \in Digests
    BY <1>2, DigestTypes
  <2> HIDE DEF p
  <2> QED
    BY <1>1, <2>1 DEF Running, Stages
<1>4. p.attempt \in Nat /\ PullMarkAttempts \in Nat
  BY <1>1, RunningIs, PullAssumption
<1> HIDE DEF k, p
<1>5. PullInv(k)
  <2>1. k.known # NoDigest => /\ k.attempt < PullMarkAttempts
                              /\ mark.done /\ k.known = mark.digest
                              /\ straddled \/ acks = mark.at
    BY <1>1, <1>3, <1>4 DEF LastKnownDigest, ClockTrue
  <2> QED
    BY <1>1, <1>3, <2>1 DEF PullInv, Sequenced, Younger, Faithful
<1>6. k.run = pulls[r].run /\ k.at = pulls[r].at /\ k.born <= born
  BY <1>1, <1>3 DEF p
<1> QED
  BY <1>0, <1>3, <1>5, <1>6, AdvanceFenced

\* The heads are asked for.
LEMMA HeadsFenced ==
    ASSUME FencedInv, head \in Served, NEW r \in Realms, PullHeads(r)
    PROVE  FencedInv'
<1> DEFINE p == pulls[r]
           answered == [Pull(p.run, p.at) EXCEPT !.digest = head]
           stage == IF head = Absent \/ p.held \/ HoldsVersion(head) THEN "reconcile" ELSE "fetch"
           k == IF p.known = head THEN [answered EXCEPT !.pc = "complete"]
                ELSE [answered EXCEPT !.listed = head, !.born = born, !.pc = stage]
<1>0. /\ ~At(r, "idle") /\ ~At(r, "begun") /\ Step(r, k) /\ p.pc = "heads"
      /\ UNCHANGED <<vars, mark, acks, refetch, runs, baseBorn, History>>
  BY DEF PullHeads, At
<1>1. /\ Running(p) /\ PullInv(p) /\ p.run \in Nat /\ p.at \in Nat
      /\ born \in Nat /\ baseBorn <= born
  BY <1>0, CarriedIs
<1>2. head \in Digests /\ head # NoDigest
  BY DigestTypes
<1>3. /\ Running(answered) /\ answered.run = p.run /\ answered.at = p.at /\ answered.born = 0
      /\ answered.digest = head /\ answered.consistent
  <2> DEFINE run == p.run
             at == p.at
             b == Pull(run, at)
  <2>1. run \in Nat /\ at \in Nat
    BY <1>1
  <2> HIDE DEF run, at
  <2>2. Running(b) /\ b.run = run /\ b.at = at /\ b.born = 0 /\ b.consistent = TRUE
    BY <2>1, PullRuns
  <2>3. answered = [b EXCEPT !.digest = head]
    BY DEF run, at
  <2> HIDE DEF b, answered
  <2>4. /\ Running(answered) /\ answered.run = run /\ answered.at = at /\ answered.born = 0
        /\ answered.digest = head /\ answered.consistent
    BY <1>2, <2>2, <2>3 DEF Running
  <2> QED
    BY <2>4 DEF run, at
<1> HIDE DEF answered
<1>4. /\ Running(k) /\ k.run = p.run /\ k.at = p.at /\ k.digest = head /\ k.consistent /\ k.born <= born
      /\ IF p.known = head THEN k.pc = "complete"
         ELSE k.listed = head /\ k.born = born /\ k.pc = stage
  <2>1. stage \in Stages /\ head \in Served
    BY DEF Stages
  <2> HIDE DEF p, stage
  <2>2. CASE p.known = head
    BY <1>1, <1>3, <2>2 DEF Running, Stages
  <2>3. CASE p.known # head
    <3>1. k = [answered EXCEPT !.listed = head, !.born = born, !.pc = stage]
      BY <2>3
    <3>2. /\ Running(k) /\ k.run = answered.run /\ k.at = answered.at /\ k.born = born
          /\ k.digest = answered.digest /\ k.consistent = answered.consistent
          /\ k.listed = head /\ k.pc = stage
      <4> HIDE DEF k
      <4> QED
        BY <1>1, <1>3, <2>1, <3>1 DEF Running
    <3> QED
      BY <1>1, <1>3, <2>3, <3>2
  <2> QED
    BY <2>2, <2>3
<1> HIDE DEF k
<1>5. Fenced(k) <=> Fenced(p)
  BY <1>4 DEF Fenced
<1>6. PullInv(k)
  <2>1. CASE p.known = head
    <3>1. ~overtaken /\ ~released /\ ~straddled /\ Fenced(p) => Matches(head)
      BY <1>0, <1>1, <1>2, <2>1 DEF PullInv, Faithful
    <3> QED
      BY <1>4, <1>5, <2>1, <3>1 DEF PullInv, Sequenced, Younger, Faithful
  <2>2. CASE p.known # head
    <3>1. k.pc \in {"reconcile", "fetch"} /\ k.listed = k.digest /\ baseBorn <= k.born
      BY <1>1, <1>4, <2>2
    <3>2. ~overtaken /\ ~released /\ ~straddled /\ Fenced(p) /\ k.pc = "reconcile" => head = Absent \/ Matches(head)
      <4>1. ~overtaken /\ ~released /\ ~straddled /\ Fenced(p) /\ p.held => Matches(head)
        BY <1>0, <1>1 DEF PullInv, Faithful, Matches
      <4>2. HoldsVersion(head) => Matches(head)
        BY DEF Matches
      <4> QED
        BY <1>4, <2>2, <4>1, <4>2
    <3>3. Sequenced(k)
      BY <3>1 DEF Sequenced
    <3>4. Younger(k)
      BY <3>1 DEF Younger
    <3>5. ~overtaken /\ ~released /\ ~straddled => Faithful(k)
      BY <1>4, <1>5, <3>1, <3>2 DEF Faithful
    <3> QED
      BY <3>3, <3>4, <3>5 DEF PullInv
  <2> QED
    BY <2>1, <2>2
<1> QED
  BY <1>0, <1>4, <1>6, AdvanceFenced

\* The listed document is read.
LEMMA FetchFenced ==
    ASSUME FencedInv, head \in Served, NEW r \in Realms, PullFetch(r)
    PROVE  FencedInv'
<1> DEFINE p == pulls[r]
           stage == IF head = Absent THEN "reconcile" ELSE "apply"
           listed == IF head = Absent THEN Absent ELSE p.listed
           matched == p.consistent /\ head = p.listed
           k == [p EXCEPT !.head = head, !.born = born, !.pc = stage, !.listed = listed,
                          !.consistent = matched]
<1>0. /\ ~At(r, "idle") /\ ~At(r, "begun") /\ Step(r, k) /\ p.pc = "fetch"
      /\ UNCHANGED <<vars, mark, acks, refetch, runs, baseBorn, History>>
  <2>1. Step(r, [pulls[r] EXCEPT !.head = head, !.born = born,
           !.pc = IF head = Absent THEN "reconcile" ELSE "apply",
           !.listed = IF head = Absent THEN Absent ELSE @,
           !.consistent = @ /\ head = pulls[r].listed])
    BY DEF PullFetch
  <2> QED
    BY <2>1 DEF PullFetch, At
<1>1. Running(p) /\ PullInv(p) /\ born \in Nat /\ baseBorn <= born
  BY <1>0, CarriedIs
<1>2. stage \in Stages /\ listed \in Served /\ matched \in BOOLEAN
  BY <1>1, RunningIs, DigestTypes DEF Stages
<1>3. /\ Running(k) /\ k.run = p.run /\ k.at = p.at /\ k.born = born /\ k.digest = p.digest
      /\ k.head = head /\ k.pc = stage /\ k.listed = listed /\ k.consistent = matched
  <2> HIDE DEF p, stage, listed, matched
  <2> QED
    BY <1>1, <1>2 DEF Running
<1> HIDE DEF k
<1>4. PullInv(k)
  <2>1. matched => head = p.digest
    BY <1>0, <1>1 DEF PullInv, Sequenced
  <2>2. Sequenced(k)
    BY <1>3, <2>1 DEF Sequenced
  <2>3. Younger(k)
    BY <1>1, <1>3 DEF Younger
  <2>4. Faithful(k)
    BY <1>3, <2>1 DEF Faithful
  <2> QED
    BY <2>2, <2>3, <2>4 DEF PullInv
<1> QED
  BY <1>0, <1>1, <1>3, <1>4, AdvanceFenced

\* A pull that has nothing left to apply carries the digest it may record.
LEMMA DoneCarries ==
    ASSUME FencedInv, NEW r \in Realms, ~At(r, "idle"),
           ~overtaken /\ ~released /\ ~straddled /\ Fenced(pulls[r]) /\ pulls[r].consistent =>
              pulls[r].digest = NoDigest \/ Matches(pulls[r].digest)
    PROVE  /\ Running(Done(r)) /\ Done(r).run = pulls[r].run /\ Done(r).at = pulls[r].at
           /\ Done(r).born <= born /\ PullInv(Done(r))
<1> DEFINE k == Done(r)
<1>1. Running(pulls[r]) /\ born \in Nat
  BY CarriedIs
<1>2. /\ Running(k) /\ k.pc = "complete" /\ k.run = pulls[r].run /\ k.at = pulls[r].at
      /\ k.born = 0 /\ k.digest = pulls[r].digest /\ k.consistent = pulls[r].consistent
  BY <1>1, DoneIs
<1> HIDE DEF k
<1>3. Fenced(k) <=> Fenced(pulls[r])
  BY <1>2 DEF Fenced
<1>4. PullInv(k)
  BY <1>2, <1>3 DEF PullInv, Sequenced, Younger, Faithful
<1>5. k.born <= born
  BY <1>1, <1>2
<1> QED
  BY <1>2, <1>4, <1>5 DEF k

\* One that could not apply what it found records no digest.
LEMMA InconsistentCarries ==
    ASSUME FencedInv, NEW r \in Realms, ~At(r, "idle"), NEW c \in BOOLEAN,
           c => pulls[r].consistent /\ Unsettled # {},
           NEW k, k = [Done(r) EXCEPT !.consistent = c]
    PROVE  /\ Running(k) /\ k.run = pulls[r].run /\ k.at = pulls[r].at /\ k.born <= born /\ PullInv(k)
<1> DEFINE d == Done(r)
<1>1. Running(pulls[r]) /\ born \in Nat
  BY CarriedIs
<1>2. /\ Running(d) /\ d.pc = "complete" /\ d.run = pulls[r].run /\ d.at = pulls[r].at /\ d.born = 0
  BY <1>1, DoneIs
<1>3. k = [d EXCEPT !.consistent = c]
  OBVIOUS
<1> HIDE DEF d
<1>4. Running(k) /\ k.pc = "complete" /\ k.run = d.run /\ k.at = d.at /\ k.born = d.born /\ k.consistent = c
  BY <1>2, <1>3 DEF Running
<1>5. PullInv(k)
  BY <1>4 DEF PullInv, Sequenced, Younger, Faithful, Matches
<1>6. k.born <= born
  BY <1>1, <1>2, <1>4
<1> QED
  BY <1>2, <1>4, <1>5, <1>6

\* What a pull is about to write or to delete, pinned.
LEMMA SnapshotCarries ==
    ASSUME FencedInv, NEW r \in Realms, ~At(r, "idle"), NEW pc \in {"write", "delete"},
           pulls[r].pc \in {"reconcile", "apply", "write", "delete"},
           pc = "write" /\ pulls[r].consistent => pulls[r].head = pulls[r].digest,
           pc = "delete" /\ pulls[r].consistent => pulls[r].digest = Absent,
           NEW k, k = [pulls[r] EXCEPT !.pc = pc, !.seen = Pinned]
    PROVE  /\ Running(k) /\ k.run = pulls[r].run /\ k.at = pulls[r].at /\ k.born <= born /\ PullInv(k)
<1> DEFINE p == pulls[r]
<1>1. Running(p) /\ PullInv(p) /\ p.born <= born
  BY CarriedIs
<1>2. k = [p EXCEPT !.pc = pc, !.seen = Pinned] /\ pc \in Stages
  BY DEF Stages
<1>3. /\ Running(k) /\ k.pc = pc /\ k.run = p.run /\ k.at = p.at /\ k.born = p.born
      /\ k.head = p.head /\ k.digest = p.digest /\ k.consistent = p.consistent
  <2> HIDE DEF p
  <2> QED
    BY <1>1, <1>2 DEF Running
<1>4. Sequenced(k)
  BY <1>3 DEF Sequenced
<1>5. ~released => Younger(k)
  BY <1>1, <1>3 DEF PullInv, Younger, Fenced
<1>6. Faithful(k)
  BY <1>3 DEF Faithful
<1> QED
  BY <1>1, <1>3, <1>4, <1>5, <1>6 DEF PullInv

\* The snapshot before a write.
LEMMA ApplyFenced ==
    ASSUME FencedInv, NEW r \in Realms, PullApply(r)
    PROVE  FencedInv'
<1>0. /\ ~At(r, "idle") /\ ~At(r, "begun") /\ pulls[r].pc = "apply"
      /\ UNCHANGED <<vars, mark, acks, refetch, runs, baseBorn, History>>
  BY DEF PullApply, At
<1>1. pulls[r].consistent => pulls[r].head = pulls[r].digest
  BY <1>0, CarriedIs DEF PullInv, Sequenced
<1>2. CASE Step(r, IdlePull)
  BY <1>0, <1>2, AdvanceFenced
<1>3. CASE HoldsVersion(pulls[r].head) /\ Step(r, Done(r))
  <2> DEFINE k == Done(r)
  <2>1. pulls[r].consistent => Matches(pulls[r].digest)
    BY <1>1, <1>3 DEF Matches
  <2>2. Running(k) /\ k.run = pulls[r].run /\ k.at = pulls[r].at /\ k.born <= born /\ PullInv(k)
    BY <1>0, <2>1, DoneCarries
  <2>3. Step(r, k)
    BY <1>3
  <2> HIDE DEF k
  <2> QED
    BY <1>0, <2>2, <2>3, AdvanceFenced
<1>4. CASE Snapshot(r, "write")
  <2> DEFINE k == [pulls[r] EXCEPT !.pc = "write", !.seen = Pinned]
  <2>1. k = [pulls[r] EXCEPT !.pc = "write", !.seen = Pinned] /\ Step(r, k)
    BY <1>4 DEF Snapshot
  <2> HIDE DEF k
  <2>2. Running(k) /\ k.run = pulls[r].run /\ k.at = pulls[r].at /\ k.born <= born /\ PullInv(k)
    BY <1>0, <1>1, <2>1, SnapshotCarries
  <2> QED
    BY <1>0, <2>1, <2>2, AdvanceFenced
<1>5. IF ~FenceHolds(r) THEN Step(r, IdlePull)
      ELSE IF HoldsVersion(pulls[r].head) THEN Step(r, Done(r))
      ELSE Snapshot(r, "write")
  BY DEF PullApply, Stop
<1> QED
  BY <1>2, <1>3, <1>4, <1>5

\* A guard that refused a write leaves the copy alone.
LEMMA RefusedFenced ==
    ASSUME FencedInv, NEW r \in Realms, ~At(r, "idle"), ~At(r, "begun"), Refused(r),
           UNCHANGED <<vars, mark, acks, refetch, runs, baseBorn, History>>
    PROVE  FencedInv'
<1> DEFINE c == Done(r).consistent /\ Unsettled # {}
           k == [Done(r) EXCEPT !.consistent = c]
<1>1. Step(r, IF ~FenceHolds(r) THEN IdlePull ELSE k)
  BY DEF Refused
<1>2. CASE ~FenceHolds(r)
  <2>1. Step(r, IdlePull)
    BY <1>1, <1>2
  <2> QED
    BY <2>1, AdvanceFenced
<1>3. CASE FenceHolds(r)
  <2>1. c \in BOOLEAN /\ (c => pulls[r].consistent /\ Unsettled # {}) /\ k = [Done(r) EXCEPT !.consistent = c]
    BY CarriedIs, DoneIs
  <2>2. Step(r, k)
    BY <1>1, <1>3
  <2> HIDE DEF c, k
  <2>3. Running(k) /\ k.run = pulls[r].run /\ k.at = pulls[r].at /\ k.born <= born /\ PullInv(k)
    BY <2>1, InconsistentCarries
  <2> QED
    BY <2>2, <2>3, AdvanceFenced
<1> QED
  BY <1>2, <1>3

\* The documents the listing does not name.
LEMMA ReconcileFenced ==
    ASSUME FencedInv, BaseInv, LinkedInv(TRUE), NEW r \in Realms, NEW refuse \in BOOLEAN,
           PullReconcile(r, refuse)
    PROVE  FencedInv'
<1> DEFINE p == pulls[r]
           gone == doc # Absent /\ p.listed = Absent
<1>0. /\ ~At(r, "idle") /\ ~At(r, "begun") /\ p.pc = "reconcile" /\ (refuse => gone /\ Unsettled = {})
      /\ UNCHANGED <<vars, mark, acks, refetch, runs, baseBorn, History>>
  BY DEF PullReconcile, At
<1>1. Running(p) /\ PullInv(p) /\ (p.consistent => p.listed = p.digest)
  BY <1>0, CarriedIs DEF PullInv, Sequenced
<1>2. \/ ~gone /\ Step(r, Done(r))
      \/ Step(r, [Done(r) EXCEPT !.consistent = FALSE])
      \/ Step(r, IdlePull)
      \/ gone /\ Snapshot(r, "delete")
  BY DEF PullReconcile, Stop
<1>3. CASE ~gone /\ Step(r, Done(r))
  <2> DEFINE k == Done(r)
  <2>1. ASSUME ~overtaken, ~released, ~straddled, Fenced(p), p.consistent
        PROVE  Matches(p.digest)
    <3>1. p.digest = Absent \/ Matches(p.digest)
      BY <1>0, <1>1, <2>1 DEF PullInv, Faithful
    <3>2. ASSUME p.digest = Absent, Unsettled = {} PROVE HoldsVersion(Absent)
      <4>1. doc = Absent
        BY <1>1, <1>3, <2>1, <3>2
      <4>2. base = Absent
        BY <2>1, <3>2, <4>1 DEF LinkedInv, Linked, Accounted, Stored
      <4>3. ~refetch
        BY <4>2 DEF FencedInv, AtBase
      <4> QED
        BY <4>2, <4>3 DEF HoldsVersion
    <3> QED
      BY <3>1, <3>2 DEF Matches
  <2>2. Running(k) /\ k.run = p.run /\ k.at = p.at /\ k.born <= born /\ PullInv(k)
    BY <1>0, <2>1, DoneCarries
  <2>3. Step(r, k)
    BY <1>3
  <2> HIDE DEF k
  <2> QED
    BY <1>0, <2>2, <2>3, AdvanceFenced
<1>4. CASE Step(r, [Done(r) EXCEPT !.consistent = FALSE])
  <2> DEFINE k == [Done(r) EXCEPT !.consistent = FALSE]
  <2>1. k = [Done(r) EXCEPT !.consistent = FALSE] /\ Step(r, k)
    BY <1>4
  <2> HIDE DEF k
  <2>2. Running(k) /\ k.run = p.run /\ k.at = p.at /\ k.born <= born /\ PullInv(k)
    BY <1>0, <2>1, InconsistentCarries
  <2> QED
    BY <1>0, <2>1, <2>2, AdvanceFenced
<1>5. CASE Step(r, IdlePull)
  BY <1>0, <1>5, AdvanceFenced
<1>6. CASE gone /\ Snapshot(r, "delete")
  <2> DEFINE k == [pulls[r] EXCEPT !.pc = "delete", !.seen = Pinned]
  <2>1. k = [pulls[r] EXCEPT !.pc = "delete", !.seen = Pinned] /\ Step(r, k)
    BY <1>6 DEF Snapshot
  <2> HIDE DEF k
  <2>2. p.consistent => p.digest = Absent
    BY <1>1, <1>6
  <2>3. Running(k) /\ k.run = p.run /\ k.at = p.at /\ k.born <= born /\ PullInv(k)
    BY <1>0, <2>1, <2>2, SnapshotCarries
  <2> QED
    BY <1>0, <2>1, <2>3, AdvanceFenced
<1> QED
  BY <1>2, <1>3, <1>4, <1>5, <1>6

-----------------------------------------------------------------------------
(* The stages of a pull that move its marker *)

\* A pull begins, in a run of its own.
LEMMA BeginFenced ==
    ASSUME FencedInv, NEW r \in Realms, PullBegin(r)
    PROVE  FencedInv'
<1> DEFINE k == [Pull(runs + 1, 0) EXCEPT !.pc = "begun"]
<1>0. /\ At(r, "idle") /\ Step(r, k) /\ runs' = runs + 1
      /\ UNCHANGED <<doc, base, journal, overtaken, task, reviews>>
      /\ UNCHANGED <<mark, acks, refetch, baseBorn, born, committed, released>>
      /\ UNCHANGED <<ackAt, stamp, straddled>>
  BY DEF PullBegin, vars, localVars, History, Clock
<1>1. CopyTypeOK /\ runs \in Nat /\ acks \in Nat /\ born \in Nat /\ mark.at <= acks
  BY DEF FencedInv, CopyTypeOK, RunsApart
<1>2. Running(k) /\ k.pc = "begun" /\ k.run = runs + 1 /\ k.at = 0 /\ k.born = 0
  <2> DEFINE run == runs + 1
             b == Pull(run, 0)
  <2>1. run \in Nat
    BY <1>1
  <2> HIDE DEF run
  <2>2. Running(b) /\ b.run = run /\ b.at = 0 /\ b.born = 0
    BY <2>1, PullRuns
  <2>3. k = [b EXCEPT !.pc = "begun"]
    BY DEF run
  <2> HIDE DEF b, k
  <2>4. Running(k) /\ k.pc = "begun" /\ k.run = run /\ k.at = 0 /\ k.born = 0
    BY <2>2, <2>3 DEF Running, Stages
  <2> QED
    BY <2>4 DEF run
<1> HIDE DEF k
<1>3. /\ pulls'[r] = k /\ \A q \in Realms : q # r => pulls'[q] = pulls[q]
      /\ pulls' = [q \in Realms |-> pulls'[q]]
  BY <1>0, <1>1, StepIs
<1>4. CopyTypeOK'
  BY <1>0, <1>1, <1>2, <1>3 DEF CopyTypeOK
<1>5. RunsApart'
  <2>1. ASSUME NEW q \in Realms, q # r, pulls'[q].pc # "idle"
        PROVE  /\ pulls[q].run \in Nat /\ pulls[q].pc # "idle" /\ pulls'[q] = pulls[q]
               /\ pulls[q].run <= runs /\ pulls[q].at <= acks /\ pulls[q].born <= born
    <3>1. pulls'[q] = pulls[q] /\ ~At(q, "idle")
      BY <1>3, <2>1 DEF At
    <3> QED
      BY <3>1, CarriedIs DEF At
  <2>2. ASSUME NEW q \in Realms, pulls'[q].pc # "idle"
        PROVE  pulls'[q].run <= runs' /\ pulls'[q].at <= acks' /\ pulls'[q].born <= born'
    <3>1. CASE q = r
      BY <1>0, <1>1, <1>2, <1>3, <3>1
    <3>2. CASE q # r
      BY <1>0, <1>1, <2>1, <2>2, <3>2
    <3> QED
      BY <3>1, <3>2
  <2>3. ASSUME NEW q \in Realms, NEW n \in Realms, q # n, pulls'[q].pc # "idle", pulls'[n].pc # "idle"
        PROVE  pulls'[q].run # pulls'[n].run
    <3>1. CASE q = r
      <4>1. pulls[n].run \in Nat /\ pulls[n].run <= runs /\ pulls'[n] = pulls[n] /\ pulls'[q].run = runs + 1
        BY <1>2, <1>3, <2>1, <2>3, <3>1
      <4> QED
        BY <1>1, <4>1
    <3>2. CASE n = r
      <4>1. pulls[q].run \in Nat /\ pulls[q].run <= runs /\ pulls'[q] = pulls[q] /\ pulls'[n].run = runs + 1
        BY <1>2, <1>3, <2>1, <2>3, <3>2
      <4> QED
        BY <1>1, <4>1
    <3>3. CASE q # r /\ n # r
      <4>1. pulls[q].pc # "idle" /\ pulls[n].pc # "idle" /\ pulls'[q] = pulls[q] /\ pulls'[n] = pulls[n]
        BY <2>1, <2>3, <3>3
      <4> QED
        BY <2>3, <4>1 DEF FencedInv, RunsApart, At
    <3> QED
      BY <3>1, <3>2, <3>3
  <2> QED
    BY <1>0, <1>1, <2>2, <2>3 DEF RunsApart, At
<1>6. Unsettled' = Unsettled
  BY <1>0 DEF Unsettled
<1>7. Grown' /\ AtBase' /\ (~overtaken /\ ~released /\ ~straddled => MarkTrue)'
  BY <1>0, <1>6 DEF FencedInv, Grown, AtBase, MarkTrue, Matches, HoldsVersion
<1>8. ASSUME NEW q \in Realms, ~At(q, "idle")'
      PROVE  PullInv(pulls[q])'
  <2> SUFFICES ASSUME NEW n, n = pulls'[q]
               PROVE  PullInv(n)'
    BY PullRenamed
  <2>1. CASE q = r
    <3>1. n.pc = "begun"
      BY <1>2, <1>3, <2>1
    <3> QED
      BY <3>1 DEF PullInv, Sequenced, Younger, Faithful
  <2>2. CASE q # r
    <3>1. n = pulls[q] /\ PullInv(pulls[q])
      BY <1>3, <1>8, <2>2 DEF FencedInv, At
    <3>2. PullInv(n)
      BY <3>1
    <3> QED
      BY <1>0, <3>2, PullSteady
  <2> QED
    BY <2>1, <2>2
<1>9. ClockTrue'
  BY <1>0, <1>2, <1>3 DEF FencedInv, ClockTrue
<1> QED
  BY <1>4, <1>5, <1>7, <1>8, <1>9 DEF FencedInv

\* It reads the acknowledgement row its fence names.
LEMMA FenceFenced ==
    ASSUME FencedInv, NEW r \in Realms, PullFence(r)
    PROVE  FencedInv'
<1> DEFINE k == Pull(pulls[r].run, acks)
<1>0. /\ ~At(r, "idle") /\ Step(r, k)
      /\ UNCHANGED <<doc, base, journal, overtaken, task, reviews>>
      /\ UNCHANGED <<mark, acks, refetch, runs, baseBorn, born, committed, released>>
      /\ UNCHANGED <<ackAt, stamp, straddled>>
  BY DEF PullFence, At, vars, localVars, History, Clock
<1>1. /\ CopyTypeOK /\ RunsApart /\ acks \in Nat /\ born \in Nat
      /\ pulls[r].run \in Nat /\ pulls[r].run <= runs
  BY <1>0, CarriedIs DEF FencedInv
<1>2. Running(k) /\ k.pc = "read" /\ k.run = pulls[r].run /\ k.at = acks /\ k.born = 0
  BY <1>1, PullRuns
<1> HIDE DEF k
<1>3. /\ pulls'[r] = k /\ \A q \in Realms : q # r => pulls'[q] = pulls[q]
      /\ pulls' = [q \in Realms |-> pulls'[q]]
  BY <1>0, <1>1, StepIs
<1>4. CopyTypeOK'
  BY <1>0, <1>1, <1>2, <1>3 DEF CopyTypeOK
<1>5. RunsApart'
  <2>1. ASSUME NEW q \in Realms, pulls'[q].pc # "idle"
        PROVE  /\ pulls[q].pc # "idle" /\ pulls'[q].run = pulls[q].run
               /\ pulls'[q].run <= runs /\ pulls'[q].at <= acks /\ pulls'[q].born <= born
    <3>1. CASE q = r
      BY <1>0, <1>1, <1>2, <1>3, <3>1 DEF At
    <3>2. CASE q # r
      BY <1>1, <1>3, <2>1, <3>2 DEF RunsApart, At
    <3> QED
      BY <3>1, <3>2
  <2> QED
    BY <1>0, <1>1, <2>1 DEF RunsApart, At
<1>6. Unsettled' = Unsettled
  BY <1>0 DEF Unsettled
<1>7. Grown' /\ AtBase' /\ (~overtaken /\ ~released /\ ~straddled => MarkTrue)'
  BY <1>0, <1>6 DEF FencedInv, Grown, AtBase, MarkTrue, Matches, HoldsVersion
<1>8. ClockTrue'
  BY <1>0, <1>2, <1>3 DEF FencedInv, ClockTrue
<1>9. ASSUME NEW q \in Realms, ~At(q, "idle")'
      PROVE  PullInv(pulls[q])'
  <2> SUFFICES ASSUME NEW n, n = pulls'[q]
               PROVE  PullInv(n)'
    BY PullRenamed
  <2>1. CASE q = r
    <3>1. n.pc = "read"
      BY <1>2, <1>3, <2>1
    <3> QED
      BY <3>1 DEF PullInv, Sequenced, Younger, Faithful
  <2>2. CASE q # r
    <3>1. n = pulls[q] /\ PullInv(pulls[q])
      BY <1>3, <1>9, <2>2 DEF FencedInv, At
    <3>2. PullInv(n)
      BY <3>1
    <3> QED
      BY <1>0, <3>2, PullSteady
  <2> QED
    BY <2>1, <2>2
<1> QED
  BY <1>4, <1>5, <1>7, <1>8, <1>9 DEF FencedInv

\* A row that another pull's, or a finished one's, is not this pull's marker.
LEMMA AnotherMarker ==
    ASSUME FencedInv, NEW q \in Realms, NEW r \in Realms, q # r, ~At(q, "idle"), ~At(r, "idle"),
           NEW n, n = pulls[q], NEW digest, NEW done \in BOOLEAN
    PROVE  Marker(n.run, n.at, FALSE, NoDigest) # Marker(pulls[r].run, pulls[r].at, done, digest)
<1>1. pulls[q].run # pulls[r].run
  BY DEF FencedInv, RunsApart
<1> QED
  BY <1>1 DEF Marker

\* A pull writes its marker, in progress or finished: the fences of all others fall.
LEMMA MarkFenced ==
    ASSUME FencedInv, NEW r \in Realms, ~At(r, "idle"), ~At(r, "begun"), NEW k, Step(r, k),
           k = IdlePull \/ (/\ Running(k) /\ k.run = pulls[r].run /\ k.at = pulls[r].at
                            /\ k.born <= born /\ PullInv(k)'),
           NEW done \in BOOLEAN, NEW digest \in Digests,
           mark' = Marker(pulls[r].run, pulls[r].at, done, digest),
           (~overtaken /\ ~released /\ ~straddled => MarkTrue)',
           UNCHANGED <<vars, acks, refetch, runs, baseBorn, History>>
    PROVE  FencedInv'
<1>0. /\ UNCHANGED <<doc, base, journal, overtaken, task, reviews>>
      /\ UNCHANGED <<acks, refetch, runs, baseBorn, born, committed, released>>
      /\ UNCHANGED <<ackAt, stamp, straddled>>
  BY DEF vars, localVars, History, Clock
<1>1. /\ pulls'[r] = k /\ \A q \in Realms : q # r => pulls'[q] = pulls[q]
      /\ pulls' = [q \in Realms |-> pulls'[q]]
  BY StepIs DEF FencedInv
<1>2. /\ pulls[r].run \in Nat /\ pulls[r].at \in Nat /\ pulls[r].at <= acks /\ born \in Nat
      /\ CopyTypeOK /\ RunsApart
  BY CarriedIs DEF FencedInv
<1>3. mark' \in Markers /\ mark'.at = pulls[r].at /\ mark'.run = pulls[r].run
  BY <1>2 DEF Marker, Markers
<1>4. CopyTypeOK'
  BY <1>0, <1>1, <1>2, <1>3 DEF CopyTypeOK
<1>5. RunsApart'
  <2>1. born <= born' /\ born' \in Nat /\ mark'.at <= acks /\ UNCHANGED <<acks, runs>>
    BY <1>0, <1>2, <1>3
  <2>2. k = IdlePull \/ (/\ Running(k) /\ ~At(r, "idle") /\ k.run = pulls[r].run
                         /\ k.at = pulls[r].at /\ k.born <= born')
    BY <1>0
  <2> QED
    BY <1>2, <2>1, <2>2, StepApart
<1>6. Unsettled' = Unsettled
  BY <1>0 DEF Unsettled
<1>7. Grown' /\ AtBase'
  BY <1>0, <1>6 DEF FencedInv, Grown, AtBase
<1>9. ClockTrue'
  BY <1>0, <1>2, <1>3, ClockKept DEF FencedInv
<1>8. ASSUME NEW q \in Realms, ~At(q, "idle")'
      PROVE  PullInv(pulls[q])'
  <2> SUFFICES ASSUME NEW n, n = pulls'[q]
               PROVE  PullInv(n)'
    BY PullRenamed
  <2>1. CASE q = r
    <3>1. n = k /\ k # IdlePull
      BY <1>1, <1>8, <2>1 DEF At, IdlePull
    <3>2. PullInv(k)'
      BY <3>1
    <3> QED
      BY <3>1, <3>2
  <2>2. CASE q # r
    <3>1. n = pulls[q] /\ PullInv(pulls[q]) /\ ~At(q, "idle")
      BY <1>1, <1>8, <2>2 DEF FencedInv, At
    <3>2. PullInv(n)
      BY <3>1
    <3>3. mark' # Marker(n.run, n.at, FALSE, NoDigest)
      BY <2>2, <3>1, AnotherMarker
    <3>4. ~Fenced(n)'
      BY <3>3 DEF Fenced
    <3> QED
      BY <1>0, <3>2, <3>4, PullUnfenced
  <2> QED
    BY <2>1, <2>2
<1> QED
  BY <1>4, <1>5, <1>7, <1>8, <1>9 DEF FencedInv

\* The in-progress row, over the row the digest was read from.
LEMMA MarkedFenced ==
    ASSUME FencedInv, NEW r \in Realms, PullMark(r)
    PROVE  FencedInv'
<1> DEFINE p == pulls[r]
           marks == mark = p.expected \/ p.attempt >= PullMarkAttempts
           n == [Pull(p.run, p.at) EXCEPT !.attempt = p.attempt + 1]
<1> PICK k : k = [Pull(p.run, p.at) EXCEPT !.pc = "heads", !.known = p.known, !.held = Unsettled # {}]
  OBVIOUS
<1>0. /\ ~At(r, "idle") /\ ~At(r, "begun") /\ p.pc = "mark"
      /\ IF marks THEN mark' = Marker(p.run, p.at, FALSE, NoDigest) /\ Step(r, k)
         ELSE Step(r, n) /\ mark' = mark
      /\ UNCHANGED <<vars, acks, refetch, runs, baseBorn, History>>
  BY DEF PullMark, At
<1>1. /\ Running(p) /\ PullInv(p) /\ p.run \in Nat /\ p.at \in Nat /\ p.at <= acks /\ acks \in Nat
      /\ born \in Nat /\ mark \in Markers /\ mark.at <= acks
  BY <1>0, CarriedIs DEF FencedInv, CopyTypeOK, RunsApart
<1>2. /\ p.attempt \in Nat /\ p.known \in Digests /\ NoDigest \in Digests /\ NoDigest \notin Heads
      /\ PullMarkAttempts \in Nat /\ mark.at \in Nat
  BY <1>1, RunningIs, DigestTypes, PullAssumption DEF Markers
<1> DEFINE b == Pull(p.run, p.at)
<1>3. Running(b) /\ b.pc = "read" /\ b.run = p.run /\ b.at = p.at /\ b.born = 0
  <2> HIDE DEF p
  <2> QED
    BY <1>1, PullRuns
<1>4. /\ Running(k) /\ k.pc = "heads" /\ k.run = p.run /\ k.at = p.at /\ k.born = 0
      /\ k.known = p.known /\ k.held = (Unsettled # {})
  <2>1. (Unsettled # {}) \in BOOLEAN
    OBVIOUS
  <2> HIDE DEF p, b
  <2>2. k = [b EXCEPT !.pc = "heads", !.known = p.known, !.held = Unsettled # {}]
    BY DEF b
  <2> QED
    BY <1>2, <1>3, <2>1, <2>2 DEF Running, Stages
<1>5. /\ Running(n) /\ n.pc = "read" /\ n.run = p.run /\ n.at = p.at /\ n.born = 0
  <2> HIDE DEF p, b
  <2>1. n = [b EXCEPT !.attempt = p.attempt + 1]
    BY DEF b
  <2> HIDE DEF n
  <2> QED
    BY <1>2, <1>3, <2>1 DEF Running
<1> HIDE DEF n, b
<1>6. CASE marks
  <2>1. mark' = Marker(p.run, p.at, FALSE, NoDigest) /\ Step(r, k)
    BY <1>0, <1>6
  <2>2. (~overtaken /\ ~released /\ ~straddled => MarkTrue)'
    BY <2>1 DEF MarkTrue, Marker
  <2>3. /\ UNCHANGED <<acks, refetch, base, journal, overtaken, released, straddled, reviews>>
        /\ Unsettled' = Unsettled
    BY <1>0 DEF vars, localVars, History, Clock, Unsettled
  <2>4. ASSUME ~overtaken, ~released, ~straddled, acks = k.at
        PROVE  /\ k.known # NoDigest => Matches(k.known)
               /\ k.held => Unsettled # {}
    <3>1. ASSUME k.known # NoDigest
          PROVE  Matches(k.known)
      <4>1. p.attempt < PullMarkAttempts /\ p.expected.done /\ p.known = p.expected.digest
            /\ p.at <= p.expected.at
        BY <1>0, <1>1, <1>4, <2>4, <3>1 DEF PullInv, Sequenced
      <4>2. mark = p.expected
        BY <1>2, <1>6, <4>1
      <4>3. acks = mark.at
        BY <1>1, <1>2, <1>4, <2>4, <4>1, <4>2
      <4>4. MarkTrue
        BY <2>4 DEF FencedInv
      <4> QED
        BY <1>4, <3>1, <4>1, <4>2, <4>3, <4>4 DEF MarkTrue
    <3> QED
      BY <1>4, <3>1
  <2>5. PullInv(k)'
    <3>1. (~overtaken /\ ~released /\ ~straddled => Faithful(k))'
      BY <1>4, <2>3, <2>4 DEF Faithful, Fenced, Matches, HoldsVersion
    <3>2. Sequenced(k)' /\ Younger(k)'
      BY <1>4 DEF Sequenced, Younger
    <3> QED
      BY <3>1, <3>2 DEF PullInv
  <2>6. k.run = pulls[r].run /\ k.at = pulls[r].at /\ k.born <= born
    BY <1>1, <1>4
  <2>7. mark' = Marker(pulls[r].run, pulls[r].at, FALSE, NoDigest)
    BY <2>1
  <2> QED
    BY <1>0, <1>2, <1>4, <2>1, <2>2, <2>5, <2>6, <2>7, MarkFenced
<1>7. CASE ~marks
  <2>1. mark' = mark /\ Step(r, n)
    BY <1>0, <1>7
  <2>2. PullInv(n)
    BY <1>5 DEF PullInv, Sequenced, Younger, Faithful
  <2>3. n.run = pulls[r].run /\ n.at = pulls[r].at /\ n.born <= born
    BY <1>1, <1>5
  <2> QED
    BY <1>0, <1>5, <2>1, <2>2, <2>3, AdvanceFenced
<1> QED
  BY <1>6, <1>7

\* The finished row.
LEMMA CompleteFenced ==
    ASSUME FencedInv, NEW r \in Realms, PullComplete(r)
    PROVE  FencedInv'
<1> DEFINE p == pulls[r]
           digest == IF p.consistent THEN p.digest ELSE NoDigest
<1>0. /\ ~At(r, "idle") /\ ~At(r, "begun") /\ p.pc = "complete" /\ Step(r, IdlePull)
      /\ UNCHANGED <<vars, acks, refetch, runs, baseBorn, History>>
      /\ mark' = IF mark # Marker(p.run, p.at, FALSE, NoDigest) THEN mark
                 ELSE Marker(p.run, p.at, TRUE, digest)
  BY DEF PullComplete, At, Stop
<1>1. Running(p) /\ PullInv(p) /\ digest \in Digests
  BY <1>0, CarriedIs, RunningIs, DigestTypes
<1>2. CASE mark # Marker(p.run, p.at, FALSE, NoDigest)
  <2>1. mark' = mark
    BY <1>0, <1>2
  <2> QED
    BY <1>0, <2>1, AdvanceFenced
<1>3. CASE mark = Marker(p.run, p.at, FALSE, NoDigest)
  <2>1. mark' = Marker(p.run, p.at, TRUE, digest)
    BY <1>0, <1>3
  <2>2. UNCHANGED <<acks, refetch, base, journal, overtaken, released, straddled>> /\ Unsettled' = Unsettled
    BY <1>0 DEF vars, localVars, History, Clock, Unsettled
  <2>3. ASSUME ~overtaken, ~released, ~straddled, acks = p.at, digest # NoDigest
        PROVE  Matches(digest)
    <3>1. Fenced(p)
      BY <1>3, <2>3 DEF Fenced
    <3>2. Faithful(p)
      BY <1>1, <2>3 DEF PullInv
    <3> QED
      BY <1>0, <2>3, <3>1, <3>2 DEF Faithful
  <2>4. mark'.at = p.at /\ mark'.digest = digest
    BY <2>1 DEF Marker
  <2> HIDE DEF digest
  <2>5. (~overtaken /\ ~released /\ ~straddled => MarkTrue)'
    BY <2>2, <2>3, <2>4 DEF MarkTrue, Matches, HoldsVersion
  <2>6. mark' = Marker(pulls[r].run, pulls[r].at, TRUE, digest)
    BY <2>1
  <2> QED
    BY <1>0, <1>1, <2>5, <2>6, MarkFenced
<1> QED
  BY <1>2, <1>3

-----------------------------------------------------------------------------
(* The writes of a pull *)

\* The base row is rewritten under a standing fence: no other fence stands, and
\* no digest is offered.
LEMMA RewriteFenced ==
    ASSUME FencedInv, NEW r \in Realms, ~At(r, "idle"), ~At(r, "begun"), FenceHolds(r), Step(r, Done(r)),
           UNCHANGED <<journal, overtaken, reviews, mark, acks, runs, History>>,
           baseBorn' = pulls[r].born, refetch' = FALSE,
           Unsettled = {} => doc' = base',
           Unsettled = {} /\ pulls[r].consistent => base' = pulls[r].digest,
           \A t \in Tasks : task'[t].pc = "review" => task[t].pc = "review"
    PROVE  FencedInv'
<1> PICK k : k = Done(r)
  OBVIOUS
<1>0. /\ UNCHANGED <<born, committed, released, mark, acks, runs>> /\ Unsettled' = Unsettled
      /\ UNCHANGED <<ackAt, stamp, straddled>>
      /\ mark = Marker(pulls[r].run, pulls[r].at, FALSE, NoDigest)
  BY DEF History, Clock, FenceHolds, Unsettled
<1>1. /\ Running(pulls[r]) /\ pulls[r].born \in Nat /\ pulls[r].born <= born /\ born \in Nat
      /\ CopyTypeOK /\ RunsApart
  BY CarriedIs DEF FencedInv
<1>2. /\ Running(k) /\ k.pc = "complete" /\ k.run = pulls[r].run /\ k.at = pulls[r].at /\ k.born = 0
      /\ k.digest = pulls[r].digest /\ k.consistent = pulls[r].consistent
  BY <1>1, DoneIs
<1>3. Step(r, k)
  OBVIOUS
<1>4. /\ pulls'[r] = k /\ \A q \in Realms : q # r => pulls'[q] = pulls[q]
      /\ pulls' = [q \in Realms |-> pulls'[q]]
  BY <1>1, <1>3, StepIs
<1>5. CopyTypeOK'
  BY <1>0, <1>1, <1>2, <1>4 DEF CopyTypeOK
<1>6. RunsApart'
  <2>1. born <= born' /\ born' \in Nat /\ k.born <= born'
    BY <1>0, <1>1, <1>2
  <2>2. mark'.at <= acks
    BY <1>0, <1>1 DEF RunsApart
  <2> QED
    BY <1>0, <1>1, <1>2, <1>3, <2>1, <2>2, StepApart
<1>7. Grown'
  BY <1>0, <1>1 DEF FencedInv, Grown
<1>8. AtBase'
  BY <1>0 DEF AtBase
<1>9. (~overtaken /\ ~released /\ ~straddled => MarkTrue)'
  BY <1>0 DEF MarkTrue, Marker
<1>11. ClockTrue'
  BY <1>0, <1>1, <1>2, <1>3, ClockKept DEF FencedInv
<1>10. ASSUME NEW q \in Realms, ~At(q, "idle")'
       PROVE  PullInv(pulls[q])'
  <2> SUFFICES ASSUME NEW n, n = pulls'[q]
               PROVE  PullInv(n)'
    BY PullRenamed
  <2>1. CASE q = r
    <3>1. n = k
      BY <1>4, <2>1
    <3>2. Matches(k.digest)' \/ ~k.consistent
      BY <1>0, <1>2 DEF Matches, HoldsVersion
    <3>3. PullInv(k)'
      BY <1>2, <3>2 DEF PullInv, Sequenced, Younger, Faithful
    <3> QED
      BY <3>1, <3>3
  <2>2. CASE q # r
    <3>1. n = pulls[q] /\ PullInv(pulls[q]) /\ ~At(q, "idle")
      BY <1>4, <1>10, <2>2 DEF FencedInv, At
    <3>2. PullInv(n)
      BY <3>1
    <3>3. mark' # Marker(n.run, n.at, FALSE, NoDigest)
      BY <1>0, <2>2, <3>1, AnotherMarker
    <3>4. ~Fenced(n)'
      BY <3>3 DEF Fenced
    <3> QED
      BY <1>0, <3>2, <3>4, PullUnfenced
  <2> QED
    BY <2>1, <2>2
<1> QED
  BY <1>5, <1>6, <1>7, <1>8, <1>9, <1>10, <1>11 DEF FencedInv

-----------------------------------------------------------------------------
(* What the writes of a pull do to the working copy *)

LEMMA RewriteBase ==
    ASSUME BaseInv, doc' \in Heads, base' \in Served, TasksKept,
           UNCHANGED <<journal, paused, minted, overtaken, push, sharedVars, envVars, reviews>>
    PROVE  BaseInv'
<1>0. /\ TypeOK /\ Numbered /\ Carried /\ Reading(journal) /\ minted \in Nat
      /\ UNCHANGED <<head, recorded, wire, access, flips, foreign, faults>>
  BY DEF BaseInv, TypeOK, sharedVars, envVars
<1>1. base' \in Heads
  BY DigestTypes
<1>2. Reading(journal')
  BY <1>0 DEF Reading
<1>3. /\ task' = [t \in Tasks |-> task'[t]] /\ \A t \in Tasks : TaskOK(task'[t])
      /\ \A t \in Tasks : task'[t].pc = "write" =>
            /\ \A i \in DOMAIN task'[t].supersede : i <= minted'
            /\ task'[t].plan # NoPlan => task'[t].plan.after <= minted'
      /\ Carried'
  BY <1>0, <1>2, UnchangedSteady, TasksKeptCarry
<1>4. TypeOK'
  BY <1>0, <1>1, <1>2, <1>3 DEF TypeOK, Pushes
<1>5. Numbered'
  BY <1>0, <1>3 DEF Numbered
<1>6. Claimed'
  BY <1>0 DEF BaseInv, Claimed, Has, Intent, Current
<1>7. Recorded'
  BY <1>0 DEF BaseInv, Recorded, Honest, Has
<1> QED
  BY <1>3, <1>4, <1>5, <1>6, <1>7 DEF BaseInv

LEMMA RewriteRetired ==
    ASSUME BaseInv, RetiredInv, UNCHANGED <<journal, minted, push, sharedVars, envVars>>
    PROVE  RetiredInv'
<1>1. UNCHANGED <<recorded, wire, access, flips>>
  BY DEF sharedVars, envVars
<1>2. ASSUME Retired PROVE Retired'
  BY <1>1, <1>2, RetiredUnchanged
<1> QED
  BY <1>1, <1>2 DEF RetiredInv

\* The operations a refresh overtakes.
LEMMA RefreshTasks ==
    ASSUME TypeOK, NEW content, NEW from, Refresh(content, from)
    PROVE  /\ TasksKept
           /\ \A t \in Tasks : task'[t].pc = task[t].pc
           /\ \A t \in Tasks : task'[t].pc # "idle" /\ ~task'[t].moved =>
                 task'[t] = task[t] /\ content = doc
<1>1. task' = [t \in Tasks |-> IF task[t].pc # "idle" /\ content # doc
                               THEN [task[t] EXCEPT !.moved = TRUE] ELSE task[t]]
  BY DEF Refresh
<1>2. ASSUME NEW t \in Tasks, task[t].pc # "idle", content # doc
      PROVE  /\ task'[t] = [task[t] EXCEPT !.moved = TRUE]
             /\ task'[t].pc = task[t].pc /\ task'[t].moved
  <2>1. TaskOK(task[t]) /\ task'[t] = [task[t] EXCEPT !.moved = TRUE]
    BY <1>1, <1>2 DEF TypeOK
  <2> QED
    BY <1>2, <2>1, MovedIs
<1>3. ASSUME NEW t \in Tasks, ~ (task[t].pc # "idle" /\ content # doc)
      PROVE  task'[t] = task[t]
  BY <1>1, <1>3
<1>4. TasksKept
  BY <1>1, <1>2, <1>3 DEF TasksKept
<1> QED
  BY <1>2, <1>3, <1>4

\* A refresh, with no unsettled intent, keeps the chain: there is none.
LEMMA RefreshLinked ==
    ASSUME BaseInv, Linked(TRUE), Unsettled = {}, NEW content \in Served, NEW from, Refresh(content, from)
    PROVE  Linked(TRUE)'
<1>0. /\ doc' = content /\ base' = content /\ journal' = journal /\ Unsettled' = {}
      /\ TypeOK
  BY DEF Refresh, Unsettled, BaseInv
<1>1. Stored(content) = content
  BY ServedIsStored
<1>2. Chained' /\ FirstPremise(TRUE)'
  BY <1>0 DEF Chained, FirstPremise
<1>3. Accounted'
  BY <1>0, <1>1 DEF Accounted, Stored
<1>4. ASSUME NEW t \in Tasks, task'[t].pc # "idle", ~task'[t].moved
      PROVE  doc' = task'[t].seen /\ (task'[t].pc = "write" => Fits(t)')
  <2>1. task'[t] = task[t] /\ content = doc
    BY <1>0, <1>4, RefreshTasks
  <2>2. base' = base
    <3>1. Stored(doc) = base
      BY DEF Linked, Accounted
    <3> QED
      BY <1>0, <1>1, <2>1, <3>1
  <2>3. doc = task[t].seen /\ (task[t].pc = "write" => Fits(t))
    BY <1>4, <2>1 DEF Linked, Fitting
  <2>4. Fits(t) => Fits(t)'
    BY <1>0, <2>1, <2>2 DEF Fits, Has, IsLast
  <2> QED
    BY <1>0, <2>1, <2>3, <2>4
<1>5. Fitting'
  BY <1>4 DEF Fitting
<1> QED
  BY <1>2, <1>3, <1>5 DEF Linked

\* Nor does an absence found under unsettled edits: it replaces the base row
\* that the first of them was made over, and they stay.
LEMMA HeldLinked ==
    ASSUME BaseInv, Linked(TRUE), Unsettled # {}, base' = Absent, UNCHANGED <<doc, journal, task>>
    PROVE  Linked(TRUE)'
<1>0. Unsettled' = Unsettled /\ Reading(journal)
  BY DEF Unsettled, BaseInv, TypeOK
<1>1. Chained'
  BY <1>0 DEF Linked, Chained
<1>2. FirstPremise(TRUE)'
  BY DEF FirstPremise
<1>3. Accounted'
  BY <1>0 DEF Linked, Accounted, IsLast
<1>4. ASSUME NEW t \in Tasks, Fits(t) PROVE Fits(t)'
  <2>1. /\ \A i \in DOMAIN task[t].supersede \cap Unsettled : IsLast(i)
        /\ DOMAIN task[t].supersede = {} => task[t].plan # NoPlan
        /\ ~ (DOMAIN task[t].supersede = {} /\ task[t].plan.after = NoId)
        /\ DOMAIN task[t].supersede = {} /\ task[t].plan.after # NoId /\ Has(task[t].plan.after) =>
              /\ journal[task[t].plan.after].attempts > 0
              /\ task[t].plan.base = journal[task[t].plan.after].local
              /\ journal[task[t].plan.after].state # "acknowledged"
              /\ IsLast(task[t].plan.after)
    BY <1>4 DEF Fits
  <2> QED
    BY <1>0, <2>1 DEF Fits, Has, IsLast
<1>5. Fitting'
  BY <1>4 DEF Linked, Fitting
<1> QED
  BY <1>1, <1>2, <1>3, <1>5 DEF Linked

\* A refresh under a standing fence.
LEMMA RefreshCopy ==
    ASSUME CopyInv, NEW r \in Realms, ~At(r, "idle"), ~At(r, "begun"), FenceHolds(r), Unsettled = {},
           Step(r, Done(r)),
           NEW content \in Served, pulls[r].consistent => content = pulls[r].digest,
           Refresh(content, pulls[r].born),
           UNCHANGED <<push, sharedVars, envVars, reviews, mark, acks, runs, History>>
    PROVE  CopyInv'
<1>0. /\ doc' = content /\ base' = content /\ refetch' = FALSE /\ baseBorn' = pulls[r].born
      /\ UNCHANGED <<journal, paused, minted, overtaken>> /\ BaseInv /\ RetiredInv /\ LinkedInv(TRUE)
      /\ FencedInv /\ content \in Heads /\ TypeOK
  BY DigestTypes DEF Refresh, CopyInv, BaseInv
<1>1. TasksKept /\ \A t \in Tasks : task'[t].pc = task[t].pc
  BY <1>0, RefreshTasks
<1>2. BaseInv'
  BY <1>0, <1>1, RewriteBase
<1>3. RetiredInv'
  BY <1>0, RewriteRetired
<1>4. LinkedInv(TRUE)'
  <2>1. ASSUME Linked(TRUE) PROVE Linked(TRUE)'
    BY <1>0, <2>1, RefreshLinked
  <2> QED
    BY <1>0, <2>1 DEF LinkedInv
<1>5. FencedInv'
  BY <1>0, <1>1, RewriteFenced
<1> QED
  BY <1>2, <1>3, <1>4, <1>5 DEF CopyInv

\* Steps of a pull that leave the copy alone.
LEMMA UnchangedCopy ==
    ASSUME CopyInv, UNCHANGED vars
    PROVE  BaseInv' /\ RetiredInv' /\ LinkedInv(TRUE)'
<1>1. BaseInv /\ RetiredInv /\ LinkedInv(TRUE) /\ [Next]_vars
  BY DEF CopyInv
<1> QED
  BY <1>1, BaseStep, RetiredStep, LinkedStep

LEMMA WriteCopy ==
    ASSUME CopyInv, NEW r \in Realms, PullWrite(r)
    PROVE  CopyInv'
<1>0. /\ ~At(r, "idle") /\ ~At(r, "begun") /\ pulls[r].pc = "write" /\ FencedInv
      /\ UNCHANGED <<push, sharedVars, envVars, reviews, mark, acks, runs, History>>
  BY DEF PullWrite, At, CopyInv
<1>1. /\ Running(pulls[r]) /\ pulls[r].head \in Served
      /\ pulls[r].consistent => pulls[r].head = pulls[r].digest
  BY <1>0, CarriedIs, RunningIs DEF PullInv, Sequenced
<1>2. ASSUME UNCHANGED <<localVars, task, refetch, baseBorn>>
      PROVE  UNCHANGED <<vars, mark, acks, refetch, runs, baseBorn, History>>
  BY <1>0, <1>2 DEF vars
<1>3. CASE ~GuardHolds(r)
  <2>1. Refused(r) /\ UNCHANGED <<localVars, task, refetch, baseBorn>>
    BY <1>3 DEF PullWrite
  <2>2. FencedInv'
    BY <1>0, <1>2, <2>1, RefusedFenced
  <2> QED
    BY <1>2, <2>1, <2>2, UnchangedCopy DEF CopyInv
<1>4. CASE GuardHolds(r) /\ Unsettled # {}
  <2>1. Step(r, Done(r)) /\ UNCHANGED <<localVars, task, refetch, baseBorn>>
    BY <1>4 DEF PullWrite
  <2> DEFINE k == Done(r)
  <2>2. Running(k) /\ k.run = pulls[r].run /\ k.at = pulls[r].at /\ k.born <= born /\ PullInv(k)
    BY <1>0, <1>4, DoneCarries DEF Matches
  <2>3. Step(r, k)
    BY <2>1
  <2> HIDE DEF k
  <2>4. FencedInv'
    BY <1>0, <1>2, <2>1, <2>2, <2>3, AdvanceFenced
  <2> QED
    BY <1>2, <2>1, <2>4, UnchangedCopy DEF CopyInv
<1>5. CASE GuardHolds(r) /\ Unsettled = {}
  <2>1. Step(r, Done(r)) /\ Refresh(pulls[r].head, pulls[r].born) /\ FenceHolds(r)
    BY <1>5 DEF PullWrite, GuardHolds
  <2> DEFINE content == pulls[r].head
  <2>2. /\ content \in Served /\ Refresh(content, pulls[r].born)
        /\ pulls[r].consistent => content = pulls[r].digest
    BY <1>1, <2>1
  <2> HIDE DEF content
  <2> QED
    BY <1>0, <1>5, <2>1, <2>2, RefreshCopy
<1> QED
  BY <1>3, <1>4, <1>5

LEMMA DeleteCopy ==
    ASSUME CopyInv, NEW r \in Realms, PullDelete(r)
    PROVE  CopyInv'
<1>0. /\ ~At(r, "idle") /\ ~At(r, "begun") /\ pulls[r].pc = "delete" /\ FencedInv /\ BaseInv /\ TypeOK
      /\ RetiredInv /\ LinkedInv(TRUE)
      /\ UNCHANGED <<push, sharedVars, envVars, reviews, mark, acks, runs, History>>
  BY DEF PullDelete, At, CopyInv, BaseInv
<1>1. pulls[r].consistent => pulls[r].digest = Absent
  BY <1>0, CarriedIs DEF PullInv, Sequenced
<1>2. CASE ~GuardHolds(r)
  <2>1. Refused(r) /\ UNCHANGED <<localVars, task, refetch, baseBorn>>
    BY <1>2 DEF PullDelete
  <2>2. UNCHANGED <<vars, mark, acks, refetch, runs, baseBorn, History>>
    BY <1>0, <2>1 DEF vars
  <2>3. FencedInv'
    BY <1>0, <2>1, <2>2, RefusedFenced
  <2> QED
    BY <2>2, <2>3, UnchangedCopy DEF CopyInv
<1>3. CASE GuardHolds(r) /\ Unsettled # {}
  <2>1. /\ Step(r, Done(r)) /\ base' = Absent /\ refetch' = FALSE /\ baseBorn' = pulls[r].born
        /\ UNCHANGED <<doc, journal, paused, minted, overtaken, task>> /\ FenceHolds(r)
    BY <1>3 DEF PullDelete, GuardHolds
  <2>2. TasksKept /\ doc' \in Heads /\ base' \in Served
    BY <1>0, <2>1, TasksUnchanged, DigestTypes DEF TypeOK
  <2>3. BaseInv'
    BY <1>0, <2>1, <2>2, RewriteBase
  <2>4. RetiredInv'
    BY <1>0, <2>1, RewriteRetired
  <2>5. LinkedInv(TRUE)'
    BY <1>0, <1>3, <2>1, HeldLinked DEF LinkedInv
  <2>6. FencedInv'
    BY <1>0, <1>3, <2>1, RewriteFenced
  <2> QED
    BY <2>3, <2>4, <2>5, <2>6 DEF CopyInv
<1>4. CASE GuardHolds(r) /\ Unsettled = {}
  <2>1. Step(r, Done(r)) /\ Refresh(Absent, pulls[r].born) /\ FenceHolds(r)
    BY <1>4 DEF PullDelete, GuardHolds
  <2>2. Absent \in Served /\ (pulls[r].consistent => Absent = pulls[r].digest)
    BY <1>1, DigestTypes
  <2> QED
    BY <1>0, <1>4, <2>1, <2>2, RefreshCopy
<1> QED
  BY <1>2, <1>3, <1>4

\* Every stage of a pull.
LEMMA PullCopy ==
    ASSUME CopyInv, NEW r \in Realms, PullStep(r)
    PROVE  CopyInv'
<1>0. FencedInv /\ BaseInv /\ LinkedInv(TRUE) /\ head \in Served
  BY DEF CopyInv, BaseInv, Recorded
<1>1. CASE PullWrite(r)
  BY <1>1, WriteCopy
<1>2. CASE PullDelete(r)
  BY <1>2, DeleteCopy
<1>3. ASSUME FencedInv', UNCHANGED vars
      PROVE  CopyInv'
  BY <1>3, UnchangedCopy DEF CopyInv
<1>4. CASE PullBegin(r)
  BY <1>0, <1>3, <1>4, BeginFenced DEF PullBegin
<1>13. CASE PullFence(r)
  BY <1>0, <1>3, <1>13, FenceFenced DEF PullFence
<1>5. CASE PullRead(r)
  BY <1>0, <1>3, <1>5, ReadFenced DEF PullRead
<1>6. CASE PullMark(r)
  BY <1>0, <1>3, <1>6, MarkedFenced DEF PullMark
<1>7. CASE PullHeads(r)
  BY <1>0, <1>3, <1>7, HeadsFenced DEF PullHeads
<1>8. CASE PullFetch(r)
  BY <1>0, <1>3, <1>8, FetchFenced DEF PullFetch
<1>9. CASE PullApply(r)
  BY <1>0, <1>3, <1>9, ApplyFenced DEF PullApply
<1>10. CASE PullComplete(r)
  BY <1>0, <1>3, <1>10, CompleteFenced DEF PullComplete
<1>11. CASE PullFails(r)
  BY <1>0, <1>3, <1>11, FailsFenced DEF PullFails
<1>12. ASSUME NEW refuse \in BOOLEAN, PullReconcile(r, refuse)
       PROVE  CopyInv'
  BY <1>0, <1>3, <1>12, ReconcileFenced DEF PullReconcile
<1> QED
  BY <1>1, <1>2, <1>4, <1>5, <1>6, <1>7, <1>8, <1>9, <1>10, <1>11, <1>12,
     <1>13 DEF PullStep

-----------------------------------------------------------------------------
(* What the steps of the journal mean for pull *)

\* The step leaves the base row, and an unheld document stays held or absent.
Kept ==
    /\ Acknowledging = {} /\ ~Resolving /\ base' = base
    /\ Unsettled' = {} => doc' = Absent \/ (Unsettled = {} /\ doc' = doc)

\* It resolves a conflict.
Resolves ==
    /\ Acknowledging = {} /\ Resolving /\ Unsettled # {}
    /\ \E t \in Tasks : task[t].pc = "review"
    /\ Unsettled' = {} => doc' = base'

\* It settles an intent with what the authority committed.
Acknowledges ==
    \E i \in Unsettled :
        /\ Acknowledging = {i} /\ ~Resolving /\ Unsettled' = Unsettled \ {i}
        /\ doc' = doc /\ overtaken' = overtaken
        /\ journal'[i].local = journal[i].local /\ journal'[i].version = base'
        /\ base' = Stored(journal[i].local) /\ journal[i].local \in Heads

Moves == Kept \/ Resolves \/ Acknowledges

\* Reviews are counted, and no operation becomes one without being counted.
Counted ==
    /\ overtaken => overtaken'
    /\ reviews' \in Nat /\ reviews <= reviews'
    /\ reviews' = reviews => \A t \in Tasks : task'[t].pc = "review" => task[t].pc = "review"

\* The journal and the documents stay.
LEMMA SameKept ==
    ASSUME UNCHANGED <<doc, base, journal>>
    PROVE  Kept
<1>1. Unsettled' = Unsettled
  BY DEF Unsettled
<1>2. Acknowledging = {}
  <2>1. \A i \in Unsettled : journal[i].state # "acknowledged"
    BY DEF Unsettled
  <2> QED
    BY <2>1 DEF Acknowledging
<1>3. ~Resolving
  BY DEF Resolving
<1> QED
  BY <1>1, <1>2, <1>3 DEF Kept

\* Rows keep whether they are settled.
LEMMA TurnsKept ==
    ASSUME UNCHANGED <<doc, base, task>>, DOMAIN journal' = DOMAIN journal,
           \A i \in DOMAIN journal :
              journal'[i].state = "acknowledged" <=> journal[i].state = "acknowledged"
    PROVE  Kept
<1>1. Unsettled' = Unsettled
  BY DEF Unsettled
<1>2. Acknowledging = {}
  <2>1. \A i \in Unsettled : i \in DOMAIN journal /\ journal[i].state # "acknowledged"
    BY DEF Unsettled
  <2> QED
    BY <2>1 DEF Acknowledging
<1>3. ~Resolving
  BY DEF Resolving
<1> QED
  BY <1>1, <1>2, <1>3 DEF Kept

\* A transaction acknowledges nothing.
LEMMA EnteredAcknowledges ==
    ASSUME BaseInv, NEW gone, NEW plan, Enterable(plan), Entered(gone, plan)
    PROVE  /\ Acknowledging = {}
           /\ Unsettled' = {} => plan = NoPlan /\ Unsettled \subseteq gone
<1>1. /\ Unsettled' = (Unsettled \ gone) \union (IF plan = NoPlan THEN {} ELSE {minted + 1})
      /\ \A i \in Unsettled : i <= minted
      /\ \A i \in DOMAIN journal' : i <= minted => i \in DOMAIN journal /\ journal'[i] = journal[i]
  BY EnteredUnsettled
<1>2. ASSUME NEW i \in Unsettled, i \in DOMAIN journal'
      PROVE  journal'[i].state # "acknowledged"
  <2>1. journal'[i] = journal[i]
    BY <1>1, <1>2
  <2> QED
    BY <2>1 DEF Unsettled
<1>3. Acknowledging = {}
  BY <1>2 DEF Acknowledging, Has
<1>4. Unsettled' = {} => plan = NoPlan /\ Unsettled \subseteq gone
  BY <1>1
<1> QED
  BY <1>3, <1>4

\* Another operation's end leaves what an operation is.
LEMMA EndTaskIs ==
    ASSUME TypeOK, NEW t \in Tasks, EndTask(t)
    PROVE  /\ task'[t] = Idle /\ (overtaken => overtaken')
           /\ \A u \in Tasks : u # t => task'[u].pc = task[u].pc
<1>1. task' = [u \in Tasks |->
          IF u = t THEN Idle
          ELSE IF doc' # doc /\ task[u].pc # "idle" THEN [task[u] EXCEPT !.moved = TRUE]
          ELSE task[u]]
  BY DEF EndTask
<1>2. ASSUME NEW u \in Tasks, u # t PROVE task'[u].pc = task[u].pc
  <2>1. TaskOK(task[u])
    BY DEF TypeOK
  <2>2. CASE doc' # doc /\ task[u].pc # "idle"
    <3>1. task'[u] = [task[u] EXCEPT !.moved = TRUE]
      BY <1>1, <1>2, <2>2
    <3> QED
      BY <2>1, <2>2, <3>1, MovedIs
  <2>3. CASE ~ (doc' # doc /\ task[u].pc # "idle")
    BY <1>1, <1>2, <2>3
  <2> QED
    BY <2>2, <2>3
<1> QED
  BY <1>1, <1>2 DEF EndTask

LEMMA WriteMoves ==
    ASSUME BaseInv, NEW t \in Tasks, Write(t)
    PROVE  Kept /\ Counted
<1> DEFINE gone == DOMAIN task[t].supersede
           plan == task[t].plan
           content == task[t].content
<1>0. /\ TypeOK /\ Numbered /\ task[t].pc = "write" /\ TaskOK(task[t]) /\ Composed(t) /\ reviews \in Nat
      /\ base' = base /\ reviews' = reviews /\ EndTask(t)
  BY DEF BaseInv, TypeOK, Write, Carried
<1>1. content \in Heads /\ plan \in Plans
  BY <1>0, TaskType
<1>2. Enterable(plan)
  BY <1>0, <1>1 DEF Numbered, Enterable
<1>3. Journaled(gone, plan, content)
  BY DEF Write
<1>4. plan = NoPlan => content = Absent
  BY <1>0 DEF Composed
<1>5. /\ task'[t] = Idle /\ (overtaken => overtaken')
      /\ \A u \in Tasks : u # t => task'[u].pc = task[u].pc
  BY <1>0, EndTaskIs
<1> HIDE DEF gone, plan, content
<1>6. Entered(gone, plan) /\ doc' = content
  BY <1>0, <1>1, <1>2, <1>3, JournaledIs
<1>7. Acknowledging = {} /\ (Unsettled' = {} => plan = NoPlan)
  BY <1>2, <1>6, EnteredAcknowledges
<1>8. ~Resolving
  BY <1>0, <1>5 DEF Resolving
<1>9. Kept
  BY <1>0, <1>4, <1>6, <1>7, <1>8 DEF Kept
<1>10. Counted
  BY <1>0, <1>5 DEF Counted, Idle
<1> QED
  BY <1>9, <1>10

LEMMA ResolvedMoves ==
    ASSUME BaseInv, NEW t \in Tasks, NEW plan, Enterable(plan), NEW content \in Heads,
           Resolved(t, plan, content), plan = NoPlan => content = task[t].remote
    PROVE  Resolves /\ Counted
<1>0. /\ TypeOK /\ Numbered /\ task[t].pc = "review" /\ TaskOK(task[t]) /\ Reviewed(t) /\ reviews \in Nat
      /\ Reading(journal) /\ base' = task[t].remote /\ reviews' = reviews /\ EndTask(t)
      /\ Rows(Unsettled) = task[t].rows /\ Journaled(Unsettled, plan, content)
  BY DEF BaseInv, TypeOK, Resolved, Carried
<1> DEFINE gone == Unsettled
<1>1. Unsettled # {}
  <2>1. Unsettled \subseteq DOMAIN journal
    BY <1>0, UnsettledIs
  <2>2. DOMAIN task[t].rows = Unsettled
    BY <1>0, <2>1, RowsType
  <2> QED
    BY <1>0, <2>2 DEF Reviewed
<1>2. Entered(gone, plan) /\ doc' = content
  <2>1. Journaled(gone, plan, content)
    BY <1>0
  <2> HIDE DEF gone
  <2> QED
    BY <1>0, <2>1, JournaledIs
<1>3. Acknowledging = {} /\ (Unsettled' = {} => plan = NoPlan)
  <2> HIDE DEF gone
  <2> QED
    BY <1>2, EnteredAcknowledges
<1>4. /\ task'[t] = Idle /\ (overtaken => overtaken')
      /\ \A u \in Tasks : u # t => task'[u].pc = task[u].pc
  BY <1>0, EndTaskIs
<1>5. journal' # journal
  <2>1. PICK i \in Unsettled : TRUE
    BY <1>1
  <2>2. i \in DOMAIN journal /\ i \in Nat /\ i <= minted /\ minted \in Nat
    BY <1>0, <2>1, UnsettledIs, RowType DEF Numbered, TypeOK
  <2>3. i \notin DOMAIN journal'
    BY <1>2, <2>1, <2>2 DEF Entered
  <2> QED
    BY <2>2, <2>3
<1>6. Resolving
  BY <1>0, <1>4, <1>5 DEF Resolving, Idle
<1>7. Resolves
  BY <1>0, <1>1, <1>2, <1>3, <1>6 DEF Resolves
<1>8. Counted
  BY <1>0, <1>4 DEF Counted, Idle
<1> QED
  BY <1>7, <1>8

LEMMA TakeRemoteMoves ==
    ASSUME BaseInv, NEW t \in Tasks, TakeRemote(t)
    PROVE  Resolves /\ Counted
<1> DEFINE c == task[t].remote
<1>1. Resolved(t, NoPlan, c)
  BY DEF TakeRemote
<1>2. c \in Heads
  BY <1>1, TaskType DEF BaseInv, TypeOK, Resolved
<1>3. Enterable(NoPlan)
  BY NoPlanType DEF Enterable
<1>4. c = task[t].remote
  OBVIOUS
<1> HIDE DEF c
<1> QED
  BY <1>1, <1>2, <1>3, <1>4, ResolvedMoves

LEMMA KeepLocalMoves ==
    ASSUME BaseInv, NEW t \in Tasks, NEW c \in Heads, KeepLocal(t, c)
    PROVE  Resolves /\ Counted
<1> DEFINE plan == IF c = Absent /\ task[t].remote = Absent THEN NoPlan
                   ELSE Plan(task[t].remote, c, NoId)
<1>1. Resolved(t, plan, c) /\ task[t].remote \in Heads
  BY TaskType DEF KeepLocal, BaseInv, TypeOK
<1>2. Plan(task[t].remote, c, NoId) \in Plans /\ Plan(task[t].remote, c, NoId).after = NoId
      /\ Plan(task[t].remote, c, NoId) # NoPlan
  <2> DEFINE rem == task[t].remote
  <2>1. rem \in Heads /\ NoId \in Ids \union {NoId}
    BY <1>1
  <2> HIDE DEF rem
  <2>2. Plan(rem, c, NoId) \in Plans /\ Plan(rem, c, NoId).after = NoId /\ Plan(rem, c, NoId) # NoPlan
    BY <2>1, PlanType
  <2> QED
    BY <2>2 DEF rem
<1>3. Enterable(plan)
  BY <1>2, NoPlanType DEF Enterable, NoId, BaseInv, TypeOK
<1>4. plan = NoPlan => c = task[t].remote
  BY <1>2
<1> HIDE DEF plan
<1> QED
  BY <1>1, <1>3, <1>4, ResolvedMoves

\* A local operation that only moves on.
LEMMA TaskMoves ==
    ASSUME BaseInv, NEW t \in Tasks, NEW k, task' = [task EXCEPT ![t] = k],
           UNCHANGED localVars,
           (reviews' = reviews /\ k.pc # "review") \/ reviews' = reviews + 1
    PROVE  Kept /\ Counted
<1>1. reviews \in Nat /\ task = [u \in Tasks |-> task[u]] /\ UNCHANGED <<doc, base, journal, overtaken>>
  BY DEF BaseInv, TypeOK, localVars
<1>2. task'[t] = k /\ \A u \in Tasks : u # t => task'[u] = task[u]
  BY <1>1
<1>3. Kept
  BY <1>1, SameKept
<1>4. Counted
  BY <1>1, <1>2 DEF Counted
<1> QED
  BY <1>3, <1>4

\* Whatever leaves the local operations alone leaves the reviews counted.
LEMMA OthersCounted ==
    ASSUME BaseInv, UNCHANGED <<overtaken, task, reviews>>
    PROVE  Counted
BY DEF Counted, BaseInv, TypeOK

LEMMA SettleMoves ==
    ASSUME BaseInv, NEW a, NEW pauses, Settling(a), Settle(a, pauses)
    PROVE  (Kept \/ Acknowledges) /\ Counted
<1> DEFINE i == Current
<1>0. /\ Reading(journal) /\ UNCHANGED <<doc, overtaken, task, reviews>>
  BY DEF BaseInv, TypeOK, Settle
<1>1. /\ i \in DOMAIN journal /\ journal[i].state = "in_flight"
      /\ DOMAIN journal' = DOMAIN journal
      /\ \A j \in DOMAIN journal : j # i => journal'[j] = journal[j]
      /\ journal'[i].local = journal[i].local
      /\ IF journal'[i].state = "acknowledged"
         THEN journal'[i].version = Stored(journal[i].local) /\ base' = Stored(journal[i].local)
         ELSE base' = base
  BY SettleIs DEF Intent
<1>2. Counted
  BY <1>0, OthersCounted
<1>3. ~Resolving
  BY <1>0 DEF Resolving
<1>4. i \in Unsettled /\ journal[i].local \in Heads
  BY <1>0, <1>1, RowType DEF Unsettled
<1> HIDE DEF i
<1>5. CASE journal'[i].state = "acknowledged"
  <2>1. Acknowledging = {i}
    <3>1. \A j \in Unsettled : j \in DOMAIN journal /\ journal[j].state # "acknowledged"
      BY DEF Unsettled
    <3>2. \A j \in Unsettled : j # i => journal'[j].state # "acknowledged"
      BY <1>1, <3>1
    <3> QED
      BY <1>1, <1>4, <1>5, <3>2 DEF Acknowledging, Has
  <2>2. Unsettled' = Unsettled \ {i}
    BY <1>1, <1>5 DEF Unsettled
  <2> QED
    BY <1>0, <1>1, <1>2, <1>3, <1>4, <1>5, <2>1, <2>2 DEF Acknowledges
<1>6. CASE journal'[i].state # "acknowledged"
  <2>1. \A j \in DOMAIN journal :
           journal'[j].state = "acknowledged" <=> journal[j].state = "acknowledged"
    BY <1>1, <1>6
  <2>2. base' = base
    BY <1>1, <1>6
  <2> QED
    BY <1>0, <1>1, <1>2, <2>1, <2>2, TurnsKept
<1> QED
  BY <1>5, <1>6

LEMMA FoldMoves ==
    ASSUME BaseInv, Fold
    PROVE  Kept /\ Counted
<1> DEFINE plan == SupersedingIntent(journal[Intent.after], doc)
           gone == Unsettled
<1>0. UNCHANGED <<base, overtaken, task, reviews>> /\ Reading(journal) /\ doc \in Heads
  BY DEF Fold, BaseInv, TypeOK
<1>1. /\ Enterable(plan) /\ Entered(gone, plan) /\ doc' = doc /\ Intent.after \in DOMAIN journal
  BY FoldIs
<1>2. plan = NoPlan => doc = Absent
  <2> DEFINE r == journal[Intent.after]
  <2>1. r \in Intents
    BY <1>0, <1>1, RowType
  <2>2. plan = SupersedingIntent(r, doc)
    OBVIOUS
  <2> HIDE DEF r, plan
  <2> QED
    BY <1>0, <2>1, <2>2, SupersedingIs
<1> HIDE DEF plan, gone
<1>3. Acknowledging = {} /\ (Unsettled' = {} => plan = NoPlan)
  BY <1>1, EnteredAcknowledges
<1>4. ~Resolving
  BY <1>0 DEF Resolving
<1>5. Kept
  BY <1>0, <1>1, <1>2, <1>3, <1>4 DEF Kept
<1> QED
  BY <1>0, <1>5, OthersCounted

LEMMA ClaimMoves ==
    ASSUME BaseInv, ClaimIntent
    PROVE  Kept /\ Counted
<1>0. UNCHANGED <<doc, base, overtaken, task, reviews>>
  BY DEF ClaimIntent
<1>1. /\ DOMAIN journal' = DOMAIN journal
      /\ \A i \in DOMAIN journal : i # Current => journal'[i] = journal[i]
      /\ journal'[Current].state = "in_flight" /\ journal[Current].state = "pending"
  BY ClaimIs DEF Intent
<1>2. \A i \in DOMAIN journal :
         journal'[i].state = "acknowledged" <=> journal[i].state = "acknowledged"
  BY <1>1
<1> QED
  BY <1>0, <1>1, <1>2, TurnsKept, OthersCounted

LEMMA RecoveryMoves ==
    ASSUME BaseInv, Resume \/ ReclaimInFlight
    PROVE  Kept /\ Counted
<1>0. UNCHANGED <<doc, base, overtaken, task, reviews>> /\ Reading(journal)
  BY DEF Resume, ReclaimInFlight, BaseInv, TypeOK
<1>1. \A i \in DOMAIN journal : journal[i] \in Intents
  BY <1>0, RowType
<1>2. /\ DOMAIN journal' = DOMAIN journal
      /\ \A i \in DOMAIN journal :
            journal'[i].state = "acknowledged" <=> journal[i].state = "acknowledged"
  <2>1. CASE Resume
    BY <1>1, <2>1 DEF Resume, Intents
  <2>2. CASE ReclaimInFlight
    BY <1>1, <2>2 DEF ReclaimInFlight, Intents
  <2> QED
    BY <2>1, <2>2
<1> QED
  BY <1>0, <1>2, TurnsKept, OthersCounted

LEMMA TaskStepMoves ==
    ASSUME BaseInv, NEW t \in Tasks, TaskStep(t)
    PROVE  (Kept \/ Resolves) /\ Counted
<1>1. CASE Edit(t)
  <2> DEFINE k == [pc |-> "compose", seen |-> doc, moved |-> FALSE]
  <2>1. task' = [task EXCEPT ![t] = k] /\ UNCHANGED localVars /\ reviews' = reviews /\ k.pc # "review"
    BY <1>1 DEF Edit
  <2> HIDE DEF k
  <2> QED
    BY <2>1, TaskMoves
<1>2. CASE DeleteLocal(t)
  <2> DEFINE k == Ready(doc, FALSE, Absent)
  <2>1. task' = [task EXCEPT ![t] = k] /\ UNCHANGED localVars /\ reviews' = reviews /\ k.pc # "review"
    BY <1>2 DEF DeleteLocal, Ready
  <2> HIDE DEF k
  <2> QED
    BY <2>1, TaskMoves
<1>3. CASE Recompose(t)
  <2> DEFINE k == IF task[t].content = Absent THEN Idle
                  ELSE [pc |-> "compose", seen |-> task[t].seen, moved |-> task[t].moved]
  <2>1. task' = [task EXCEPT ![t] = k] /\ UNCHANGED localVars /\ reviews' = reviews /\ k.pc # "review"
    BY <1>3 DEF Recompose, Idle
  <2> HIDE DEF k
  <2> QED
    BY <2>1, TaskMoves
<1>4. CASE GiveUp(t)
  <2>1. task' = [task EXCEPT ![t] = Idle] /\ UNCHANGED localVars /\ reviews' = reviews /\ Idle.pc # "review"
    BY <1>4 DEF GiveUp, Idle
  <2> QED
    BY <2>1, TaskMoves
<1>5. CASE Review(t)
  <2> DEFINE k == [pc |-> "review", seen |-> doc, moved |-> FALSE, rows |-> Rows(Unsettled), remote |-> head]
  <2>1. task' = [task EXCEPT ![t] = k] /\ UNCHANGED localVars /\ reviews' = reviews + 1
    BY <1>5 DEF Review
  <2> HIDE DEF k
  <2> QED
    BY <2>1, TaskMoves
<1>6. ASSUME NEW c \in Contents, Compose(t, c)
      PROVE  Kept /\ Counted
  <2> DEFINE k == Ready(task[t].seen, task[t].moved, c)
  <2>1. task' = [task EXCEPT ![t] = k] /\ UNCHANGED localVars /\ reviews' = reviews /\ k.pc # "review"
    BY <1>6 DEF Compose, Ready
  <2> HIDE DEF k
  <2> QED
    BY <2>1, TaskMoves
<1>7. CASE Write(t)
  BY <1>7, WriteMoves
<1>8. CASE TakeRemote(t)
  BY <1>8, TakeRemoteMoves
<1>9. ASSUME NEW c \in Heads, KeepLocal(t, c)
      PROVE  Resolves /\ Counted
  BY <1>9, KeepLocalMoves
<1> QED
  BY <1>1, <1>2, <1>3, <1>4, <1>5, <1>6, <1>7, <1>8, <1>9 DEF TaskStep

LEMMA SameMoves ==
    ASSUME BaseInv, UNCHANGED <<localVars, task, reviews>>
    PROVE  Kept /\ Counted
<1>1. UNCHANGED <<doc, base, journal, overtaken, task, reviews>>
  BY DEF localVars
<1> QED
  BY <1>1, SameKept, OthersCounted

LEMMA PushStepMoves ==
    ASSUME BaseInv, PushStep
    PROVE  (Kept \/ Acknowledges) /\ Counted
<1>1. CASE BeginPush \/ EndPush \/ Skip \/ Arrive \/ Lose \/ Crash \/ \E refuse \in BOOLEAN : Execute(refuse)
  <2>1. UNCHANGED <<localVars, task, reviews>>
    BY <1>1 DEF BeginPush, EndPush, Skip, Arrive, Lose, Crash, Execute
  <2> QED
    BY <2>1, SameMoves
<1>2. CASE Fold
  BY <1>2, FoldMoves
<1>3. CASE ClaimIntent
  BY <1>3, ClaimMoves
<1>4. CASE Send \/ Receive \/ Lookup \/ LookupFails
  <2>1. \/ UNCHANGED <<localVars, task, envVars, reviews>>
        \/ \E a \in Answers, pauses \in BOOLEAN : Settling(a) /\ Settle(a, pauses)
    BY <1>4, DeliverySteps
  <2>2. CASE UNCHANGED <<localVars, task, envVars, reviews>>
    <3>1. UNCHANGED <<localVars, task, reviews>>
      BY <2>2
    <3> QED
      BY <3>1, SameMoves
  <2>3. CASE \E a \in Answers, pauses \in BOOLEAN : Settling(a) /\ Settle(a, pauses)
    BY <2>3, SettleMoves
  <2> QED
    BY <2>1, <2>2, <2>3
<1> QED
  BY <1>1, <1>2, <1>3, <1>4 DEF PushStep

\* Every step of the journal.
LEMMA StepMoves ==
    ASSUME BaseInv, Next
    PROVE  Moves /\ Counted
<1>1. ASSUME NEW t \in Tasks, TaskStep(t)
      PROVE  Moves /\ Counted
  BY <1>1, TaskStepMoves DEF Moves
<1>2. CASE PushStep
  BY <1>2, PushStepMoves DEF Moves
<1>3. CASE Resume \/ ReclaimInFlight
  BY <1>3, RecoveryMoves DEF Moves
<1>4. ASSUME UNCHANGED <<localVars, task, reviews>>
      PROVE  Moves /\ Counted
  BY <1>4, SameMoves DEF Moves
<1>5. ASSUME NEW d \in wire, LateArrive(d) \/ \E refuse \in BOOLEAN : LateExecute(d, refuse)
      PROVE  Moves /\ Counted
  BY <1>4, <1>5 DEF LateArrive, LateExecute
<1>6. ASSUME NEW v \in Served, Foreign(v)
      PROVE  Moves /\ Counted
  BY <1>4, <1>6 DEF Foreign
<1>7. CASE FlipAccess
  BY <1>4, <1>7 DEF FlipAccess
<1> QED
  BY <1>1, <1>2, <1>3, <1>5, <1>6, <1>7 DEF Next

-----------------------------------------------------------------------------
(* The steps of the journal keep what a pull relies on *)

\* What every such step does to the history.
LEMMA JournalIs ==
    ASSUME BaseInv, CopyTypeOK, Grown, JournalStep
    PROVE  /\ UNCHANGED <<mark, pulls, runs>>
           /\ acks' \in Nat /\ refetch' \in BOOLEAN /\ released' \in BOOLEAN
           /\ born' \in Nat /\ born <= born'
           /\ committed' \in [Ids -> Nat] /\ \A i \in Ids : committed'[i] <= born'
           /\ baseBorn' \in Nat /\ baseBorn' <= born'
           /\ released => released'
           /\ ackAt' \in Nat /\ stamp' \in Nat /\ straddled' \in BOOLEAN /\ (straddled => straddled')
<1>0. /\ acks \in Nat /\ refetch \in BOOLEAN /\ released \in BOOLEAN /\ born \in Nat
      /\ committed \in [Ids -> Nat] /\ baseBorn \in Nat
      /\ baseBorn <= born /\ \A i \in Ids : committed[i] <= born
  BY DEF CopyTypeOK, Grown
<1>1. /\ UNCHANGED <<mark, pulls, runs>> /\ acks' \in Nat /\ refetch' \in BOOLEAN
      /\ released' \in BOOLEAN /\ (released => released')
  <2>1. UNCHANGED <<mark, pulls, runs>> /\ acks' \in Nat
    BY <1>0 DEF JournalStep
  <2>2. refetch' \in BOOLEAN
    <3>1. refetch' = IF Acknowledging # {}
                     THEN \E i \in Acknowledging : journal'[i].version # journal'[i].local
                     ELSE refetch /\ ~Resolving
      BY DEF JournalStep
    <3> QED
      BY <3>1
  <2>3. released' = (released \/ (Unsettled # {} /\ Unsettled' = {} /\ Acknowledging = {}))
    BY DEF JournalStep
  <2> QED
    BY <1>0, <2>1, <2>2, <2>3
<1>2. born' \in Nat /\ born <= born'
  BY <1>0 DEF JournalStep
<1>3. committed' = [i \in Ids |-> IF i \in Committing THEN born' ELSE committed[i]]
  BY DEF JournalStep
<1>4. committed' \in [Ids -> Nat] /\ \A i \in Ids : committed'[i] <= born'
  BY <1>0, <1>2, <1>3
<1>5. baseBorn' \in Nat /\ baseBorn' <= born'
  <2>1. CASE Acknowledging # {}
    <3>1. (CHOOSE i \in Acknowledging : TRUE) \in Ids
      <4>1. Acknowledging \subseteq Ids
        BY UnsettledIs DEF Acknowledging, BaseInv, TypeOK
      <4> QED
        BY <2>1, <4>1
    <3>2. baseBorn' = committed[CHOOSE i \in Acknowledging : TRUE]
      BY <2>1 DEF JournalStep
    <3> DEFINE i == CHOOSE j \in Acknowledging : TRUE
    <3>3. i \in Ids /\ baseBorn' = committed[i]
      BY <3>1, <3>2
    <3> HIDE DEF i
    <3>4. committed[i] \in Nat /\ committed[i] <= born
      BY <1>0, <3>3
    <3> QED
      BY <1>0, <1>2, <3>3, <3>4
  <2>2. CASE Acknowledging = {} /\ Resolving
    <3>1. baseBorn' = born
      BY <2>2 DEF JournalStep
    <3> QED
      BY <1>0, <1>2, <3>1
  <2>3. CASE Acknowledging = {} /\ ~Resolving
    <3>1. baseBorn' = baseBorn
      BY <2>3 DEF JournalStep
    <3> QED
      BY <1>0, <1>2, <3>1
  <2> QED
    BY <2>1, <2>2, <2>3
<1>6. ackAt' \in Nat /\ stamp' \in Nat /\ straddled' \in BOOLEAN /\ (straddled => straddled')
  <2>1. ackAt \in Nat /\ stamp \in Nat /\ straddled \in BOOLEAN /\ 0 \in Nat
    BY DEF CopyTypeOK
  <2>2. straddled' = (straddled \/ (Acknowledging # {} /\ Straddles))
    BY DEF JournalStep
  <2>3. ackAt' \in Nat /\ stamp' \in Nat
    BY <2>1 DEF JournalStep
  <2> QED
    BY <2>1, <2>2, <2>3
<1> QED
  BY <1>1, <1>2, <1>4, <1>5, <1>6

\* The document is the one its base row names, or the copy asks for it.
LEMMA JournalAtBase ==
    ASSUME BaseInv, LinkedInv(TRUE), LinkedInv(TRUE)', AtBase, JournalStep
    PROVE  AtBase'
<1>0. Moves /\ Counted
  BY StepMoves DEF JournalStep
<1>1. CASE Kept
  <2>1. base' = base /\ (refetch' <=> refetch)
    BY <1>1 DEF Kept, JournalStep
  <2>2. ASSUME ~overtaken', Unsettled' = {}, ~refetch'
        PROVE  doc' = base'
    <3>1. CASE doc' = Absent
      <4>1. Accounted'
        BY <2>2 DEF LinkedInv, Linked
      <4>2. Stored(doc') = base'
        BY <2>2, <4>1 DEF Accounted, Stored
      <4> QED
        BY <3>1, <4>2 DEF Stored
    <3>2. CASE Unsettled = {} /\ doc' = doc
      BY <1>0, <2>1, <2>2, <3>2 DEF Counted, AtBase
    <3> QED
      BY <1>1, <2>2, <3>1, <3>2 DEF Kept
  <2> QED
    BY <2>1, <2>2 DEF AtBase
<1>2. CASE Resolves
  <2>1. refetch' = FALSE
    BY <1>2 DEF Resolves, JournalStep
  <2> QED
    BY <1>2, <2>1 DEF Resolves, AtBase
<1>3. CASE Acknowledges
  <2>1. PICK i \in Unsettled :
           /\ Acknowledging = {i} /\ ~Resolving /\ Unsettled' = Unsettled \ {i}
           /\ doc' = doc /\ overtaken' = overtaken
           /\ journal'[i].local = journal[i].local /\ journal'[i].version = base'
           /\ base' = Stored(journal[i].local) /\ journal[i].local \in Heads
    BY <1>3 DEF Acknowledges
  <2>2. refetch' <=> base' # journal[i].local
    BY <2>1 DEF JournalStep
  <2>3. ASSUME base' = Absent PROVE ~refetch'
    <3>1. journal[i].local = Absent
      BY <2>1, <2>3, StoredTwice
    <3> QED
      BY <2>2, <2>3, <3>1
  <2>4. ASSUME ~overtaken', Unsettled' = {}, ~refetch'
        PROVE  doc' = base'
    <3>1. IsLast(i)
      <4>1. Unsettled = {i} /\ i \in Nat
        BY <2>1, <2>4, UnsettledIs DEF BaseInv, TypeOK, Ids
      <4> QED
        BY <4>1 DEF IsLast
    <3>2. doc = journal[i].local
      BY <2>1, <2>4, <3>1 DEF LinkedInv, Linked, Accounted
    <3> QED
      BY <2>1, <2>2, <2>4, <3>2
  <2> QED
    BY <2>3, <2>4 DEF AtBase
<1> QED
  BY <1>0, <1>1, <1>2, <1>3 DEF Moves

\* A standing fence has seen no acknowledgement, and with no resolution that
\* released the document the base row is still the one the pull compared.
LEMMA JournalSteady ==
    ASSUME BaseInv, CopyTypeOK, RunsApart, JournalStep, ~released', NEW at \in Nat, at <= acks, acks' = at
    PROVE  /\ acks = at /\ UNCHANGED mark /\ ~released /\ (overtaken => overtaken')
           /\ Unsettled' = {} => Unsettled = {} /\ base' = base /\ refetch' = refetch /\ baseBorn' = baseBorn
           /\ reviews' = 0 => reviews = 0 /\ (Grown => base' = base /\ refetch' = refetch /\ baseBorn' = baseBorn)
<1>0. /\ Moves /\ Counted /\ acks \in Nat /\ released \in BOOLEAN /\ refetch \in BOOLEAN
      /\ reviews \in Nat
  BY StepMoves DEF JournalStep, CopyTypeOK, BaseInv, TypeOK
<1>1. Acknowledging = {} /\ acks' = acks
  BY <1>0 DEF JournalStep
<1>2. UNCHANGED mark /\ ~released /\ (overtaken => overtaken')
  BY <1>0 DEF JournalStep, Counted
<1>3. Unsettled' = {} => Unsettled = {}
  BY <1>1 DEF JournalStep
<1>4. ~Acknowledges
  BY <1>1 DEF Acknowledges
<1>5. Kept => base' = base /\ refetch' = refetch /\ baseBorn' = baseBorn
  <2>1. ASSUME Kept
        PROVE  base' = base /\ refetch' = (refetch /\ ~Resolving) /\ ~Resolving /\ baseBorn' = baseBorn
    BY <1>1, <2>1 DEF Kept, JournalStep
  <2> QED
    BY <1>0, <2>1
<1>6. Resolves => Unsettled # {} /\ \E t \in Tasks : task[t].pc = "review"
  BY DEF Resolves
<1>7. reviews' = 0 => reviews = 0
  BY <1>0 DEF Counted
<1>8. reviews' = 0 /\ Grown => Kept
  BY <1>0, <1>4, <1>6, <1>7 DEF Moves, Grown
<1>9. Unsettled' = {} => Kept
  BY <1>0, <1>3, <1>4, <1>6 DEF Moves
<1> QED
  BY <1>1, <1>2, <1>3, <1>5, <1>7, <1>8, <1>9

LEMMA JournalFenced ==
    ASSUME BaseInv, LinkedInv(TRUE), LinkedInv(TRUE)', FencedInv, JournalStep
    PROVE  FencedInv'
<1>0. /\ CopyTypeOK /\ RunsApart /\ Grown /\ AtBase /\ Counted /\ acks \in Nat
      /\ mark.at \in Nat /\ mark.at <= acks /\ released \in BOOLEAN
  BY StepMoves DEF FencedInv, JournalStep, CopyTypeOK, Markers, RunsApart
<1>1. /\ UNCHANGED <<mark, pulls, runs>>
      /\ acks' \in Nat /\ refetch' \in BOOLEAN /\ released' \in BOOLEAN
      /\ born' \in Nat /\ born <= born'
      /\ committed' \in [Ids -> Nat] /\ \A i \in Ids : committed'[i] <= born'
      /\ baseBorn' \in Nat /\ baseBorn' <= born'
      /\ released => released'
      /\ ackAt' \in Nat /\ stamp' \in Nat /\ straddled' \in BOOLEAN /\ (straddled => straddled')
  BY <1>0, JournalIs
<1>2. CopyTypeOK'
  BY <1>0, <1>1 DEF CopyTypeOK
<1>3. RunsApart'
  <2>1. acks <= acks' /\ born \in Nat
    BY <1>0 DEF JournalStep, CopyTypeOK
  <2>2. ASSUME NEW r \in Realms, ~At(r, "idle")
        PROVE  pulls[r].run <= runs /\ pulls[r].at <= acks' /\ pulls[r].born <= born'
    <3>1. /\ pulls[r].run <= runs /\ pulls[r].at <= acks /\ pulls[r].born <= born
          /\ pulls[r].at \in Nat /\ pulls[r].born \in Nat
      BY <2>2, CarriedIs
    <3> QED
      BY <1>0, <1>1, <2>1, <3>1
  <2> QED
    BY <1>0, <1>1, <2>1, <2>2 DEF RunsApart, At
<1>4. Grown'
  <2>1. reviews' = 0 => \A t \in Tasks : task'[t].pc # "review"
    <3>1. reviews \in Nat
      BY DEF BaseInv, TypeOK
    <3> QED
      BY <1>0, <3>1 DEF Counted, Grown
  <2> QED
    BY <1>1, <2>1 DEF Grown
<1>5. AtBase'
  BY <1>0, JournalAtBase
<1>6. ASSUME ~overtaken', ~released', ~straddled'
      PROVE  MarkTrue'
  <2>1. ASSUME mark.done, acks' = mark.at, mark.digest # NoDigest
        PROVE  Matches(mark.digest)'
    <3>1. /\ acks = mark.at /\ ~released /\ ~overtaken /\ ~straddled
          /\ Unsettled' = {} => Unsettled = {} /\ base' = base /\ refetch' = refetch
      <4> DEFINE at == mark.at
      <4>1. at \in Nat /\ at <= acks /\ acks' = at
        BY <1>0, <2>1
      <4> HIDE DEF at
      <4>2. /\ acks = at /\ ~released /\ (overtaken => overtaken')
            /\ Unsettled' = {} => Unsettled = {} /\ base' = base /\ refetch' = refetch
        BY <1>0, <1>6, <4>1, JournalSteady
      <4> QED
        BY <1>1, <1>6, <4>2 DEF at
    <3>2. Matches(mark.digest)
      BY <2>1, <3>1 DEF FencedInv, MarkTrue
    <3> QED
      BY <1>1, <3>1, <3>2 DEF Matches, HoldsVersion
  <2> QED
    BY <1>1, <2>1 DEF MarkTrue
<1>7. ASSUME NEW r \in Realms, ~At(r, "idle")'
      PROVE  PullInv(pulls[r])'
  <2> SUFFICES ASSUME NEW k, k = pulls'[r]
               PROVE  PullInv(k)'
    BY PullRenamed
  <2>1. ~At(r, "idle") /\ k = pulls[r]
    BY <1>1, <1>7 DEF At
  <2>2. k.at \in Nat /\ k.at <= acks /\ PullInv(pulls[r])
    BY <2>1, CarriedIs
  <2>3. PullInv(k)
    BY <2>1, <2>2
  <2>4. ASSUME ~released', Fenced(k)'
        PROVE  /\ Fenced(k) /\ ~released /\ (overtaken => overtaken')
               /\ Unsettled' = {} => Unsettled = {} /\ base' = base /\ refetch' = refetch /\ baseBorn' = baseBorn
               /\ reviews' = 0 => reviews = 0 /\ baseBorn' = baseBorn
    <3> DEFINE at == k.at
    <3>1. at \in Nat /\ at <= acks /\ acks' = at
      BY <2>2, <2>4 DEF Fenced
    <3> HIDE DEF at
    <3>2. /\ acks = at /\ UNCHANGED mark /\ ~released /\ (overtaken => overtaken')
          /\ Unsettled' = {} => Unsettled = {} /\ base' = base /\ refetch' = refetch /\ baseBorn' = baseBorn
          /\ reviews' = 0 => reviews = 0 /\ (Grown => base' = base /\ refetch' = refetch /\ baseBorn' = baseBorn)
      BY <1>0, <2>4, <3>1, JournalSteady
    <3> QED
      BY <1>0, <2>4, <3>2 DEF Fenced, at
  <2>5. Sequenced(k)'
    BY <1>1, <2>3 DEF PullInv, Sequenced
  <2>6. ASSUME ~released' PROVE Younger(k)'
    BY <2>3, <2>4, <2>6 DEF PullInv, Younger
  <2>7. ASSUME ~overtaken', ~released', ~straddled' PROVE Faithful(k)'
    BY <1>1, <2>3, <2>4, <2>7 DEF PullInv, Faithful, Matches, HoldsVersion
  <2> QED
    BY <2>5, <2>6, <2>7 DEF PullInv
<1>8. ClockTrue'
  <2>1. CASE Acknowledging = {}
    <3>1. acks' = acks /\ ackAt' = ackAt
      BY <2>1 DEF JournalStep
    <3> QED
      BY <1>1, <3>1 DEF FencedInv, ClockTrue
  <2>2. CASE Acknowledging # {}
    <3>1. ackAt' = stamp /\ (straddled' = (straddled \/ Straddles))
      BY <2>2 DEF JournalStep
    <3>2. /\ mark.run \in Nat /\ stamp \in Nat
          /\ \A r \in Realms : pulls[r].pc \notin {"idle", "begun"} => pulls[r].run \in Nat
      BY <1>0, RunningIs DEF CopyTypeOK, Markers, IdlePull
    <3> QED
      BY <1>1, <3>1, <3>2 DEF ClockTrue, Straddles
  <2> QED
    BY <2>1, <2>2
<1> QED
  BY <1>2, <1>3, <1>4, <1>5, <1>6, <1>7, <1>8 DEF FencedInv

-----------------------------------------------------------------------------
(* The invariant *)

LEMMA JournalCopy ==
    ASSUME CopyInv, JournalStep
    PROVE  CopyInv'
<1>1. BaseInv /\ RetiredInv /\ LinkedInv(TRUE) /\ FencedInv /\ [Next]_vars
  BY DEF CopyInv, JournalStep
<1>2. BaseInv' /\ RetiredInv' /\ LinkedInv(TRUE)'
  BY <1>1, BaseStep, RetiredStep, LinkedStep
<1>3. FencedInv'
  BY <1>1, <1>2, JournalFenced
<1> QED
  BY <1>2, <1>3 DEF CopyInv

\* Taking the time of an acknowledgement disturbs nothing, nor does a stutter.
LEMMA StampCopy ==
    ASSUME CopyInv, stamp' \in Nat,
           UNCHANGED <<vars, mark, acks, ackAt, refetch, pulls, runs, born, committed, baseBorn,
                       released, straddled>>
    PROVE  CopyInv'
<1>0. /\ UNCHANGED vars
      /\ UNCHANGED <<doc, base, journal, overtaken, task, reviews>>
      /\ UNCHANGED <<mark, acks, refetch, pulls, runs, born, committed, baseBorn, released>>
      /\ UNCHANGED <<ackAt, straddled>>
  BY DEF vars, localVars
<1>1. BaseInv' /\ RetiredInv' /\ LinkedInv(TRUE)'
  BY <1>0, UnchangedCopy
<1>2. Unsettled' = Unsettled
  BY <1>0 DEF Unsettled
<1>3. CopyTypeOK'
  BY <1>0 DEF CopyInv, FencedInv, CopyTypeOK
<1>4. RunsApart'
  BY <1>0 DEF CopyInv, FencedInv, RunsApart, At
<1>7. ClockTrue'
  BY <1>0 DEF CopyInv, FencedInv, ClockTrue
<1>5. Grown' /\ AtBase' /\ (~overtaken /\ ~released /\ ~straddled => MarkTrue)'
  BY <1>0, <1>2 DEF CopyInv, FencedInv, Grown, AtBase, MarkTrue, Matches, HoldsVersion
<1>6. ASSUME NEW r \in Realms, ~At(r, "idle")'
      PROVE  PullInv(pulls[r])'
  <2> SUFFICES ASSUME NEW k, k = pulls'[r]
               PROVE  PullInv(k)'
    BY PullRenamed
  <2>1. k = pulls[r] /\ PullInv(pulls[r])
    BY <1>0, <1>6 DEF CopyInv, FencedInv, At
  <2>2. PullInv(k)
    BY <2>1
  <2> QED
    BY <1>0, <2>2, PullSteady
<1> QED
  BY <1>1, <1>3, <1>4, <1>5, <1>6, <1>7 DEF CopyInv, FencedInv

LEMMA CopyInit ==
    ASSUME PullInit
    PROVE  CopyInv
<1>0. /\ Init /\ mark = Marker(0, 0, TRUE, head) /\ acks = 0 /\ refetch = FALSE /\ runs = 0
      /\ pulls = [r \in Realms |-> IdlePull] /\ born = 0 /\ baseBorn = 0 /\ released = FALSE
      /\ ackAt = 0 /\ stamp = 0 /\ straddled = FALSE
      /\ committed = [i \in Ids |-> 0] /\ head \in Served /\ doc = head /\ base = head
      /\ \A t \in Tasks : task[t].pc = "idle"
  BY DEF PullInit, Init, Idle
<1>1. BaseInv /\ RetiredInv /\ LinkedInv(FALSE)
  BY <1>0, BaseInit, HistoryInit
<1>2. LinkedInv(TRUE)
  BY <1>1 DEF LinkedInv, Linked, FirstPremise
<1>3. head \in Digests
  BY <1>0, DigestTypes
<1>4. mark \in Markers /\ mark.at = 0 /\ mark.digest = head
  BY <1>0, <1>3 DEF Marker, Markers
<1>5. CopyTypeOK
  BY <1>0, <1>4 DEF CopyTypeOK
<1>6. \A r \in Realms : At(r, "idle")
  BY <1>0 DEF At, IdlePull
<1>7. RunsApart
  <2>1. mark.at <= acks
    <3>1. mark.at = 0 /\ acks = 0
      BY <1>0, <1>4
    <3> QED
      BY <3>1
  <2> QED
    BY <1>6, <2>1 DEF RunsApart
<1>8. Grown /\ AtBase
  BY <1>0 DEF Grown, AtBase
<1>9. MarkTrue
  BY <1>0, <1>4 DEF MarkTrue, Matches, HoldsVersion
<1>10. ClockTrue
  BY <1>0, <1>4, <1>6 DEF ClockTrue, At
<1> QED
  BY <1>1, <1>2, <1>5, <1>6, <1>7, <1>8, <1>9, <1>10 DEF CopyInv, FencedInv

LEMMA CopyStep ==
    ASSUME CopyInv, [PullNext]_allVars
    PROVE  CopyInv'
<1>1. CASE JournalStep
  BY <1>1, JournalCopy
<1>2. ASSUME NEW r \in Realms, PullStep(r) PROVE CopyInv'
  BY <1>2, PullCopy
<1>3. CASE UNCHANGED allVars
  <2>1. stamp \in Nat
    BY DEF CopyInv, FencedInv, CopyTypeOK
  <2> QED
    BY <1>3, <2>1, StampCopy DEF allVars, pullVars
<1>4. CASE StampAcknowledgement
  <2>1. stamp' \in Nat
    BY <1>4 DEF StampAcknowledgement, CopyInv, FencedInv, CopyTypeOK
  <2> QED
    BY <1>4, <2>1, StampCopy DEF StampAcknowledgement
<1> QED
  BY <1>1, <1>2, <1>3, <1>4 DEF PullNext

\* CopyInv: whatever pulls, local operations, pushes and resolutions interleave,
\* the journal, the base row, the pull row and what every pull under way has
\* read agree.  What a pull offers or records as a digest is the copy's until a
\* pull begins between the time settleIntent takes and its transaction.
THEOREM CopyInvariance == PullSpec => []CopyInv
<1>1. PullInit => CopyInv
  BY CopyInit
<1>2. CopyInv /\ [PullNext]_allVars => CopyInv'
  BY CopyStep
<1> QED
  BY <1>1, <1>2, PTL DEF PullSpec

-----------------------------------------------------------------------------
(* What it implies *)

\* Every reachable state of the working copy and its pulls has its types.
THEOREM CopyTypeCorrect == PullSpec => [](TypeOK /\ CopyTypeOK)
<1>1. CopyInv => TypeOK /\ CopyTypeOK
  BY DEF CopyInv, BaseInv, FencedInv
<1> QED
  BY <1>1, CopyInvariance, PTL

\* No accepted edit is lost to pull: what fencedSnapshot and its guard let a
\* pull write, over a document or its base row, leaves every unsettled edit the
\* document's content.
THEOREM PullAccounts == PullSpec => []EditAccounted
<1>1. CopyInv => EditAccounted
  <2> SUFFICES ASSUME CopyInv, ~overtaken
               PROVE  IF Unsettled = {} THEN Stored(doc) = base ELSE doc = journal[Latest].local
    BY DEF EditAccounted
  <2>1. Accounted /\ Reading(journal)
    BY DEF CopyInv, LinkedInv, Linked, BaseInv, TypeOK
  <2>2. Unsettled # {} => Latest \in Unsettled /\ IsLast(Latest)
    BY <2>1, LatestIs DEF IsLast
  <2> QED
    BY <2>1, <2>2 DEF Accounted
<1> QED
  BY <1>1, CopyInvariance, PTL

\* Edits are delivered in the order they were made under pull too: a base row it
\* refreshes or finds deleted lets no later intent be claimed.
THEOREM PullDeliversInOrder == PullSpec => []DeliveredInOrder
<1>1. CopyInv => DeliveredInOrder
  BY DEF CopyInv, LinkedInv, Linked, Chained, DeliveredInOrder
<1> QED
  BY <1>1, CopyInvariance, PTL

\* What left the journal is never committed by a delivery on its way, although
\* a pull may have changed the base row its successors are resolved against.
THEOREM PullRetires == PullSpec => []RetiredNeverCommits
<1>1. CopyInv => RetiredNeverCommits
  BY DEF CopyInv, RetiredInv, Retired, RetiredNeverCommits
<1> QED
  BY <1>1, CopyInvariance, PTL

\* Not modified means up to date: lastKnownDigest offers the authority's digest
\* only for a copy that is at it, however pulls, acknowledgements and foreign
\* changes interleaved with the pull that recorded it, as long as none began
\* between an acknowledgement's time and its settlement.
THEOREM DigestsAreHonest == PullSpec => []DigestHonest
<1>1. CopyInv => DigestHonest
  <2> SUFFICES ASSUME CopyInv, ~overtaken, ~released, ~straddled, LastKnownDigest = head, Unsettled = {}
               PROVE  doc = head /\ HoldsVersion(head)
    BY DEF DigestHonest, UpToDate
  <2>1. AtBase /\ MarkTrue /\ ClockTrue /\ head \in Served
    BY DEF CopyInv, FencedInv, BaseInv, Recorded
  <2>2. head # NoDigest
    BY <2>1, DigestTypes
  <2>3. mark.done /\ acks = mark.at /\ mark.digest = head
    BY <2>1, <2>2 DEF LastKnownDigest, ClockTrue
  <2>4. HoldsVersion(head)
    BY <2>1, <2>2, <2>3 DEF MarkTrue, Matches
  <2> QED
    BY <2>1, <2>4 DEF AtBase, HoldsVersion
<1> QED
  BY <1>1, CopyInvariance, PTL

\* The base row is written by a pull only under its fence.
LEMMA NeverBack ==
    ASSUME CopyInv, [PullNext]_allVars, pulls' # pulls, ~released, Unsettled # {} => reviews = 0
    PROVE  baseBorn' >= baseBorn
<1>0. baseBorn \in Nat
  BY DEF CopyInv, FencedInv, CopyTypeOK
<1>1. PICK r \in Realms : PullStep(r)
  BY DEF PullNext, JournalStep, StampAcknowledgement, allVars, pullVars
<1>2. CASE baseBorn' = baseBorn
  BY <1>0, <1>2
<1>3. CASE baseBorn' # baseBorn
  <2>1. PullWrite(r) \/ PullDelete(r)
    BY <1>1, <1>3 DEF PullStep, PullBegin, PullFence, PullRead, PullMark, PullHeads, PullFetch, PullApply,
       PullReconcile, PullComplete, PullFails
  <2>2. GuardHolds(r) /\ baseBorn' = pulls[r].born /\ pulls[r].pc \in {"write", "delete"}
    BY <1>3, <2>1 DEF PullWrite, PullDelete, Refresh, At
  <2>3. PullInv(pulls[r]) /\ pulls[r].born \in Nat
    BY <2>2, CarriedIs DEF CopyInv, At
  <2>4. baseBorn <= pulls[r].born
    BY <2>2, <2>3 DEF PullInv, Younger, GuardHolds, FenceHolds, Fenced
  <2> QED
    BY <1>0, <2>2, <2>3, <2>4
<1> QED
  BY <1>2, <1>3

\* The copy never goes back: fencedSnapshot lets a pull write only what the
\* authority held after the base row it replaces, although several pulls, an
\* acknowledgement and foreign changes may come between listing and write.
THEOREM PullsNeverGoBack == PullSpec => PullNeverBack
<1>1. CopyInv /\ [PullNext]_allVars =>
         [pulls' # pulls /\ ~released /\ (Unsettled # {} => reviews = 0) => baseBorn' >= baseBorn]_allVars
  BY NeverBack
<1> QED
  BY <1>1, CopyInvariance, PTL DEF PullSpec, PullNeverBack
=============================================================================
