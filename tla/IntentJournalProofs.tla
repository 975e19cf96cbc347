------------------------ MODULE IntentJournalProofs ------------------------
(***************************************************************************)
(* Proofs about IntentJournal: the invariant that ties the journal, the     *)
(* authority's record, the deliveries on the wire and what the local        *)
(* operations have read to one another, and the properties it implies.      *)
(***************************************************************************)
EXTENDS IntentJournal, WellFoundedInduction, TLAPS

-----------------------------------------------------------------------------
(* The inductive invariant *)

\* Only its own settlement moves the row a delivery is under way for, and an
\* answer that came back is the recorded one, unless access was denied.
Claimed ==
    push.pc \notin {"idle", "next"} =>
        /\ push.queue # {} /\ Has(Current) /\ Intent.state = "in_flight"
        /\ push.pc = "replied" =>
              push.answer.kind = "denied" \/ (push.answer = recorded[Current] /\ push.answer # NoAnswer)

\* An intent waits on an earlier one, and an identity not minted yet is unknown
\* everywhere.
Numbered ==
    /\ \A i \in DOMAIN journal : i <= minted /\ journal[i].after < i
    /\ \A i \in Ids : i > minted => recorded[i] = NoAnswer
    /\ \A d \in wire : d.id <= minted
    /\ \A t \in Tasks : task[t].pc = "write" =>
          /\ \A i \in DOMAIN task[t].supersede : i <= minted
          /\ task[t].plan # NoPlan => task[t].plan.after <= minted

\* A row says no more than the authority's record under its identity; a row
\* that was never claimed is unknown to the authority.
Honest(i) ==
    /\ journal[i].attempts = 0 =>
          journal[i].state = "pending" /\ recorded[i] = NoAnswer /\ \A d \in wire : d.id # i
    /\ journal[i].state \in {"refused", "conflict"} => recorded[i].kind = journal[i].state
    /\ journal[i].state = "acknowledged" =>
          recorded[i] # NoAnswer /\ journal[i].version = Stored(journal[i].local)
    /\ recorded[i].kind = "committed" => recorded[i].version = Stored(journal[i].local)

\* A delivery on the wire can still be the first one recorded, as it was sent.
Recorded ==
    /\ head \in Served /\ base \in Served
    /\ \A i \in Ids : \/ recorded[i] = NoAnswer
                      \/ recorded[i].kind \in {"committed", "refused"}
                      \/ recorded[i].kind = "conflict" /\ recorded[i].version \in Served
    /\ \A i \in DOMAIN journal : Honest(i)
    /\ \A d \in wire :
          /\ recorded[d.id] = NoAnswer
          /\ Has(d.id) => d.base = journal[d.id].base /\ d.local = journal[d.id].local

\* What a row in the journal keeps of what it was when it was read.
AsRead(rows) ==
    \A i \in DOMAIN rows : Has(i) =>
        /\ journal[i].local = rows[i].local /\ journal[i].after = rows[i].after
        /\ rows[i].attempts <= journal[i].attempts
        /\ rows[i].attempts = journal[i].attempts => journal[i].base = rows[i].base

\* What the local operations carry from what they read to what they write.
Composed(t) ==
    /\ \A i \in DOMAIN task[t].supersede :
          /\ DOMAIN task[t].supersede = {i} /\ MayBeReplaced(task[t].supersede[i])
          /\ task[t].plan = SupersedingIntent(task[t].supersede[i], task[t].content)
    /\ AsRead(task[t].supersede)
    /\ IF task[t].plan = NoPlan THEN task[t].content = Absent ELSE task[t].plan.local = task[t].content
    /\ task[t].content # task[t].seen

Reviewed(t) ==
    /\ \A i \in DOMAIN task[t].rows :
          task[t].rows[i].state = "conflict" \/ MayBeReplaced(task[t].rows[i])
    /\ \E i \in DOMAIN task[t].rows : task[t].rows[i].state = "conflict"
    /\ task[t].remote \in Served

Carried ==
    \A t \in Tasks : /\ task[t].pc = "write" => Composed(t)
                     /\ task[t].pc = "review" => Reviewed(t)

\* The unsettled intents are one chain: each but the first was never claimed,
\* waits on the one before it and was made over its content.
Chained ==
    \A i, j \in Unsettled : i < j =>
        /\ journal[j].attempts = 0
        /\ journal[j].after \in Unsettled /\ i <= journal[j].after
        /\ journal[j].base = journal[journal[j].after].local

\* The first one was made over the base row, whose content is the answer to the
\* intent it waited on, if it waited on one.
IsFirst(i) == \A j \in Unsettled : i <= j

Premised(i) ==
    LET r == journal[i]
    IN  /\ r.after # NoId => Has(r.after) /\ journal[r.after].state = "acknowledged"
                             /\ journal[r.after].version = base
        /\ \/ r.base = base
           \/ r.attempts = 0 /\ r.after # NoId /\ r.base = journal[r.after].local

\* Under a pull (w), an absence it found may have replaced that base row.
FirstPremise(w) ==
    \A i \in Unsettled : IsFirst(i) => Premised(i) \/ (w /\ base = Absent)

\* EditAccounted, of the last unsettled intent.
IsLast(i) == \A j \in Unsettled : j <= i

Accounted ==
    IF Unsettled = {} THEN Stored(doc) = base
    ELSE \A i \in Unsettled : IsLast(i) => doc = journal[i].local

\* The intent a local operation is about to write fits the end of the chain.
Fits(t) ==
    LET plan == task[t].plan
        first == DOMAIN task[t].supersede = {}
    IN  /\ \A i \in DOMAIN task[t].supersede \cap Unsettled : IsLast(i)
        /\ first => plan # NoPlan
        /\ first /\ plan.after = NoId => Unsettled = {} /\ plan.base = base
        /\ first /\ plan.after # NoId /\ Has(plan.after) =>
              /\ journal[plan.after].attempts > 0
              /\ plan.base = journal[plan.after].local
              /\ IF journal[plan.after].state = "acknowledged"
                 THEN Unsettled = {} /\ base = journal[plan.after].version
                 ELSE IsLast(plan.after)

Fitting ==
    \A t \in Tasks : task[t].pc # "idle" /\ ~task[t].moved =>
        doc = task[t].seen /\ (task[t].pc = "write" => Fits(t))

\* With access, what has left the journal is not under way.
Retired ==
    /\ access
    /\ \A i \in DOMAIN journal : journal[i].state # "denied"
    /\ push.pc = "replied" => push.answer.kind # "denied"
    /\ \A d \in wire : Has(d.id)
    /\ \A i \in 1 .. minted : ~Has(i) => recorded[i].kind # "committed"

\* Alone, the shared head is the base row or the answer on its way to it.
Alone ==
    /\ \A i \in Ids : recorded[i].kind # "conflict"
    /\ \/ head = base /\ \A i \in Unsettled : recorded[i].kind # "committed"
       \/ \E i \in Unsettled : recorded[i].kind = "committed" /\ head = recorded[i].version

BaseInv == TypeOK /\ Claimed /\ Numbered /\ Recorded /\ Carried

Linked(w) == Chained /\ FirstPremise(w) /\ Accounted /\ Fitting

JournalInv ==
    /\ BaseInv
    /\ ~overtaken => Linked(FALSE)
    /\ flips = 0 => Retired
    /\ ~overtaken /\ foreign = 0 /\ flips = 0 => Alone

-----------------------------------------------------------------------------
(* Identities *)

NatLess == {p \in Nat \X Nat : p[1] < p[2]}

\* Every non-empty set of natural numbers has a least element.
LEMMA LeastElement ==
    ASSUME NEW S, S \subseteq Nat, S # {}
    PROVE  \E x \in S : \A y \in S : x <= y
<1>1. IsWellFoundedOn(NatLess, Nat)
  BY NatLessThanWellFounded DEF OpToRel, NatLess
<1>2. PICK x \in S : \A y \in S : ~ (<<y, x>> \in NatLess)
  BY <1>1, WFMin
<1>3. ASSUME NEW y \in S PROVE x <= y
  <2>1. x \in Nat /\ y \in Nat /\ ~ (<<y, x>> \in NatLess)
    BY <1>2
  <2>2. ~ (y < x)
    BY <2>1 DEF NatLess
  <2> QED
    BY <2>1, <2>2
<1> QED
  BY <1>3

\* A set of identities has a greatest one.
LEMMA GreatestId ==
    ASSUME NEW S, S \subseteq Ids, S # {}
    PROVE  \E x \in S : \A y \in S : y <= x
<1>0. MaxIds \in Nat
  BY JournalAssumption
<1> DEFINE T == {MaxIds - x : x \in S}
<1>1. T \subseteq Nat /\ T # {}
  <2>1. ASSUME NEW x \in S PROVE MaxIds - x \in Nat
    BY <1>0 DEF Ids
  <2> QED
    BY <2>1
<1>2. PICK z \in T : \A y \in T : z <= y
  <2> HIDE DEF T
  <2> QED
    BY <1>1, LeastElement
<1>3. PICK x \in S : z = MaxIds - x
  OBVIOUS
<1>4. ASSUME NEW y \in S PROVE y <= x
  <2>1. MaxIds - x <= MaxIds - y
    BY <1>2, <1>3
  <2>2. x \in Nat /\ y \in Nat
    BY DEF Ids
  <2> QED
    BY <1>0, <2>1, <2>2
<1> QED
  BY <1>4

\* Latest is the last unsettled intent, NoId when there is none.
LEMMA LatestIs ==
    ASSUME Reading(journal)
    PROVE  IF Unsettled = {} THEN Latest = NoId
           ELSE Latest \in Unsettled /\ \A i \in Unsettled : i <= Latest
<1>1. Unsettled \subseteq Ids
  BY DEF Reading, Unsettled
<1>2. CASE Unsettled = {}
  BY <1>2 DEF Latest
<1>3. CASE Unsettled # {}
  <2> DEFINE L(i) == i \in Unsettled /\ \A j \in Unsettled : j <= i
  <2> DEFINE U == Unsettled
  <2>1. U \subseteq Ids /\ U # {}
    BY <1>1, <1>3
  <2>2. \E i \in U : \A j \in U : j <= i
    <3> HIDE DEF U
    <3> QED
      BY <2>1, GreatestId
  <2>3. Latest = CHOOSE i \in Unsettled : \A j \in Unsettled : j <= i
    BY <1>3 DEF Latest
  <2> QED
    BY <1>3, <2>2, <2>3
<1> QED
  BY <1>2, <1>3

\* Current is an identity of the queue.
LEMMA CurrentIs ==
    ASSUME push.queue \subseteq Ids, push.queue # {}
    PROVE  Current \in push.queue /\ Current \in Ids
<1> DEFINE Q == push.queue
<1>1. Q \subseteq Nat /\ Q # {}
  BY DEF Ids
<1>2. \E i \in Q : \A j \in Q : i <= j
  <2> HIDE DEF Q
  <2> QED
    BY <1>1, LeastElement
<1>3. Current = CHOOSE i \in Q : \A j \in Q : i <= j
  BY DEF Current, Lowest
<1> QED
  BY <1>2, <1>3

\* What the authority stores is what it would store again.
LEMMA StoredTwice ==
    ASSUME NEW c \in Heads
    PROVE  /\ Stored(c) \in Heads /\ Stored(c) \in Served
           /\ Stored(Stored(c)) = Stored(c)
           /\ Stored(c) = Absent <=> c = Absent
BY JournalAssumption DEF Stored, Heads, Served

LEMMA ServedIsStored ==
    ASSUME NEW v \in Served
    PROVE  v \in Heads /\ Stored(v) = v
<1>1. PICK c \in Heads : v = Stored(c)
  BY DEF Served
<1> QED
  BY <1>1, StoredTwice

-----------------------------------------------------------------------------
(* Rows *)

\* A row in the journal is an intent under one of its identities.
LEMMA RowType ==
    ASSUME NEW f, Reading(f), NEW i \in DOMAIN f
    PROVE  /\ i \in Ids /\ i \in Nat /\ i > 0
           /\ f[i] \in Intents
           /\ f[i].base \in Heads /\ f[i].local \in Heads /\ f[i].version \in Heads
           /\ f[i].after \in Ids \union {NoId} /\ f[i].after \in Nat
           /\ f[i].attempts \in Nat /\ f[i].state \in IntentStates
BY JournalAssumption DEF Reading, Intents, Ids, NoId

\* The identities of unsettled rows.
LEMMA UnsettledIs ==
    ASSUME Reading(journal)
    PROVE  /\ Unsettled \subseteq DOMAIN journal
           /\ \A i \in DOMAIN journal : i \in Unsettled <=> journal[i].state # "acknowledged"
           /\ Unsettled \subseteq Ids /\ \A i \in Unsettled : Has(i)
BY DEF Reading, Unsettled, Has

\* What a plan is made of.
LEMMA PlanType ==
    ASSUME NEW b \in Heads, NEW l \in Heads, NEW a \in Ids \union {NoId}
    PROVE  /\ Plan(b, l, a) \in Plans /\ Plan(b, l, a) # NoPlan
           /\ Plan(b, l, a).base = b /\ Plan(b, l, a).local = l /\ Plan(b, l, a).after = a
<1>1. MaxIds \in Nat /\ a \in 0 .. MaxIds + 1 /\ a # MaxIds + 1
  BY JournalAssumption DEF Ids, NoId
<1>2. Plan(b, l, a) \in Plans
  BY <1>1 DEF Plan, Plans
<1>3. Plan(b, l, a).after = a /\ NoPlan.after = MaxIds + 1
  BY DEF Plan, NoPlan
<1> QED
  BY <1>1, <1>2, <1>3 DEF Plan

LEMMA NoPlanType == NoPlan \in Plans
BY JournalAssumption DEF NoPlan, Plans, Heads

\* A plan other than NoPlan makes a row.
LEMMA FreshType ==
    ASSUME NEW p \in Plans, p.after <= MaxIds
    PROVE  /\ Fresh(p) \in Intents
           /\ Fresh(p).base = p.base /\ Fresh(p).local = p.local /\ Fresh(p).after = p.after
           /\ Fresh(p).attempts = 0 /\ Fresh(p).state = "pending" /\ Fresh(p).version = Absent
<1>1. p.base \in Heads /\ p.local \in Heads /\ p.after \in 0 .. MaxIds + 1
  BY DEF Plans
<1>2. p.after \in Ids \union {NoId}
  BY <1>1, JournalAssumption DEF Ids, NoId
<1>3. Absent \in Heads /\ "pending" \in IntentStates
  BY DEF Heads, IntentStates
<1> QED
  BY <1>1, <1>2, <1>3 DEF Fresh, Intents

\* supersedingIntent.
LEMMA SupersedingIs ==
    ASSUME NEW r \in Intents, NEW l \in Heads
    PROVE  /\ SupersedingIntent(r, l) \in Plans
           /\ SupersedingIntent(r, l) = NoPlan <=> l = Absent /\ r.base = Absent
           /\ SupersedingIntent(r, l) # NoPlan =>
                 /\ SupersedingIntent(r, l).base = r.base
                 /\ SupersedingIntent(r, l).local = l
                 /\ SupersedingIntent(r, l).after = r.after
<1>1. r.base \in Heads /\ r.after \in Ids \union {NoId}
  BY DEF Intents
<1>2. /\ Plan(r.base, l, r.after) \in Plans /\ Plan(r.base, l, r.after) # NoPlan
      /\ Plan(r.base, l, r.after).base = r.base /\ Plan(r.base, l, r.after).local = l
      /\ Plan(r.base, l, r.after).after = r.after
  BY <1>1, PlanType
<1>3. CASE l = Absent /\ r.base = Absent
  BY <1>3, NoPlanType DEF SupersedingIntent
<1>4. CASE ~ (l = Absent /\ r.base = Absent)
  <2>1. SupersedingIntent(r, l) = Plan(r.base, l, r.after)
    BY <1>4 DEF SupersedingIntent
  <2> QED
    BY <1>2, <1>4, <2>1
<1> QED
  BY <1>3, <1>4

\* The rows that are read are rows.
LEMMA RowsType ==
    ASSUME Reading(journal), NEW S, S \subseteq DOMAIN journal
    PROVE  /\ Reading(Rows(S)) /\ DOMAIN Rows(S) = S
           /\ \A i \in S : Rows(S)[i] = journal[i]
<1>1. DOMAIN Rows(S) = S /\ \A i \in S : Rows(S)[i] = journal[i]
  BY DEF Rows
<1>2. S \subseteq Ids /\ \A i \in S : journal[i] \in Intents
  BY DEF Reading
<1>3. Rows(S) \in [S -> Intents]
  BY <1>2 DEF Rows
<1> QED
  BY <1>1, <1>2, <1>3 DEF Reading

\* A row is what a local operation reads of it.
LEMMA RowsAsRead ==
    ASSUME Reading(journal), NEW S, S \subseteq DOMAIN journal
    PROVE  AsRead(Rows(S))
<1>1. DOMAIN Rows(S) = S /\ \A i \in S : Rows(S)[i] = journal[i]
  BY RowsType
<1>2. \A i \in S : journal[i].attempts \in Nat
  BY RowType
<1> QED
  BY <1>1, <1>2 DEF AsRead

\* composeIntent.
LEMMA ComposeIs ==
    ASSUME Reading(journal), base \in Heads, NEW l \in Heads
    PROVE  LET p == ComposeIntent(l)
           IN  /\ p \in Plans
               /\ IF p = NoPlan THEN l = Absent ELSE p.local = l
               /\ Superseded \subseteq Unsettled /\ Superseded \subseteq DOMAIN journal
               /\ \A i \in Superseded : /\ Superseded = {i} /\ MayBeReplaced(journal[i])
                                        /\ p = SupersedingIntent(journal[i], l)
                                        /\ \A j \in Unsettled : j <= i
               /\ Superseded = {} =>
                     IF Unsettled = {} THEN p = (IF l = Absent /\ base = Absent THEN NoPlan
                                                 ELSE Plan(base, l, NoId))
                     ELSE /\ Latest \in Unsettled /\ ~MayBeReplaced(journal[Latest])
                          /\ p = Plan(journal[Latest].local, l, Latest) /\ p # NoPlan
                          /\ \A j \in Unsettled : j <= Latest
               /\ p # NoPlan => p.after = NoId \/ \E i \in DOMAIN journal : p.after \in {i, journal[i].after}
<1> DEFINE p == ComposeIntent(l)
<1>0. Superseded \subseteq Unsettled /\ Superseded \subseteq DOMAIN journal
  BY UnsettledIs DEF Superseded
<1>1. CASE Unsettled = {}
  <2>1. Latest = NoId /\ Superseded = {}
    BY <1>1, LatestIs DEF Superseded
  <2>2. p = IF l = Absent /\ base = Absent THEN NoPlan ELSE Plan(base, l, NoId)
    BY <2>1 DEF ComposeIntent
  <2>3. /\ Plan(base, l, NoId) \in Plans /\ Plan(base, l, NoId) # NoPlan
        /\ Plan(base, l, NoId).local = l /\ Plan(base, l, NoId).after = NoId
    BY PlanType
  <2>4. p \in Plans /\ (IF p = NoPlan THEN l = Absent ELSE p.local = l)
    BY <2>2, <2>3, NoPlanType
  <2>5. p # NoPlan => p.after = NoId
    BY <2>2, <2>3
  <2> QED
    BY <1>0, <1>1, <2>1, <2>2, <2>4, <2>5
<1>2. CASE Unsettled # {}
  <2>1. Latest \in Unsettled /\ (\A i \in Unsettled : i <= Latest) /\ Latest \in DOMAIN journal
    BY <1>2, LatestIs, UnsettledIs
  <2>2. Latest # NoId /\ Latest \in Ids /\ journal[Latest] \in Intents
    BY <2>1, RowType DEF NoId
  <2>3. journal[Latest].local \in Heads /\ journal[Latest].after \in Ids \union {NoId}
    BY <2>1, RowType
  <2>4. CASE MayBeReplaced(journal[Latest])
    <3>1. p = SupersedingIntent(journal[Latest], l)
      BY <2>2, <2>4 DEF ComposeIntent
    <3>2. Superseded = {Latest}
      BY <2>1, <2>4 DEF Superseded
    <3>3. p \in Plans /\ (IF p = NoPlan THEN l = Absent ELSE p.local = l)
      BY <2>2, <3>1, SupersedingIs
    <3>4. p # NoPlan => p.after = journal[Latest].after
      BY <2>2, <3>1, SupersedingIs
    <3>5. p # NoPlan => p.after = NoId \/ \E i \in DOMAIN journal : p.after \in {i, journal[i].after}
      BY <2>1, <3>4
    <3> QED
      BY <1>0, <2>1, <2>4, <3>1, <3>2, <3>3, <3>5
  <2>5. CASE ~MayBeReplaced(journal[Latest])
    <3>1. p = Plan(journal[Latest].local, l, Latest)
      BY <2>2, <2>5 DEF ComposeIntent
    <3>2. Superseded = {}
      BY <2>1, <2>5 DEF Superseded
    <3>3. p \in Plans /\ p # NoPlan /\ p.local = l /\ p.after = Latest
      BY <2>2, <2>3, <3>1, PlanType
    <3>4. \E i \in DOMAIN journal : p.after \in {i, journal[i].after}
      BY <2>1, <3>3
    <3> QED
      BY <1>0, <1>2, <2>1, <2>5, <3>1, <3>2, <3>3, <3>4
  <2> QED
    BY <2>4, <2>5
<1> QED
  BY <1>1, <1>2

-----------------------------------------------------------------------------
(* What the steps do to the rows *)

\* The same intent, claimed or settled since or not; only a first claim gives
\* it another base.
KeptRow(i) ==
    /\ journal'[i].local = journal[i].local /\ journal'[i].after = journal[i].after
    /\ journal[i].attempts <= journal'[i].attempts
    /\ journal'[i].attempts = journal[i].attempts \/ journal[i].attempts # 0 =>
          journal'[i].base = journal[i].base

Steady ==
    \A i \in DOMAIN journal' : i <= minted => i \in DOMAIN journal /\ KeptRow(i)

\* Rows leave and the planned one enters.
Entered(gone, plan) ==
    /\ IF plan = NoPlan
       THEN DOMAIN journal' = DOMAIN journal \ gone /\ minted' = minted
       ELSE /\ DOMAIN journal' = (DOMAIN journal \ gone) \union {minted + 1}
            /\ minted' = minted + 1 /\ minted + 1 \in Ids /\ minted + 1 \notin DOMAIN journal
            /\ journal'[minted + 1] = Fresh(plan)
    /\ \A i \in DOMAIN journal \ gone : journal'[i] = journal[i]

\* The plan of an intent that may enter now.
Enterable(plan) == plan \in Plans /\ (plan # NoPlan => plan.after <= minted)

LEMMA JournaledIs ==
    ASSUME TypeOK, Numbered, NEW gone, NEW plan, Enterable(plan), NEW content,
           Journaled(gone, plan, content)
    PROVE  /\ Entered(gone, plan) /\ doc' = content
           /\ Reading(journal') /\ minted' \in 0 .. MaxIds
<1>0. /\ minted \in Nat /\ Reading(journal) /\ MaxIds \in Nat /\ minted <= MaxIds
      /\ \A i \in DOMAIN journal : i <= minted
  BY JournalAssumption DEF TypeOK, Numbered
<1>1. doc' = content
  BY DEF Journaled
<1>2. CASE plan = NoPlan
  <2>1. journal' = Rows(DOMAIN journal \ gone) /\ minted' = minted
    BY <1>2 DEF Journaled
  <2>2. /\ Reading(Rows(DOMAIN journal \ gone))
        /\ DOMAIN Rows(DOMAIN journal \ gone) = DOMAIN journal \ gone
        /\ \A i \in DOMAIN journal \ gone : Rows(DOMAIN journal \ gone)[i] = journal[i]
    BY <1>0, RowsType
  <2>3. Reading(journal') /\ Entered(gone, plan)
    BY <1>2, <2>1, <2>2 DEF Entered
  <2> QED
    BY <1>0, <1>1, <2>1, <2>3
<1>3. CASE plan # NoPlan
  <2>1. /\ minted < MaxIds /\ minted' = minted + 1
        /\ journal' = [i \in (DOMAIN journal \ gone) \union {minted + 1} |->
                           IF i = minted + 1 THEN Fresh(plan) ELSE journal[i]]
    BY <1>3 DEF Journaled
  <2>2. minted + 1 \in Ids /\ minted + 1 \notin DOMAIN journal
    BY <1>0, <2>1 DEF Ids
  <2>3. /\ DOMAIN journal' = (DOMAIN journal \ gone) \union {minted + 1}
        /\ journal'[minted + 1] = Fresh(plan)
        /\ \A i \in DOMAIN journal \ gone : journal'[i] = journal[i]
    BY <2>1, <2>2
  <2>4. Fresh(plan) \in Intents
    <3>1. plan \in Plans /\ plan.after <= MaxIds
      BY <1>0, <1>3 DEF Enterable, Plans
    <3> QED
      BY <3>1, FreshType
  <2>5. DOMAIN journal' \subseteq Ids /\ \A i \in DOMAIN journal' : journal'[i] \in Intents
    BY <1>0, <2>2, <2>3, <2>4, RowType
  <2>6. journal' \in [DOMAIN journal' -> Intents]
    <3>1. journal' = [i \in DOMAIN journal' |-> journal'[i]]
      BY <2>1
    <3> QED
      BY <2>5, <3>1
  <2>7. Reading(journal')
    BY <2>5, <2>6 DEF Reading
  <2> QED
    BY <1>0, <1>1, <1>3, <2>1, <2>2, <2>3, <2>7 DEF Entered
<1> QED
  BY <1>2, <1>3

\* The rows that stay stay as they are.
LEMMA EnteredSteady ==
    ASSUME TypeOK, Numbered, NEW gone, NEW plan, Entered(gone, plan)
    PROVE  Steady /\ minted <= minted'
<1>1. minted \in Nat /\ Reading(journal)
  BY DEF TypeOK
<1>2. ASSUME NEW i \in DOMAIN journal', i <= minted
      PROVE  i \in DOMAIN journal /\ journal'[i] = journal[i] /\ journal[i].attempts \in Nat
  <2>1. i \in DOMAIN journal \ gone
    BY <1>1, <1>2 DEF Entered
  <2> QED
    BY <1>1, <2>1, RowType DEF Entered
<1>3. Steady
  BY <1>2 DEF Steady, KeptRow
<1>4. minted <= minted'
  BY <1>1 DEF Entered
<1> QED
  BY <1>3, <1>4

LEMMA UnchangedSteady ==
    ASSUME TypeOK, journal' = journal
    PROVE  Steady
<1>1. Reading(journal)
  BY DEF TypeOK
<1>2. \A i \in DOMAIN journal : journal[i].attempts \in Nat
  BY <1>1, RowType
<1> QED
  BY <1>2 DEF Steady, KeptRow

\* What was read of rows stays true of them.
AsReadAfter(rows) ==
    \A i \in DOMAIN rows : i \in DOMAIN journal' =>
        /\ journal'[i].local = rows[i].local /\ journal'[i].after = rows[i].after
        /\ rows[i].attempts <= journal'[i].attempts
        /\ rows[i].attempts = journal'[i].attempts => journal'[i].base = rows[i].base

LEMMA AsReadKept ==
    ASSUME Steady, Reading(journal), Reading(journal'),
           NEW rows, Reading(rows), AsRead(rows), \A i \in DOMAIN rows : i <= minted
    PROVE  AsReadAfter(rows)
<1> SUFFICES ASSUME NEW i \in DOMAIN rows, i \in DOMAIN journal'
             PROVE  /\ journal'[i].local = rows[i].local /\ journal'[i].after = rows[i].after
                    /\ rows[i].attempts <= journal'[i].attempts
                    /\ rows[i].attempts = journal'[i].attempts => journal'[i].base = rows[i].base
  BY DEF AsReadAfter
<1>1. i \in DOMAIN journal /\ KeptRow(i)
  BY DEF Steady
<1>2. /\ journal[i].local = rows[i].local /\ journal[i].after = rows[i].after
      /\ rows[i].attempts <= journal[i].attempts
      /\ rows[i].attempts = journal[i].attempts => journal[i].base = rows[i].base
  BY <1>1 DEF AsRead, Has
<1>3. rows[i].attempts \in Nat /\ journal[i].attempts \in Nat /\ journal'[i].attempts \in Nat
  BY <1>1, RowType
<1>4. rows[i].attempts = journal'[i].attempts =>
         rows[i].attempts = journal[i].attempts /\ journal[i].attempts = journal'[i].attempts
  BY <1>1, <1>2, <1>3 DEF KeptRow
<1> QED
  BY <1>1, <1>2, <1>3, <1>4 DEF KeptRow

-----------------------------------------------------------------------------
(* The local operations in a step *)

\* Operations stay as they are, or end, or are marked as overtaken.
TasksKept ==
    /\ task' = [t \in Tasks |-> task'[t]]
    /\ \A t \in Tasks : \/ task'[t] = task[t] \/ task'[t] = Idle
                        \/ task[t].pc # "idle" /\ task'[t] = [task[t] EXCEPT !.moved = TRUE]

\* An operation that is marked as overtaken stays what it is.
LEMMA MovedIs ==
    ASSUME NEW k, TaskOK(k), k.pc # "idle"
    PROVE  LET m == [k EXCEPT !.moved = TRUE]
           IN  /\ TaskOK(m) /\ m.pc = k.pc /\ m.seen = k.seen /\ m.moved
               /\ k.pc = "write" => /\ m.content = k.content /\ m.plan = k.plan
                                    /\ m.supersede = k.supersede
               /\ k.pc = "review" => m.rows = k.rows /\ m.remote = k.remote
<1>1. k # Idle
  BY DEF Idle
<1>2. CASE k \in [pc : {"compose"}, seen : Heads, moved : BOOLEAN]
  BY <1>2 DEF TaskOK
<1>3. CASE /\ k.pc = "write" /\ Reading(k.supersede)
           /\ k \in [pc : {"write"}, seen : Heads, moved : BOOLEAN, content : Heads, plan : Plans,
                     supersede : {k.supersede}]
  BY <1>3 DEF TaskOK
<1>4. CASE /\ k.pc = "review" /\ Reading(k.rows)
           /\ k \in [pc : {"review"}, seen : Heads, moved : BOOLEAN, rows : {k.rows}, remote : Heads]
  BY <1>4 DEF TaskOK
<1> QED
  BY <1>1, <1>2, <1>3, <1>4 DEF TaskOK

\* The fields of an operation.
LEMMA TaskType ==
    ASSUME NEW k, TaskOK(k)
    PROVE  /\ k.pc \in {"idle", "compose", "write", "review"}
           /\ k.pc = "idle" => k = Idle
           /\ k.pc # "idle" => k.seen \in Heads /\ k.moved \in BOOLEAN
           /\ k.pc = "write" => k.content \in Heads /\ k.plan \in Plans /\ Reading(k.supersede)
           /\ k.pc = "review" => k.remote \in Heads /\ Reading(k.rows)
BY DEF TaskOK, Idle

\* Such a step keeps the operations typed and what they carry.
LEMMA TasksKeptCarry ==
    ASSUME TypeOK, Numbered, Carried, TasksKept, Steady, Reading(journal'),
           minted' \in Nat, minted <= minted'
    PROVE  /\ task' = [t \in Tasks |-> task'[t]] /\ \A t \in Tasks : TaskOK(task'[t])
           /\ \A t \in Tasks : task'[t].pc = "write" =>
                 /\ \A i \in DOMAIN task'[t].supersede : i <= minted'
                 /\ task'[t].plan # NoPlan => task'[t].plan.after <= minted'
           /\ Carried'
<1>1. \A t \in Tasks : TaskOK(task[t])
  BY DEF TypeOK
<1>2. ASSUME NEW t \in Tasks
      PROVE  /\ TaskOK(task'[t])
             /\ task'[t].pc # "idle" => /\ task'[t].pc = task[t].pc /\ task'[t].seen = task[t].seen
             /\ task'[t].pc = "write" => /\ task'[t].content = task[t].content
                                         /\ task'[t].plan = task[t].plan
                                         /\ task'[t].supersede = task[t].supersede
             /\ task'[t].pc = "review" => /\ task'[t].rows = task[t].rows
                                          /\ task'[t].remote = task[t].remote
  <2>1. TaskOK(task[t])
    BY <1>1
  <2>2. CASE task'[t] = task[t]
    BY <2>1, <2>2
  <2>3. CASE task'[t] = Idle
    BY <2>3 DEF Idle, TaskOK
  <2>4. CASE task[t].pc # "idle" /\ task'[t] = [task[t] EXCEPT !.moved = TRUE]
    BY <2>1, <2>4, MovedIs
  <2> QED
    BY <2>2, <2>3, <2>4 DEF TasksKept
<1>3. ASSUME NEW t \in Tasks, task'[t].pc = "write"
      PROVE  /\ \A i \in DOMAIN task'[t].supersede : i <= minted'
             /\ task'[t].plan # NoPlan => task'[t].plan.after <= minted'
             /\ Composed(t)'
  <2>1. task[t].pc = "write" /\ task'[t].supersede = task[t].supersede
        /\ task'[t].plan = task[t].plan /\ task'[t].content = task[t].content
        /\ task'[t].seen = task[t].seen
    BY <1>2, <1>3
  <2>2. /\ \A i \in DOMAIN task[t].supersede : i <= minted
        /\ task[t].plan # NoPlan => task[t].plan.after <= minted
        /\ Composed(t)
    BY <2>1 DEF Numbered, Carried
  <2>3. Reading(task[t].supersede) /\ task[t].plan \in Plans
    BY <1>1, <2>1, TaskType
  <2>4. AsReadAfter(task[t].supersede)
    <3> DEFINE rows == task[t].supersede
    <3>1. Reading(rows) /\ AsRead(rows) /\ \A i \in DOMAIN rows : i <= minted
      BY <2>2, <2>3 DEF Composed
    <3>2. Reading(journal)
      BY DEF TypeOK
    <3> HIDE DEF rows
    <3>3. AsReadAfter(rows)
      BY <3>1, <3>2, AsReadKept
    <3> QED
      BY <3>3 DEF rows
  <2>5. AsRead(task[t].supersede)'
    BY <2>1, <2>4 DEF AsRead, AsReadAfter, Has
  <2>6. Composed(t)'
    BY <2>1, <2>2, <2>5 DEF Composed
  <2>7. \A i \in DOMAIN task[t].supersede : i \in Nat
    BY <2>3, RowType
  <2>8. minted \in Nat /\ task[t].plan.after \in Nat
    BY <2>3, JournalAssumption DEF TypeOK, Plans
  <2> QED
    BY <2>1, <2>2, <2>6, <2>7, <2>8
<1>4. ASSUME NEW t \in Tasks, task'[t].pc = "review"
      PROVE  Reviewed(t)'
  <2>1. task[t].pc = "review" /\ task'[t].rows = task[t].rows /\ task'[t].remote = task[t].remote
    BY <1>2, <1>4
  <2>2. Reviewed(t)
    BY <2>1 DEF Carried
  <2> QED
    BY <2>1, <2>2 DEF Reviewed
<1>5. Carried'
  BY <1>3, <1>4 DEF Carried
<1> QED
  BY <1>2, <1>3, <1>5 DEF TasksKept

LEMMA TasksUnchanged ==
    ASSUME TypeOK, task' = task
    PROVE  TasksKept
BY DEF TypeOK, TasksKept

-----------------------------------------------------------------------------
(* BaseInv: steps of the local operations *)

\* A local operation moves on and nothing else does.
LEMMA TaskStepBase ==
    ASSUME BaseInv, UNCHANGED <<localVars, push, sharedVars, envVars>>, reviews' \in Nat,
           NEW t \in Tasks, NEW k, task' = [task EXCEPT ![t] = k], TaskOK(k),
           k.pc = "write" => /\ \A i \in DOMAIN k.supersede : i <= minted
                             /\ k.plan # NoPlan => k.plan.after <= minted
                             /\ Composed(t)',
           k.pc = "review" => Reviewed(t)'
    PROVE  BaseInv'
<1>0. /\ task'[t] = k /\ \A u \in Tasks : u # t => task'[u] = task[u]
      /\ task' = [u \in Tasks |-> task'[u]]
  BY DEF BaseInv, TypeOK
<1>1. TypeOK'
  <2>1. \A u \in Tasks : TaskOK(task'[u])
    BY <1>0 DEF BaseInv, TypeOK
  <2> QED
    BY <1>0, <2>1 DEF BaseInv, TypeOK, localVars, sharedVars, envVars, Reading
<1>2. Claimed'
  BY DEF BaseInv, Claimed, localVars, sharedVars, Has, Intent, Current
<1>3. Numbered'
  <2>1. ASSUME NEW u \in Tasks, task'[u].pc = "write"
        PROVE  /\ \A i \in DOMAIN task'[u].supersede : i <= minted'
               /\ task'[u].plan # NoPlan => task'[u].plan.after <= minted'
    BY <1>0, <2>1 DEF BaseInv, Numbered, localVars
  <2> QED
    BY <2>1 DEF BaseInv, Numbered, localVars, sharedVars
<1>4. Recorded'
  BY DEF BaseInv, Recorded, Honest, Has, localVars, sharedVars
<1>5. Carried'
  <2>1. ASSUME NEW u \in Tasks, task'[u].pc = "write"
        PROVE  Composed(u)'
    <3>1. CASE u = t
      BY <1>0, <2>1, <3>1
    <3>2. CASE u # t
      BY <1>0, <2>1, <3>2 DEF BaseInv, Carried, Composed, AsRead, Has, localVars
    <3> QED
      BY <3>1, <3>2
  <2>2. ASSUME NEW u \in Tasks, task'[u].pc = "review"
        PROVE  Reviewed(u)'
    <3>1. CASE u = t
      BY <1>0, <2>2, <3>1
    <3>2. CASE u # t
      BY <1>0, <2>2, <3>2 DEF BaseInv, Carried, Reviewed
    <3> QED
      BY <3>1, <3>2
  <2> QED
    BY <2>1, <2>2 DEF Carried
<1> QED
  BY <1>1, <1>2, <1>3, <1>4, <1>5 DEF BaseInv

LEMMA EditBase ==
    ASSUME BaseInv, NEW t \in Tasks, Edit(t)
    PROVE  BaseInv'
<1> DEFINE k == [pc |-> "compose", seen |-> doc, moved |-> FALSE]
<1>1. TaskOK(k) /\ k.pc = "compose"
  BY DEF TaskOK, BaseInv, TypeOK
<1>2. task' = [task EXCEPT ![t] = k]
      /\ UNCHANGED <<localVars, push, sharedVars, envVars>> /\ reviews' \in Nat
  BY DEF Edit, BaseInv, TypeOK
<1> HIDE DEF k
<1> QED
  BY <1>1, <1>2, TaskStepBase

LEMMA RecomposeBase ==
    ASSUME BaseInv, NEW t \in Tasks, Recompose(t)
    PROVE  BaseInv'
<1> DEFINE k == IF task[t].content = Absent THEN Idle
                ELSE [pc |-> "compose", seen |-> task[t].seen, moved |-> task[t].moved]
<1>0. TaskOK(task[t]) /\ task[t].pc = "write"
  BY DEF BaseInv, TypeOK, Recompose
<1>1. TaskOK(k) /\ k.pc \in {"idle", "compose"}
  <2>1. task[t].seen \in Heads /\ task[t].moved \in BOOLEAN
    BY <1>0, TaskType
  <2> QED
    BY <2>1 DEF TaskOK, Idle
<1>2. task' = [task EXCEPT ![t] = k]
      /\ UNCHANGED <<localVars, push, sharedVars, envVars>> /\ reviews' \in Nat
  BY DEF Recompose, BaseInv, TypeOK
<1> HIDE DEF k
<1> QED
  BY <1>1, <1>2, TaskStepBase

LEMMA GiveUpBase ==
    ASSUME BaseInv, NEW t \in Tasks, GiveUp(t)
    PROVE  BaseInv'
<1> DEFINE k == Idle
<1>1. TaskOK(k) /\ k.pc = "idle"
  BY DEF TaskOK, Idle
<1>2. task' = [task EXCEPT ![t] = k]
      /\ UNCHANGED <<localVars, push, sharedVars, envVars>> /\ reviews' \in Nat
  BY DEF GiveUp, BaseInv, TypeOK
<1> HIDE DEF k
<1> QED
  BY <1>1, <1>2, TaskStepBase

\* The intent composed from the journal, ready to be written.
Ready(s, m, c) == [pc |-> "write", seen |-> s, moved |-> m, content |-> c,
                   plan |-> ComposeIntent(c), supersede |-> Rows(Superseded)]

LEMMA ReadyIs ==
    ASSUME BaseInv, NEW s \in Heads, NEW m \in BOOLEAN, NEW c \in Heads, c # s
    PROVE  LET k == Ready(s, m, c)
           IN  /\ TaskOK(k) /\ k.pc = "write" /\ k.seen = s /\ k.moved = m /\ k.content = c
               /\ k.plan = ComposeIntent(c) /\ k.supersede = Rows(Superseded)
               /\ DOMAIN k.supersede = Superseded
               /\ \A i \in Superseded : k.supersede[i] = journal[i]
               /\ \A i \in DOMAIN k.supersede : i <= minted
               /\ k.plan # NoPlan => k.plan.after <= minted
               /\ \A i \in DOMAIN k.supersede :
                     /\ DOMAIN k.supersede = {i} /\ MayBeReplaced(k.supersede[i])
                     /\ k.plan = SupersedingIntent(k.supersede[i], k.content)
               /\ AsRead(k.supersede)
               /\ IF k.plan = NoPlan THEN k.content = Absent ELSE k.plan.local = k.content
<1>0. Reading(journal) /\ base \in Heads /\ minted \in Nat
      /\ \A i \in DOMAIN journal : i <= minted /\ journal[i].after < i
  BY DEF BaseInv, TypeOK, Numbered
<1> DEFINE p == ComposeIntent(c)
<1>1. /\ p \in Plans
      /\ IF p = NoPlan THEN c = Absent ELSE p.local = c
      /\ Superseded \subseteq DOMAIN journal
      /\ \A i \in Superseded : /\ Superseded = {i} /\ MayBeReplaced(journal[i])
                               /\ p = SupersedingIntent(journal[i], c)
      /\ p # NoPlan => p.after = NoId \/ \E i \in DOMAIN journal : p.after \in {i, journal[i].after}
  BY <1>0, ComposeIs
<1>2. Reading(Rows(Superseded)) /\ DOMAIN Rows(Superseded) = Superseded
      /\ (\A i \in Superseded : Rows(Superseded)[i] = journal[i]) /\ AsRead(Rows(Superseded))
  BY <1>0, <1>1, RowsType, RowsAsRead
<1>3. \A i \in DOMAIN journal : i \in Nat /\ journal[i].after \in Nat
  BY <1>0, RowType
<1>4. p # NoPlan => p.after <= minted
  BY <1>0, <1>1, <1>3 DEF NoId
<1>5. TaskOK(Ready(s, m, c))
  <2> DEFINE rows == Rows(Superseded)
  <2>1. Reading(rows) /\ p \in Plans
    BY <1>1, <1>2
  <2> HIDE DEF rows, p
  <2>2. TaskOK([pc |-> "write", seen |-> s, moved |-> m, content |-> c, plan |-> p, supersede |-> rows])
    BY <2>1 DEF TaskOK
  <2> QED
    BY <2>2 DEF Ready, rows, p
<1> QED
  BY <1>1, <1>2, <1>4, <1>5, <1>0 DEF Ready

LEMMA ReadyBase ==
    ASSUME BaseInv, UNCHANGED <<localVars, push, sharedVars, envVars>>, reviews' \in Nat,
           NEW t \in Tasks, NEW s \in Heads, NEW m \in BOOLEAN, NEW c \in Heads, c # s,
           task' = [task EXCEPT ![t] = Ready(s, m, c)]
    PROVE  BaseInv'
<1> DEFINE k == Ready(s, m, c)
<1>1. /\ TaskOK(k) /\ k.pc = "write" /\ k.seen = s /\ k.content = c
      /\ \A i \in DOMAIN k.supersede : i <= minted
      /\ k.plan # NoPlan => k.plan.after <= minted
      /\ \A i \in DOMAIN k.supersede :
            /\ DOMAIN k.supersede = {i} /\ MayBeReplaced(k.supersede[i])
            /\ k.plan = SupersedingIntent(k.supersede[i], k.content)
      /\ AsRead(k.supersede)
      /\ IF k.plan = NoPlan THEN k.content = Absent ELSE k.plan.local = k.content
  BY ReadyIs
<1>2. task' = [task EXCEPT ![t] = k]
  OBVIOUS
<1> HIDE DEF k
<1>3. task'[t] = k
  BY <1>2 DEF BaseInv, TypeOK
<1>4. Composed(t)'
  BY <1>1, <1>3 DEF Composed, AsRead, Has, localVars
<1> QED
  BY <1>1, <1>2, <1>4, TaskStepBase

LEMMA ComposeBase ==
    ASSUME BaseInv, NEW t \in Tasks, NEW c \in Contents, Compose(t, c)
    PROVE  BaseInv'
<1>0. TaskOK(task[t]) /\ task[t].pc = "compose" /\ c # task[t].seen /\ c \in Heads
  BY DEF BaseInv, TypeOK, Compose, Heads
<1>1. task[t].seen \in Heads /\ task[t].moved \in BOOLEAN
  BY <1>0, TaskType
<1>2. task' = [task EXCEPT ![t] = Ready(task[t].seen, task[t].moved, c)]
      /\ UNCHANGED <<localVars, push, sharedVars, envVars>> /\ reviews' \in Nat
  BY DEF Compose, BaseInv, TypeOK, Ready
<1> QED
  BY <1>0, <1>1, <1>2, ReadyBase

LEMMA DeleteLocalBase ==
    ASSUME BaseInv, NEW t \in Tasks, DeleteLocal(t)
    PROVE  BaseInv'
<1>0. doc \in Heads /\ Absent \in Heads /\ doc # Absent
  BY DEF BaseInv, TypeOK, DeleteLocal, Heads
<1>1. task' = [task EXCEPT ![t] = Ready(doc, FALSE, Absent)]
      /\ UNCHANGED <<localVars, push, sharedVars, envVars>> /\ reviews' \in Nat
  BY DEF DeleteLocal, BaseInv, TypeOK, Ready
<1> QED
  BY <1>0, <1>1, ReadyBase

LEMMA ReviewBase ==
    ASSUME BaseInv, NEW t \in Tasks, Review(t)
    PROVE  BaseInv'
<1> DEFINE rows == Rows(Unsettled)
           k == [pc |-> "review", seen |-> doc, moved |-> FALSE, rows |-> rows, remote |-> head]
<1>0. /\ Reading(journal) /\ doc \in Heads /\ head \in Heads /\ head \in Served
      /\ reviews \in Nat
  BY DEF BaseInv, TypeOK, Recorded
<1>1. Unsettled \subseteq DOMAIN journal
  BY <1>0, UnsettledIs
<1>2. Reading(rows) /\ DOMAIN rows = Unsettled /\ \A i \in Unsettled : rows[i] = journal[i]
  BY <1>0, <1>1, RowsType
<1>3. /\ \A i \in Unsettled : journal[i].state = "conflict" \/ MayBeReplaced(journal[i])
      /\ \E i \in Unsettled : journal[i].state = "conflict"
  <2>1. Retirable /\ journal[Lowest(Unsettled)].state = "conflict" /\ Unsettled # {}
    BY DEF Review, IsConflictChain, Retirable
  <2>2. Lowest(Unsettled) \in Unsettled
    <3> DEFINE U == Unsettled
    <3>1. U \subseteq Nat /\ U # {}
      BY <1>0, <2>1, UnsettledIs DEF Ids
    <3>2. \E i \in U : \A j \in U : i <= j
      <4> HIDE DEF U
      <4> QED
        BY <3>1, LeastElement
    <3> QED
      BY <3>2 DEF Lowest
  <2> QED
    BY <2>1, <2>2 DEF Retirable
<1>4. TaskOK(k)
  <2> HIDE DEF rows
  <2> QED
    BY <1>0, <1>2 DEF TaskOK
<1>5. task' = [task EXCEPT ![t] = k]
      /\ UNCHANGED <<localVars, push, sharedVars, envVars>> /\ reviews' \in Nat
  BY <1>0 DEF Review
<1>6. k.pc = "review" /\ k.rows = rows /\ k.remote = head
  OBVIOUS
<1> HIDE DEF k
<1>7. task'[t] = k
  BY <1>5 DEF BaseInv, TypeOK
<1>8. Reviewed(t)'
  <2>1. /\ \A i \in DOMAIN rows : rows[i].state = "conflict" \/ MayBeReplaced(rows[i])
        /\ \E i \in DOMAIN rows : rows[i].state = "conflict"
    <3> HIDE DEF rows
    <3> QED
      BY <1>2, <1>3
  <2> HIDE DEF rows
  <2> QED
    BY <1>0, <1>6, <1>7, <2>1 DEF Reviewed
<1> QED
  BY <1>4, <1>5, <1>6, <1>8, TaskStepBase

-----------------------------------------------------------------------------
(* BaseInv: the transactions that write the journal *)

\* The authority's record and the journal after such a transaction.
LEMMA EnteredBase ==
    ASSUME BaseInv, NEW gone, NEW plan, Enterable(plan), Entered(gone, plan),
           Reading(journal'), UNCHANGED sharedVars, base' \in Served
    PROVE  /\ Recorded'
           /\ \A i \in DOMAIN journal' : i <= minted' /\ journal'[i].after < i
           /\ \A i \in Ids : i > minted' => recorded'[i] = NoAnswer
           /\ \A d \in wire' : d.id <= minted'
<1>0. /\ Reading(journal) /\ minted \in Nat
      /\ recorded' = recorded /\ wire' = wire /\ head' = head
      /\ \A i \in DOMAIN journal : i <= minted /\ journal[i].after < i
      /\ \A i \in Ids : i > minted => recorded[i] = NoAnswer
      /\ \A d \in wire : d.id <= minted /\ d.id \in Ids
  BY DEF BaseInv, TypeOK, Numbered, sharedVars
<1>1. minted' \in Nat /\ minted <= minted'
  BY <1>0 DEF Entered
<1>2. ASSUME NEW i \in DOMAIN journal'
      PROVE  \/ i \in DOMAIN journal \ gone /\ journal'[i] = journal[i]
             \/ plan # NoPlan /\ i = minted + 1 /\ minted' = i /\ journal'[i] = Fresh(plan)
  BY DEF Entered
<1>3. plan # NoPlan => /\ Fresh(plan).after = plan.after /\ plan.after \in Nat /\ plan.after <= minted
                       /\ Fresh(plan).attempts = 0 /\ Fresh(plan).state = "pending"
  BY JournalAssumption DEF Enterable, Plans, Fresh
<1>4. ASSUME NEW i \in DOMAIN journal'
      PROVE  i <= minted' /\ journal'[i].after < i
  <2>1. CASE i \in DOMAIN journal \ gone /\ journal'[i] = journal[i]
    <3>1. i \in Nat
      BY <1>0, <2>1, RowType
    <3> QED
      BY <1>0, <1>1, <2>1, <3>1
  <2>2. CASE plan # NoPlan /\ i = minted + 1 /\ minted' = i /\ journal'[i] = Fresh(plan)
    BY <1>0, <1>3, <2>2
  <2> QED
    BY <1>2, <2>1, <2>2
<1>5. ASSUME NEW i \in DOMAIN journal'
      PROVE  Honest(i)'
  <2>1. CASE i \in DOMAIN journal \ gone /\ journal'[i] = journal[i]
    <3>1. Honest(i)
      BY <2>1 DEF BaseInv, Recorded
    <3> QED
      BY <1>0, <2>1, <3>1 DEF Honest
  <2>2. CASE plan # NoPlan /\ i = minted + 1 /\ minted' = i /\ journal'[i] = Fresh(plan)
    <3>1. i \in Ids /\ recorded'[i] = NoAnswer
      BY <1>0, <2>2 DEF Entered
    <3>2. \A d \in wire' : d.id # i
      BY <1>0, <2>2 DEF Ids
    <3>3. NoAnswer.kind = "none"
      BY DEF NoAnswer, Answer
    <3> QED
      BY <1>3, <2>2, <3>1, <3>2, <3>3 DEF Honest
  <2> QED
    BY <1>2, <2>1, <2>2
<1>6. ASSUME NEW d \in wire'
      PROVE  /\ recorded'[d.id] = NoAnswer
             /\ Has(d.id)' => d.base = journal'[d.id].base /\ d.local = journal'[d.id].local
  <2>1. d.id \in Ids /\ d.id <= minted /\ d \in wire
    BY <1>0
  <2>2. /\ recorded[d.id] = NoAnswer
        /\ Has(d.id) => d.base = journal[d.id].base /\ d.local = journal[d.id].local
    BY <2>1 DEF BaseInv, Recorded
  <2>3. d.id \in DOMAIN journal' => d.id \in DOMAIN journal /\ journal'[d.id] = journal[d.id]
    BY <1>0, <1>2, <2>1 DEF Ids
  <2> QED
    BY <1>0, <2>2, <2>3 DEF Has
<1>7. Recorded'
  BY <1>0, <1>5, <1>6 DEF BaseInv, Recorded
<1>8. /\ \A i \in Ids : i > minted' => recorded'[i] = NoAnswer
      /\ \A d \in wire' : d.id <= minted'
  BY <1>0, <1>1 DEF Ids
<1> QED
  BY <1>4, <1>7, <1>8

\* A transaction of a local operation.
LEMMA TransactionBase ==
    ASSUME BaseInv, NEW gone, NEW plan, Enterable(plan), NEW content \in Heads,
           Journaled(gone, plan, content),
           \A i \in gone \cap DOMAIN journal : journal[i].state # "in_flight",
           UNCHANGED <<push, sharedVars, envVars, paused, reviews>>, base' \in Served,
           overtaken' \in BOOLEAN, TasksKept
    PROVE  BaseInv'
<1>0. TypeOK /\ Numbered /\ Recorded /\ Carried
  BY DEF BaseInv
<1>1. /\ Entered(gone, plan) /\ doc' = content
      /\ Reading(journal') /\ minted' \in 0 .. MaxIds
  BY <1>0, JournaledIs
<1>2. UNCHANGED sharedVars
  OBVIOUS
<1>3. /\ Recorded'
      /\ \A i \in DOMAIN journal' : i <= minted' /\ journal'[i].after < i
      /\ \A i \in Ids : i > minted' => recorded'[i] = NoAnswer
      /\ \A d \in wire' : d.id <= minted'
  BY <1>1, <1>2, EnteredBase
<1>4. Steady /\ minted <= minted'
  BY <1>0, <1>1, EnteredSteady
<1>5. minted' \in Nat
  BY <1>1
<1>6. /\ task' = [t \in Tasks |-> task'[t]] /\ \A t \in Tasks : TaskOK(task'[t])
      /\ \A t \in Tasks : task'[t].pc = "write" =>
            /\ \A i \in DOMAIN task'[t].supersede : i <= minted'
            /\ task'[t].plan # NoPlan => task'[t].plan.after <= minted'
      /\ Carried'
  BY <1>0, <1>1, <1>4, <1>5, TasksKeptCarry
<1>7. base' \in Heads
  BY ServedIsStored
<1>8. TypeOK'
  BY <1>0, <1>1, <1>6, <1>7 DEF TypeOK, sharedVars, envVars, Reading
<1>9. Numbered'
  BY <1>3, <1>6 DEF Numbered
<1>10. Claimed'
  <2> SUFFICES ASSUME push.pc \notin {"idle", "next"}
               PROVE  Claimed'
    BY DEF Claimed
  <2>1. /\ push.queue # {} /\ Current \in DOMAIN journal /\ journal[Current].state = "in_flight"
        /\ push.pc = "replied" =>
              push.answer.kind = "denied" \/ (push.answer = recorded[Current] /\ push.answer # NoAnswer)
    BY DEF BaseInv, Claimed, Has, Intent
  <2>2. Current \in DOMAIN journal \ gone
    BY <2>1
  <2>3. Current' = Current /\ Current \in DOMAIN journal' /\ journal'[Current] = journal[Current]
    BY <1>1, <2>2 DEF Entered, Current
  <2> QED
    BY <2>1, <2>3 DEF Claimed, Has, Intent, sharedVars
<1> QED
  BY <1>3, <1>6, <1>8, <1>9, <1>10 DEF BaseInv

LEMMA EndTaskKept ==
    ASSUME TypeOK, NEW t \in Tasks, task[t].pc # "idle", EndTask(t)
    PROVE  TasksKept /\ overtaken' \in BOOLEAN
<1>1. task[t].moved \in BOOLEAN /\ overtaken \in BOOLEAN
  BY TaskType DEF TypeOK
<1>2. Unhinged(t) \in BOOLEAN
  BY DEF Unhinged
<1>3. overtaken' \in BOOLEAN
  BY <1>1, <1>2 DEF EndTask
<1>4. TasksKept
  <2>1. task' = [u \in Tasks |->
          IF u = t THEN Idle
          ELSE IF doc' # doc /\ task[u].pc # "idle" THEN [task[u] EXCEPT !.moved = TRUE]
          ELSE task[u]]
    BY DEF EndTask
  <2> QED
    BY <2>1 DEF TasksKept
<1> QED
  BY <1>3, <1>4

LEMMA WriteBase ==
    ASSUME BaseInv, NEW t \in Tasks, Write(t)
    PROVE  BaseInv'
<1> DEFINE gone == DOMAIN task[t].supersede
           plan == task[t].plan
           content == task[t].content
<1>0. TypeOK /\ task[t].pc = "write" /\ TaskOK(task[t]) /\ Composed(t)
  BY DEF BaseInv, TypeOK, Write, Carried
<1>1. content \in Heads /\ plan \in Plans
  BY <1>0, TaskType
<1>2. Enterable(plan)
  BY <1>0, <1>1 DEF BaseInv, Numbered, Enterable
<1>3. \A i \in gone \cap DOMAIN journal : journal[i].state # "in_flight"
  BY <1>0 DEF Write, SupersedeHolds, Composed, MayBeReplaced, NeverDelivered
<1>4. TasksKept /\ overtaken' \in BOOLEAN
  <2>1. EndTask(t) /\ task[t].pc # "idle"
    BY <1>0 DEF Write
  <2> QED
    BY <1>0, <2>1, EndTaskKept
<1>5. Journaled(gone, plan, content)
  BY DEF Write
<1>6. UNCHANGED <<push, sharedVars, envVars, paused, reviews>> /\ base' \in Served
  BY DEF Write, BaseInv, Recorded
<1> HIDE DEF gone, plan, content
<1> QED
  BY <1>1, <1>2, <1>3, <1>4, <1>5, <1>6, TransactionBase

LEMMA ResolvedBase ==
    ASSUME BaseInv, NEW t \in Tasks, NEW plan, Enterable(plan), NEW content \in Heads,
           Resolved(t, plan, content)
    PROVE  BaseInv'
<1> DEFINE gone == Unsettled
<1>0. /\ TypeOK /\ task[t].pc = "review" /\ TaskOK(task[t]) /\ Reviewed(t)
      /\ Reading(journal)
  BY DEF BaseInv, TypeOK, Resolved, Carried
<1>1. \A i \in gone \cap DOMAIN journal : journal[i].state # "in_flight"
  <2>1. Rows(Unsettled) = task[t].rows
    BY DEF Resolved
  <2>2. Unsettled \subseteq DOMAIN journal
    BY <1>0, UnsettledIs
  <2>3. DOMAIN task[t].rows = Unsettled /\ \A i \in Unsettled : task[t].rows[i] = journal[i]
    BY <1>0, <2>1, <2>2, RowsType
  <2> QED
    BY <1>0, <2>3 DEF Reviewed, MayBeReplaced, NeverDelivered
<1>2. TasksKept /\ overtaken' \in BOOLEAN
  <2>1. EndTask(t) /\ task[t].pc # "idle"
    BY <1>0 DEF Resolved
  <2> QED
    BY <1>0, <2>1, EndTaskKept
<1>3. Journaled(gone, plan, content)
  BY DEF Resolved
<1>4. UNCHANGED <<push, sharedVars, envVars, paused, reviews>> /\ base' \in Served
  BY <1>0 DEF Resolved, Reviewed
<1> HIDE DEF gone
<1> QED
  BY <1>1, <1>2, <1>3, <1>4, TransactionBase

LEMMA TakeRemoteBase ==
    ASSUME BaseInv, NEW t \in Tasks, TakeRemote(t)
    PROVE  BaseInv'
<1>1. Resolved(t, NoPlan, task[t].remote)
  BY DEF TakeRemote
<1>2. task[t].remote \in Heads
  BY <1>1, TaskType DEF BaseInv, TypeOK, Resolved
<1>3. Enterable(NoPlan)
  BY NoPlanType DEF Enterable
<1> DEFINE c == task[t].remote
<1> HIDE DEF c
<1>4. c \in Heads /\ Resolved(t, NoPlan, c)
  BY <1>1, <1>2 DEF c
<1> QED
  BY <1>3, <1>4, ResolvedBase

LEMMA KeepLocalBase ==
    ASSUME BaseInv, NEW t \in Tasks, NEW c \in Heads, KeepLocal(t, c)
    PROVE  BaseInv'
<1> DEFINE plan == IF c = Absent /\ task[t].remote = Absent THEN NoPlan
                   ELSE Plan(task[t].remote, c, NoId)
<1>1. Resolved(t, plan, c) /\ task[t].remote \in Heads
  BY TaskType DEF KeepLocal, BaseInv, TypeOK
<1>2. Enterable(plan)
  <2>1. /\ Plan(task[t].remote, c, NoId) \in Plans
        /\ Plan(task[t].remote, c, NoId).after = NoId
    BY <1>1, PlanType
  <2> QED
    BY <2>1, NoPlanType DEF Enterable, NoId, BaseInv, TypeOK
<1> HIDE DEF plan
<1> QED
  BY <1>1, <1>2, ResolvedBase

-----------------------------------------------------------------------------
(* BaseInv: claim, settlement and recovery *)

\* Rows change their state, and no row comes or goes.
Turned ==
    /\ DOMAIN journal' = DOMAIN journal /\ minted' = minted
    /\ Reading(journal') /\ \A i \in DOMAIN journal : KeptRow(i)

\* Such a step, by what becomes of the rows.
LEMMA TurnedBase ==
    ASSUME BaseInv, Turned, UNCHANGED <<doc, overtaken, task, sharedVars, envVars, reviews>>,
           base' \in Served, paused' \in BOOLEAN,
           \A i \in DOMAIN journal : Honest(i)',
           push' \in [pc : {"idle", "next", "send", "network", "admitted", "replied", "lookup"},
                      queue : SUBSET Ids, sent : 0 .. MaxSubmissions, unclear : BOOLEAN,
                      answer : Answers],
           Claimed'
    PROVE  BaseInv'
<1>0. /\ TypeOK /\ Numbered /\ Recorded /\ Carried /\ Reading(journal) /\ minted \in Nat
      /\ recorded' = recorded /\ wire' = wire /\ head' = head /\ task' = task
  BY DEF BaseInv, TypeOK, sharedVars
<1>1. Steady
  BY DEF Turned, Steady
<1>2. TasksKept
  BY <1>0, TasksUnchanged
<1>3. Reading(journal') /\ minted' \in Nat /\ minted <= minted'
  BY <1>0 DEF Turned
<1>4. Carried'
  BY <1>0, <1>1, <1>2, <1>3, TasksKeptCarry
<1>5. base' \in Heads
  BY ServedIsStored
<1>6. TypeOK'
  BY <1>0, <1>3, <1>5 DEF TypeOK, Turned, sharedVars, envVars, Reading
<1>7. Numbered'
  BY <1>0 DEF Numbered, Turned, KeptRow
<1>8. ASSUME NEW d \in wire'
      PROVE  /\ recorded'[d.id] = NoAnswer
             /\ Has(d.id)' => d.base = journal'[d.id].base /\ d.local = journal'[d.id].local
  <2>1. /\ recorded[d.id] = NoAnswer
        /\ Has(d.id) => d.base = journal[d.id].base /\ d.local = journal[d.id].local
    BY <1>0, <1>8 DEF Recorded
  <2>2. d.id \in DOMAIN journal => /\ journal[d.id].attempts # 0 /\ KeptRow(d.id)
    BY <1>0, <1>8 DEF Recorded, Honest, Turned
  <2> QED
    BY <1>0, <2>1, <2>2 DEF Has, Turned, KeptRow
<1>9. Recorded'
  BY <1>0, <1>8 DEF Recorded, Turned
<1> QED
  BY <1>4, <1>6, <1>7, <1>9 DEF BaseInv

\* A row that becomes another.
LEMMA UpdateIs ==
    ASSUME Reading(journal), NEW i \in DOMAIN journal, NEW r \in Intents,
           journal' = Update(i, r)
    PROVE  /\ DOMAIN journal' = DOMAIN journal /\ Reading(journal')
           /\ journal'[i] = r
           /\ \A j \in DOMAIN journal : j # i => journal'[j] = journal[j]
BY DEF Update, Reading

LEMMA IdlePushType ==
    /\ IdlePush \in [pc : {"idle", "next", "send", "network", "admitted", "replied", "lookup"},
                     queue : SUBSET Ids, sent : 0 .. MaxSubmissions, unclear : BOOLEAN,
                     answer : Answers]
    /\ NoAnswer \in Answers /\ NoAnswer.kind = "none" /\ NoAnswer.version = Absent
BY JournalAssumption DEF IdlePush, NoAnswer, Answer, Answers, Heads

LEMMA FollowingType ==
    ASSUME TypeOK
    PROVE  /\ Following \in [pc : {"idle", "next", "send", "network", "admitted", "replied", "lookup"},
                             queue : SUBSET Ids, sent : 0 .. MaxSubmissions, unclear : BOOLEAN,
                             answer : Answers]
           /\ Following.pc = "next"
BY IdlePushType DEF TypeOK, Following, IdlePush

\* The base a claim gives.
LEMMA PremiseType ==
    ASSUME Reading(journal), NEW r \in Intents
    PROVE  ChainedPremise(r) \in Heads /\ (r.attempts # 0 => ChainedPremise(r) = r.base)
<1>1. r.base \in Heads
  BY DEF Intents
<1>2. Has(r.after) => journal[r.after].version \in Heads
  BY RowType DEF Has
<1> QED
  BY <1>1, <1>2 DEF ChainedPremise

\* What a claim does.
LEMMA ClaimIs ==
    ASSUME BaseInv, ClaimIntent
    PROVE  /\ Current \in DOMAIN journal /\ Current \in Ids
           /\ Intent.state = "pending" /\ ~Blocked(Intent)
           /\ DOMAIN journal' = DOMAIN journal /\ Reading(journal')
           /\ \A i \in DOMAIN journal : i # Current => journal'[i] = journal[i]
           /\ journal'[Current].base = ChainedPremise(Intent)
           /\ journal'[Current].local = Intent.local /\ journal'[Current].after = Intent.after
           /\ journal'[Current].attempts = Intent.attempts + 1
           /\ journal'[Current].state = "in_flight"
           /\ journal'[Current].version = Intent.version
           /\ push'.pc \in {"send", "lookup"} /\ push'.queue = push.queue
<1>0. Reading(journal) /\ push.queue \subseteq Ids
  BY DEF BaseInv, TypeOK
<1>1. push.queue # {} /\ Due /\ ~Blocked(Intent)
  BY DEF ClaimIntent
<1>2. Current \in DOMAIN journal /\ Current \in Ids /\ Intent.state = "pending"
  BY <1>0, <1>1, CurrentIs DEF Due, Has
<1>3. Intent \in Intents /\ Intent.attempts \in Nat
  BY <1>0, <1>2, RowType DEF Intent
<1>4. ChainedPremise(Intent) \in Heads
  BY <1>0, <1>3, PremiseType
<1> DEFINE b == ChainedPremise(Intent)
           r == [Intent EXCEPT !.state = "in_flight", !.attempts = @ + 1, !.base = b]
<1>5. /\ r \in Intents /\ r.base = b /\ r.local = Intent.local /\ r.after = Intent.after
      /\ r.attempts = Intent.attempts + 1 /\ r.state = "in_flight" /\ r.version = Intent.version
  <2> DEFINE n == Intent.attempts + 1
             q == [Intent EXCEPT !.state = "in_flight", !.attempts = n, !.base = b]
  <2>1. b \in Heads /\ n \in Nat /\ "in_flight" \in IntentStates
    BY <1>3, <1>4 DEF IntentStates
  <2>2. r = q
    OBVIOUS
  <2> HIDE DEF b, n
  <2>3. /\ q \in Intents /\ q.base = b /\ q.local = Intent.local /\ q.after = Intent.after
        /\ q.attempts = n /\ q.state = "in_flight" /\ q.version = Intent.version
    BY <1>3, <2>1 DEF Intents
  <2> HIDE DEF q, r
  <2> QED
    BY <2>2, <2>3 DEF n
<1>6. journal' = Update(Current, r)
  BY DEF ClaimIntent
<1> DEFINE c == Current
<1>7. c \in DOMAIN journal /\ journal' = Update(c, r)
  BY <1>2, <1>6
<1>8. /\ DOMAIN journal' = DOMAIN journal /\ Reading(journal')
      /\ journal'[c] = r
      /\ \A j \in DOMAIN journal : j # c => journal'[j] = journal[j]
  <2> HIDE DEF r, c
  <2> QED
    BY <1>0, <1>5, <1>7, UpdateIs
<1>9. push'.pc \in {"send", "lookup"} /\ push'.queue = push.queue
  BY DEF ClaimIntent, BaseInv, TypeOK
<1> HIDE DEF r
<1> QED
  BY <1>1, <1>2, <1>5, <1>8, <1>9

LEMMA ClaimBase ==
    ASSUME BaseInv, ClaimIntent
    PROVE  BaseInv'
<1>0. /\ TypeOK /\ Reading(journal) /\ Recorded
      /\ minted' = minted /\ paused' = paused /\ base' = base
      /\ UNCHANGED <<doc, overtaken, task, sharedVars, envVars, reviews>>
  BY DEF BaseInv, TypeOK, ClaimIntent
<1>1. /\ Current \in DOMAIN journal /\ Current \in Ids
      /\ DOMAIN journal' = DOMAIN journal /\ Reading(journal')
      /\ \A i \in DOMAIN journal : i # Current => journal'[i] = journal[i]
      /\ journal'[Current].base = ChainedPremise(Intent)
      /\ journal'[Current].local = Intent.local /\ journal'[Current].after = Intent.after
      /\ journal'[Current].attempts = Intent.attempts + 1
      /\ journal'[Current].state = "in_flight"
      /\ push'.pc \in {"send", "lookup"} /\ push'.queue = push.queue
  BY ClaimIs
<1>2. /\ Intent = journal[Current] /\ Intent.attempts \in Nat /\ Intent \in Intents
      /\ Intent.attempts # 0 => ChainedPremise(Intent) = Intent.base
  <2>1. Intent = journal[Current] /\ Intent.attempts \in Nat /\ Intent \in Intents
    BY <1>0, <1>1, RowType DEF Intent
  <2> QED
    BY <1>0, <2>1, PremiseType
<1>3. \A i \in DOMAIN journal : KeptRow(i)
  <2>1. KeptRow(Current)
    BY <1>1, <1>2 DEF KeptRow
  <2>2. ASSUME NEW i \in DOMAIN journal, i # Current
        PROVE  KeptRow(i)
    <3>1. journal'[i] = journal[i] /\ journal[i].attempts \in Nat
      BY <1>0, <1>1, <2>2, RowType
    <3> QED
      BY <3>1 DEF KeptRow
  <2> QED
    BY <2>1, <2>2
<1>4. Turned
  BY <1>0, <1>1, <1>3 DEF Turned
<1>5. ASSUME NEW i \in DOMAIN journal
      PROVE  Honest(i)'
  <2>1. Honest(i) /\ recorded' = recorded /\ wire' = wire
    BY <1>0 DEF Recorded, sharedVars
  <2>2. CASE i # Current
    BY <1>1, <2>1, <2>2 DEF Honest
  <2>3. CASE i = Current
    <3>1. journal'[i].attempts # 0
      BY <1>1, <1>2, <2>3
    <3> QED
      BY <1>1, <1>2, <2>1, <2>3, <3>1 DEF Honest
  <2> QED
    BY <2>2, <2>3
<1>6. push' \in [pc : {"idle", "next", "send", "network", "admitted", "replied", "lookup"},
                 queue : SUBSET Ids, sent : 0 .. MaxSubmissions, unclear : BOOLEAN,
                 answer : Answers]
  BY <1>0 DEF TypeOK, ClaimIntent
<1>7. Claimed'
  <2>1. push'.queue # {} /\ Current' = Current
    BY <1>1 DEF ClaimIntent, Current
  <2>2. Has(Current)' /\ Intent' = journal'[Current]
    BY <1>1, <2>1 DEF Has, Intent
  <2> QED
    BY <1>1, <2>1, <2>2 DEF Claimed
<1>8. base' \in Served /\ paused' \in BOOLEAN
  BY <1>0 DEF Recorded, TypeOK
<1> QED
  BY <1>0, <1>4, <1>5, <1>6, <1>7, <1>8, TurnedBase

\* The answers settleIntent is called with.
Settling(a) ==
    /\ push.pc \notin {"idle", "next"} /\ a \in Answers
    /\ a.kind \in {"committed", "conflict", "refused", "denied", "unknown"}
    /\ a.kind \in {"committed", "conflict", "refused"} => a = recorded[Current]

\* What settleIntent does.
LEMMA SettleIs ==
    ASSUME BaseInv, NEW a, NEW pauses, Settling(a), Settle(a, pauses)
    PROVE  /\ Current \in DOMAIN journal /\ Current \in Ids /\ Intent.state = "in_flight"
           /\ Intent.attempts # 0
           /\ DOMAIN journal' = DOMAIN journal /\ Reading(journal')
           /\ \A i \in DOMAIN journal : i # Current => journal'[i] = journal[i]
           /\ journal'[Current].base = Intent.base
           /\ journal'[Current].local = Intent.local /\ journal'[Current].after = Intent.after
           /\ Intent.attempts <= journal'[Current].attempts
           /\ journal'[Current].state \in {"acknowledged", "pending", "conflict", "refused", "denied"}
           /\ journal'[Current].state \in {"conflict", "refused"} =>
                 recorded[Current].kind = journal'[Current].state
           /\ journal'[Current].state = "denied" => a.kind = "denied"
           /\ IF journal'[Current].state = "acknowledged"
              THEN /\ recorded[Current] # NoAnswer
                   /\ recorded[Current].kind \in {"committed", "conflict"}
                   /\ recorded[Current].version = Stored(Intent.local)
                   /\ journal'[Current].version = Stored(Intent.local) /\ base' = Stored(Intent.local)
              ELSE /\ recorded[Current].kind = "committed" => a.kind \in {"denied", "unknown"}
                   /\ journal'[Current].version = Intent.version /\ base' = base
           /\ a.kind = "unknown" => journal'[Current].state = "pending"
<1>0. /\ Reading(journal) /\ push.queue \subseteq Ids /\ push.sent \in Nat
      /\ \A i \in Ids : \/ recorded[i] = NoAnswer
                        \/ recorded[i].kind \in {"committed", "refused"}
                        \/ recorded[i].kind = "conflict" /\ recorded[i].version \in Served
      /\ \A i \in DOMAIN journal : Honest(i)
  BY DEF BaseInv, TypeOK, Recorded
<1>1. Current \in DOMAIN journal /\ Current \in Ids /\ Intent.state = "in_flight"
  BY <1>0, CurrentIs DEF BaseInv, Claimed, Has, Settling
<1>2. Intent = journal[Current] /\ Intent \in Intents /\ Intent.attempts \in Nat /\ Intent.local \in Heads
      /\ Intent.version \in Heads /\ Intent.state \in IntentStates
  BY <1>0, <1>1, RowType DEF Intent
<1>3. Intent.attempts # 0 /\ (recorded[Current].kind = "committed" =>
                                 recorded[Current].version = Stored(Intent.local))
  BY <1>0, <1>1, <1>2 DEF Honest
<1> DEFINE settled == IF a.kind = "conflict" /\ a.version # Absent /\ a.version = Intent.local
                      THEN Answer("committed", a.version) ELSE a
           state == CASE settled.kind = "committed" -> "acknowledged"
                      [] settled.kind = "unknown" -> "pending"
                      [] OTHER -> settled.kind
           attempts == IF push.sent > 1 THEN Intent.attempts + push.sent - 1 ELSE Intent.attempts
           version == IF state = "acknowledged" THEN settled.version ELSE Intent.version
<1>4. /\ state \in {"acknowledged", "pending", "conflict", "refused", "denied"}
      /\ settled.version \in Heads
      /\ state \in {"conflict", "refused"} => a.kind = state
      /\ state = "denied" => a.kind = "denied"
      /\ a.kind = "unknown" => state = "pending"
      /\ state = "acknowledged" => /\ a.kind \in {"committed", "conflict"}
                                   /\ settled.version = a.version
                                   /\ a.kind = "conflict" => a.version = Intent.local
      /\ state # "acknowledged" => a.kind # "committed"
  BY DEF Settling, Answers, Answer
<1>5. attempts \in Nat /\ Intent.attempts <= attempts
  BY <1>0, <1>2
<1>6. state = "acknowledged" =>
         /\ a = recorded[Current] /\ recorded[Current] # NoAnswer
         /\ recorded[Current].kind \in {"committed", "conflict"}
         /\ recorded[Current].version = Stored(Intent.local)
         /\ settled.version = Stored(Intent.local)
  <2> HIDE DEF state, settled
  <2> SUFFICES ASSUME state = "acknowledged"
               PROVE  /\ a = recorded[Current] /\ recorded[Current] # NoAnswer
                      /\ recorded[Current].kind \in {"committed", "conflict"}
                      /\ recorded[Current].version = Stored(Intent.local)
                      /\ settled.version = Stored(Intent.local)
    OBVIOUS
  <2>1. a = recorded[Current] /\ a.kind \in {"committed", "conflict"} /\ settled.version = a.version
        /\ (a.kind = "conflict" => a.version = Intent.local)
    BY <1>4 DEF Settling
  <2>2. recorded[Current] # NoAnswer
    BY <2>1, IdlePushType
  <2>3. CASE a.kind = "committed"
    BY <1>3, <2>1, <2>2, <2>3
  <2>4. CASE a.kind = "conflict"
    <3>1. recorded[Current].version \in Served
      BY <1>0, <1>1, <2>1, <2>2, <2>4
    <3>2. Stored(a.version) = a.version
      BY <2>1, <3>1, ServedIsStored
    <3> QED
      BY <2>1, <2>2, <2>4, <3>2
  <2> QED
    BY <2>1, <2>3, <2>4
<1> DEFINE r == [Intent EXCEPT !.state = state, !.attempts = attempts, !.version = version]
<1>7. journal' = Update(Current, r) /\ base' = IF state = "acknowledged" THEN settled.version ELSE base
  BY DEF Settle
<1>8. /\ r \in Intents /\ r.base = Intent.base /\ r.local = Intent.local /\ r.after = Intent.after
      /\ r.attempts = attempts /\ r.state = state /\ r.version = version
  <2>1. version \in Heads /\ state \in IntentStates
    <3> HIDE DEF settled, state
    <3> QED
      BY <1>2, <1>4 DEF IntentStates
  <2> HIDE DEF version, state, attempts
  <2> QED
    BY <1>2, <1>5, <2>1 DEF Intents
<1> DEFINE c == Current
<1>9. c \in DOMAIN journal /\ journal' = Update(c, r)
  BY <1>1, <1>7
<1>10. /\ DOMAIN journal' = DOMAIN journal /\ Reading(journal')
       /\ journal'[c] = r
       /\ \A j \in DOMAIN journal : j # c => journal'[j] = journal[j]
  <2> HIDE DEF r, c
  <2> QED
    BY <1>0, <1>8, <1>9, UpdateIs
<1>11. a.kind \in {"committed", "conflict", "refused"} => a = recorded[Current]
  BY DEF Settling
<1>12. a.kind \in {"committed", "conflict", "refused", "denied", "unknown"}
  BY DEF Settling
<1> HIDE DEF r, state, settled, attempts
<1>13. IF state = "acknowledged"
       THEN version = Stored(Intent.local) /\ base' = Stored(Intent.local)
       ELSE version = Intent.version /\ base' = base
  BY <1>6, <1>7
<1>14. state # "acknowledged" =>
          (recorded[Current].kind = "committed" => a.kind \in {"denied", "unknown"})
  BY <1>4, <1>11, <1>12
<1> HIDE DEF version
<1> QED
  BY <1>1, <1>3, <1>4, <1>5, <1>6, <1>8, <1>10, <1>11, <1>13, <1>14

LEMMA SettleBase ==
    ASSUME BaseInv, NEW a, NEW pauses \in BOOLEAN, Settling(a), Settle(a, pauses), UNCHANGED sharedVars
    PROVE  BaseInv'
<1>0. /\ TypeOK /\ Reading(journal) /\ Recorded
      /\ minted' = minted /\ paused' \in BOOLEAN
      /\ UNCHANGED <<doc, overtaken, task, sharedVars, envVars, reviews>>
  BY DEF BaseInv, TypeOK, Settle
<1>1. /\ Current \in DOMAIN journal /\ Current \in Ids /\ Intent.state = "in_flight"
      /\ Intent.attempts # 0
      /\ DOMAIN journal' = DOMAIN journal /\ Reading(journal')
      /\ \A i \in DOMAIN journal : i # Current => journal'[i] = journal[i]
      /\ journal'[Current].base = Intent.base
      /\ journal'[Current].local = Intent.local /\ journal'[Current].after = Intent.after
      /\ Intent.attempts <= journal'[Current].attempts
      /\ journal'[Current].state \in {"acknowledged", "pending", "conflict", "refused", "denied"}
      /\ journal'[Current].state \in {"conflict", "refused"} =>
            recorded[Current].kind = journal'[Current].state
      /\ IF journal'[Current].state = "acknowledged"
         THEN /\ recorded[Current] # NoAnswer
              /\ journal'[Current].version = Stored(Intent.local) /\ base' = Stored(Intent.local)
         ELSE base' = base
  BY SettleIs
<1>2. /\ Intent = journal[Current] /\ Intent.attempts \in Nat /\ Intent.local \in Heads
      /\ journal'[Current].attempts \in Nat
  BY <1>0, <1>1, RowType DEF Intent
<1>3. \A i \in DOMAIN journal : KeptRow(i)
  <2>1. KeptRow(Current)
    BY <1>1, <1>2 DEF KeptRow
  <2>2. ASSUME NEW i \in DOMAIN journal, i # Current
        PROVE  KeptRow(i)
    <3>1. journal'[i] = journal[i] /\ journal[i].attempts \in Nat
      BY <1>0, <1>1, <2>2, RowType
    <3> QED
      BY <3>1 DEF KeptRow
  <2> QED
    BY <2>1, <2>2
<1>4. Turned
  BY <1>0, <1>1, <1>3 DEF Turned
<1>5. ASSUME NEW i \in DOMAIN journal
      PROVE  Honest(i)'
  <2>1. Honest(i) /\ recorded' = recorded /\ wire' = wire
    BY <1>0 DEF Recorded, sharedVars
  <2>2. CASE i # Current
    BY <1>1, <2>1, <2>2 DEF Honest
  <2>3. CASE i = Current
    <3>1. journal'[i].attempts # 0
      BY <1>1, <1>2, <2>3
    <3> QED
      BY <1>1, <1>2, <2>1, <2>3, <3>1 DEF Honest
  <2> QED
    BY <2>2, <2>3
<1>6. push' \in [pc : {"idle", "next", "send", "network", "admitted", "replied", "lookup"},
                 queue : SUBSET Ids, sent : 0 .. MaxSubmissions, unclear : BOOLEAN,
                 answer : Answers] /\ push'.pc \in {"idle", "next"}
  <2>1. push' = IdlePush \/ push' = Following
    BY DEF Settle
  <2> QED
    BY <1>0, <2>1, IdlePushType, FollowingType DEF IdlePush
<1>7. Claimed'
  BY <1>6 DEF Claimed
<1>8. base' \in Served
  BY <1>0, <1>1, <1>2, StoredTwice DEF Recorded
<1> QED
  BY <1>0, <1>4, <1>5, <1>6, <1>7, <1>8, TurnedBase

LEMMA UnknownSettles ==
    ASSUME push.pc \notin {"idle", "next"}
    PROVE  Settling(Answer("unknown", Absent))
BY DEF Settling, Answer, Answers, Heads

\* Rows that change their state or the count of their attempts only.
LEMMA ResumeBase ==
    ASSUME BaseInv, Resume
    PROVE  BaseInv'
<1>0. /\ TypeOK /\ Reading(journal) /\ Recorded
      /\ minted' = minted /\ paused' \in BOOLEAN /\ base' = base /\ push' = push
      /\ UNCHANGED <<doc, overtaken, task, sharedVars, envVars, reviews>>
  BY DEF BaseInv, TypeOK, Resume
<1>1. /\ DOMAIN journal' = DOMAIN journal
      /\ journal' = [i \in DOMAIN journal |->
            IF journal[i].state = "denied" THEN [journal[i] EXCEPT !.state = "pending"] ELSE journal[i]]
  BY DEF Resume
<1>2. ASSUME NEW i \in DOMAIN journal
      PROVE  /\ journal'[i] \in Intents /\ KeptRow(i)
             /\ journal'[i].attempts = journal[i].attempts
             /\ journal'[i].version = journal[i].version
             /\ IF journal[i].state = "denied" THEN journal'[i].state = "pending"
                ELSE journal'[i] = journal[i]
  <2>1. journal[i] \in Intents /\ journal[i].attempts \in Nat
    BY <1>0, RowType
  <2> QED
    BY <1>1, <2>1 DEF Intents, IntentStates, KeptRow
<1>3. Reading(journal')
  BY <1>0, <1>1, <1>2 DEF Reading
<1>4. Turned
  BY <1>0, <1>1, <1>2, <1>3 DEF Turned
<1>5. ASSUME NEW i \in DOMAIN journal
      PROVE  Honest(i)'
  <2>1. Honest(i) /\ recorded' = recorded /\ wire' = wire
    BY <1>0 DEF Recorded, sharedVars
  <2> QED
    BY <1>2, <2>1 DEF Honest, KeptRow
<1>6. Claimed'
  <2> SUFFICES ASSUME push.pc \notin {"idle", "next"} PROVE Claimed'
    BY <1>0 DEF Claimed
  <2>1. /\ push.queue # {} /\ Current \in DOMAIN journal /\ journal[Current].state = "in_flight"
        /\ push.pc = "replied" =>
              push.answer.kind = "denied" \/ (push.answer = recorded[Current] /\ push.answer # NoAnswer)
    BY DEF BaseInv, Claimed, Has, Intent
  <2>2. Current' = Current /\ journal'[Current] = journal[Current]
    BY <1>0, <1>2, <2>1 DEF Current
  <2> QED
    BY <1>0, <1>1, <2>1, <2>2 DEF Claimed, Has, Intent, sharedVars
<1>7. base' \in Served
  BY <1>0 DEF Recorded
<1> QED
  BY <1>0, <1>4, <1>5, <1>6, <1>7, TurnedBase DEF TypeOK

LEMMA ReclaimBase ==
    ASSUME BaseInv, ReclaimInFlight
    PROVE  BaseInv'
<1>0. /\ TypeOK /\ Reading(journal) /\ Recorded
      /\ minted' = minted /\ paused' \in BOOLEAN /\ base' = base /\ push' = push
      /\ push.pc = "idle"
      /\ UNCHANGED <<doc, overtaken, task, sharedVars, envVars, reviews>>
  BY DEF BaseInv, TypeOK, ReclaimInFlight
<1>1. /\ DOMAIN journal' = DOMAIN journal
      /\ journal' = [i \in DOMAIN journal |->
            IF journal[i].state # "in_flight" THEN journal[i]
            ELSE [journal[i] EXCEPT !.state = "pending", !.attempts = IF @ = 0 THEN 1 ELSE @]]
  BY DEF ReclaimInFlight
<1>2. ASSUME NEW i \in DOMAIN journal
      PROVE  /\ journal'[i] \in Intents /\ KeptRow(i) /\ Honest(i)'
  <2>1. journal[i] \in Intents /\ journal[i].attempts \in Nat
    BY <1>0, RowType
  <2>2. Honest(i) /\ recorded' = recorded /\ wire' = wire
    BY <1>0 DEF Recorded, sharedVars
  <2>3. CASE journal[i].state # "in_flight"
    <3>1. journal'[i] = journal[i]
      BY <1>1, <2>3
    <3> QED
      BY <2>1, <2>2, <3>1 DEF KeptRow, Honest
  <2>4. CASE journal[i].state = "in_flight"
    <3>1. journal[i].attempts # 0
      BY <2>2, <2>4 DEF Honest
    <3>2. journal'[i] = [journal[i] EXCEPT !.state = "pending", !.attempts = journal[i].attempts]
      BY <1>1, <2>4, <3>1
    <3>3. /\ journal'[i] \in Intents /\ journal'[i].attempts = journal[i].attempts
          /\ journal'[i].state = "pending" /\ journal'[i].local = journal[i].local
          /\ journal'[i].base = journal[i].base /\ journal'[i].after = journal[i].after
      BY <2>1, <3>2 DEF Intents, IntentStates
    <3> QED
      BY <2>1, <2>2, <2>4, <3>1, <3>3 DEF KeptRow, Honest
  <2> QED
    BY <2>3, <2>4
<1>3. Reading(journal')
  BY <1>0, <1>1, <1>2 DEF Reading
<1>4. Turned
  BY <1>0, <1>1, <1>2, <1>3 DEF Turned
<1>5. Claimed'
  BY <1>0 DEF Claimed
<1>6. base' \in Served
  BY <1>0 DEF Recorded
<1> QED
  BY <1>0, <1>2, <1>4, <1>5, <1>6, TurnedBase DEF TypeOK

-----------------------------------------------------------------------------
(* BaseInv: the run of push and the authority *)

Pushes == [pc : {"idle", "next", "send", "network", "admitted", "replied", "lookup"},
           queue : SUBSET Ids, sent : 0 .. MaxSubmissions, unclear : BOOLEAN, answer : Answers]

\* Only the run of push moves on.
LEMMA PushStepBase ==
    ASSUME BaseInv, UNCHANGED <<localVars, task, sharedVars, envVars, reviews>>,
           push' \in Pushes, Claimed'
    PROVE  BaseInv'
<1>1. TypeOK'
  BY DEF BaseInv, TypeOK, Pushes, localVars, sharedVars, envVars, Reading
<1>2. Numbered'
  BY DEF BaseInv, Numbered, localVars, sharedVars
<1>3. Recorded'
  BY DEF BaseInv, Recorded, Honest, Has, localVars, sharedVars
<1>4. Carried'
  BY DEF BaseInv, Carried, Composed, Reviewed, AsRead, Has, localVars
<1> QED
  BY <1>1, <1>2, <1>3, <1>4 DEF BaseInv

LEMMA QueueBase ==
    ASSUME BaseInv, BeginPush \/ EndPush \/ Skip
    PROVE  BaseInv'
<1>0. UNCHANGED <<localVars, task, sharedVars, envVars, reviews>>
  BY DEF BeginPush, EndPush, Skip
<1>1. push' \in Pushes /\ push'.pc \in {"idle", "next"}
  <2>1. CASE BeginPush
    <3>1. {i \in DOMAIN journal : journal[i].state = "pending"} \subseteq Ids
      BY DEF BaseInv, TypeOK, Reading
    <3> QED
      BY <2>1, <3>1, IdlePushType DEF BeginPush, Pushes, IdlePush
  <2>2. CASE EndPush
    BY <2>2, IdlePushType DEF EndPush, Pushes, IdlePush
  <2>3. CASE Skip
    BY <2>3, FollowingType DEF Skip, Pushes, BaseInv
  <2> QED
    BY <2>1, <2>2, <2>3
<1>2. Claimed'
  BY <1>1 DEF Claimed
<1> QED
  BY <1>0, <1>1, <1>2, PushStepBase

\* A delivery goes on.
LEMMA OnwardBase ==
    ASSUME BaseInv, UNCHANGED <<localVars, task, sharedVars, envVars, reviews>>,
           push.pc \notin {"idle", "next"}, push' \in Pushes, push'.queue = push.queue,
           push'.pc = "replied" => push'.answer.kind = "denied"
    PROVE  BaseInv'
<1>1. Claimed'
  <2>1. /\ push.queue # {} /\ Current \in DOMAIN journal /\ journal[Current].state = "in_flight"
    BY DEF BaseInv, Claimed, Has, Intent
  <2>2. Current' = Current /\ journal' = journal
    BY DEF Current, localVars
  <2> QED
    BY <2>1, <2>2 DEF Claimed, Has, Intent
<1> QED
  BY <1>1, PushStepBase

LEMMA SendBase ==
    ASSUME BaseInv, Send
    PROVE  BaseInv'
<1>0. push.pc = "send" /\ push \in Pushes /\ UNCHANGED sharedVars
  BY DEF Send, BaseInv, TypeOK, Pushes
<1>1. CASE push.sent < MaxSubmissions
  <2>1. push' = [push EXCEPT !.pc = "network", !.sent = @ + 1]
        /\ UNCHANGED <<localVars, task, envVars, reviews>>
    BY <1>1 DEF Send
  <2>2. push.sent + 1 \in 0 .. MaxSubmissions
    BY <1>0, <1>1, JournalAssumption DEF Pushes
  <2>3. push' \in Pushes /\ push'.queue = push.queue /\ push'.pc = "network"
    BY <1>0, <2>1, <2>2 DEF Pushes
  <2> QED
    BY <1>0, <2>1, <2>3, OnwardBase
<1>2. CASE ~ (push.sent < MaxSubmissions)
  <2> DEFINE a == Answer("unknown", Absent)
  <2>1. Settle(a, FALSE) /\ Settling(a)
    BY <1>0, <1>2, UnknownSettles DEF Send
  <2> HIDE DEF a
  <2> QED
    BY <1>0, <2>1, SettleBase
<1> QED
  BY <1>1, <1>2

LEMMA ArriveBase ==
    ASSUME BaseInv, Arrive
    PROVE  BaseInv'
<1>0. push.pc = "network" /\ push \in Pushes
      /\ UNCHANGED <<localVars, task, sharedVars, envVars, reviews>>
  BY DEF Arrive, BaseInv, TypeOK, Pushes
<1>1. /\ push' \in Pushes /\ push'.queue = push.queue
      /\ push'.pc = "replied" => push'.answer.kind = "denied"
  <2>1. Answer("denied", Absent) \in Answers /\ Answer("denied", Absent).kind = "denied"
    BY DEF Answer, Answers, Heads
  <2>2. CASE access
    BY <1>0, <2>2 DEF Arrive, Pushes
  <2>3. CASE ~access
    <3> DEFINE a == Answer("denied", Absent)
    <3>1. push' = [push EXCEPT !.pc = "replied", !.answer = a]
      BY <2>3 DEF Arrive
    <3>2. a \in Answers /\ a.kind = "denied"
      BY <2>1
    <3> HIDE DEF a
    <3> QED
      BY <1>0, <3>1, <3>2 DEF Pushes
  <2> QED
    BY <2>2, <2>3
<1> QED
  BY <1>0, <1>1, OnwardBase

LEMMA ReceiveBase ==
    ASSUME BaseInv, Receive
    PROVE  BaseInv'
<1> DEFINE denied == push.answer.kind = "denied"
           a == IF push.unclear /\ denied THEN Answer("unknown", Absent) ELSE push.answer
<1>0. push.pc = "replied" /\ push.answer \in Answers /\ UNCHANGED sharedVars
  BY DEF Receive, BaseInv, TypeOK
<1>1. denied \/ (push.answer = recorded[Current] /\ push.answer # NoAnswer /\ Current \in Ids)
  BY <1>0, CurrentIs DEF BaseInv, Claimed, TypeOK
<1>2. denied \/ push.answer.kind \in {"committed", "conflict", "refused"}
  BY <1>1 DEF BaseInv, Recorded
<1>3. Settling(a)
  <2>1. CASE push.unclear /\ denied
    BY <1>0, <2>1, UnknownSettles
  <2>2. CASE ~ (push.unclear /\ denied)
    BY <1>0, <1>1, <1>2, <2>2 DEF Settling
  <2> QED
    BY <2>1, <2>2
<1>4. Settle(a, denied) /\ denied \in BOOLEAN
  BY DEF Receive
<1> HIDE DEF a, denied
<1> QED
  BY <1>0, <1>3, <1>4, SettleBase

LEMMA LookupBase ==
    ASSUME BaseInv, Lookup
    PROVE  BaseInv'
<1>0. push.pc = "lookup" /\ push \in Pushes /\ UNCHANGED sharedVars /\ Current \in Ids
  BY CurrentIs DEF Lookup, BaseInv, TypeOK, Pushes, Claimed
<1>1. CASE recorded[Current] # NoAnswer
  <2> DEFINE a == recorded[Current]
  <2>1. Settle(a, FALSE)
    BY <1>1 DEF Lookup
  <2>2. a \in Answers /\ a.kind \in {"committed", "conflict", "refused"}
    BY <1>0, <1>1 DEF BaseInv, TypeOK, Recorded
  <2>3. Settling(a)
    BY <1>0, <2>2 DEF Settling
  <2> HIDE DEF a
  <2> QED
    BY <1>0, <2>1, <2>3, SettleBase
<1>2. CASE recorded[Current] = NoAnswer
  <2>1. push' = [push EXCEPT !.pc = "send"] /\ UNCHANGED <<localVars, task, envVars, reviews>>
    BY <1>2 DEF Lookup
  <2>2. push' \in Pushes /\ push'.queue = push.queue /\ push'.pc = "send"
    BY <1>0, <2>1 DEF Pushes
  <2> QED
    BY <1>0, <2>1, <2>2, OnwardBase
<1> QED
  BY <1>1, <1>2

LEMMA LookupFailsBase ==
    ASSUME BaseInv, LookupFails
    PROVE  BaseInv'
<1> DEFINE a == Answer("unknown", Absent)
<1>1. Settle(a, FALSE) /\ Settling(a) /\ UNCHANGED sharedVars
  BY UnknownSettles DEF LookupFails
<1> HIDE DEF a
<1> QED
  BY <1>1, SettleBase

LEMMA FoldIs ==
    ASSUME BaseInv, Fold
    PROVE  LET plan == SupersedingIntent(journal[Intent.after], doc)
           IN  /\ Enterable(plan) /\ Entered(Unsettled, plan) /\ doc' = doc
               /\ Reading(journal') /\ minted' \in 0 .. MaxIds
               /\ push.pc = "next" /\ push' \in Pushes /\ push'.pc = "next"
               /\ Intent.attempts = 0 /\ Intent.local = doc /\ Intent.after < Current
               /\ Unsettled = {Intent.after, Current}
               /\ Intent.after \in DOMAIN journal /\ Current \in DOMAIN journal
               /\ journal[Intent.after].state = "refused" /\ Intent.state = "pending"
<1> DEFINE r == journal[Intent.after]
           plan == SupersedingIntent(r, doc)
<1>0. /\ TypeOK /\ Numbered /\ Reading(journal) /\ doc \in Heads /\ push \in Pushes
      /\ minted \in Nat /\ push.pc = "next"
  BY DEF BaseInv, TypeOK, Pushes, Fold
<1>1. /\ Due /\ Folds /\ push.queue # {}
      /\ Journaled(Unsettled, plan, doc)
      /\ push' = IF plan = NoPlan THEN Following
                 ELSE [Following EXCEPT !.queue = @ \union {minted + 1}]
  BY DEF Fold
<1>2. /\ Intent.attempts = 0 /\ Intent.local = doc /\ Intent.after < Current
      /\ Unsettled = {Intent.after, Current} /\ r.state = "refused"
      /\ Intent.state = "pending"
  BY <1>1 DEF Folds, Due
<1>3. Intent.after \in DOMAIN journal /\ Current \in DOMAIN journal
  BY <1>0, <1>2, UnsettledIs
<1>4. r \in Intents /\ r.after \in Nat /\ Intent.after \in Nat
  BY <1>0, <1>3, RowType DEF Intent
<1>5. /\ plan \in Plans
      /\ plan # NoPlan => plan.after = r.after
  <2> HIDE DEF r
  <2> QED
    BY <1>0, <1>4, SupersedingIs
<1>6. r.after < Intent.after /\ Intent.after <= minted
  BY <1>0, <1>3 DEF Numbered
<1>7. Enterable(plan)
  <2> HIDE DEF plan, r
  <2> QED
    BY <1>0, <1>4, <1>5, <1>6 DEF Enterable
<1> DEFINE gone == Unsettled
<1>8. Entered(gone, plan) /\ doc' = doc /\ Reading(journal') /\ minted' \in 0 .. MaxIds
  <2>1. Journaled(gone, plan, doc)
    BY <1>1
  <2> DEFINE c == doc
  <2>2. Journaled(gone, plan, c)
    BY <2>1
  <2> HIDE DEF plan, gone, c
  <2>3. Entered(gone, plan) /\ doc' = c /\ Reading(journal') /\ minted' \in 0 .. MaxIds
    BY <1>0, <1>7, <2>2, JournaledIs
  <2> QED
    BY <2>3 DEF c
<1>9. push' \in Pushes /\ push'.pc = "next"
  <2>1. Following \in Pushes /\ Following.pc = "next"
    BY <1>0, FollowingType DEF Pushes
  <2>2. plan # NoPlan => minted + 1 \in Ids
    BY <1>8 DEF Entered
  <2> HIDE DEF plan
  <2> QED
    BY <1>1, <2>1, <2>2 DEF Pushes
<1> QED
  BY <1>0, <1>2, <1>3, <1>7, <1>8, <1>9

LEMMA FoldBase ==
    ASSUME BaseInv, Fold
    PROVE  BaseInv'
<1> DEFINE plan == SupersedingIntent(journal[Intent.after], doc)
           gone == Unsettled
<1>0. TypeOK /\ Numbered /\ Recorded /\ Carried
      /\ UNCHANGED sharedVars /\ base' = base
      /\ UNCHANGED <<paused, overtaken, task, envVars, reviews>>
  BY DEF BaseInv, Fold
<1>1. /\ Enterable(plan) /\ Entered(gone, plan) /\ doc' = doc
      /\ Reading(journal') /\ minted' \in 0 .. MaxIds
      /\ push' \in Pushes /\ push'.pc = "next"
  BY FoldIs
<1>2. base' \in Served /\ minted' \in Nat
  BY <1>0, <1>1 DEF Recorded
<1> HIDE DEF plan, gone
<1>3. /\ Recorded'
      /\ \A i \in DOMAIN journal' : i <= minted' /\ journal'[i].after < i
      /\ \A i \in Ids : i > minted' => recorded'[i] = NoAnswer
      /\ \A d \in wire' : d.id <= minted'
  BY <1>0, <1>1, <1>2, EnteredBase
<1>4. Steady /\ minted <= minted'
  BY <1>0, <1>1, EnteredSteady
<1>5. TasksKept
  BY <1>0, TasksUnchanged
<1>6. /\ task' = [t \in Tasks |-> task'[t]] /\ \A t \in Tasks : TaskOK(task'[t])
      /\ \A t \in Tasks : task'[t].pc = "write" =>
            /\ \A i \in DOMAIN task'[t].supersede : i <= minted'
            /\ task'[t].plan # NoPlan => task'[t].plan.after <= minted'
      /\ Carried'
  BY <1>0, <1>1, <1>2, <1>4, <1>5, TasksKeptCarry
<1>7. TypeOK'
  BY <1>0, <1>1, <1>6 DEF TypeOK, sharedVars, envVars, Reading, Pushes
<1>8. Numbered'
  BY <1>3, <1>6 DEF Numbered
<1>9. Claimed'
  BY <1>1 DEF Claimed
<1> QED
  BY <1>3, <1>6, <1>7, <1>8, <1>9 DEF BaseInv

-----------------------------------------------------------------------------
(* BaseInv: the authority and the wire *)

\* What the authority does with a request.
LEMMA ExecutionIs ==
    ASSUME TypeOK, NEW i \in Ids, NEW r, r.base \in Heads, r.local \in Heads,
           NEW refuse \in BOOLEAN, Execution(i, r, refuse)
    PROVE  \/ recorded[i] # NoAnswer /\ UNCHANGED <<recorded, head, wire, faults>>
           \/ /\ recorded[i] = NoAnswer /\ recorded'[i] \in Answers
              /\ recorded' = [recorded EXCEPT ![i] = recorded'[i]]
              /\ wire' = {d \in wire : d.id # i} /\ faults' \in Nat
              /\ \/ recorded'[i].kind = "refused" /\ head' = head
                 \/ /\ recorded'[i].kind = "committed" /\ recorded'[i].version = Stored(r.local)
                    /\ head' = Stored(r.local)
                 \/ /\ recorded'[i].kind = "conflict" /\ recorded'[i].version = head
                    /\ head' = head /\ r.base # head
<1> DEFINE answer == IF refuse THEN Answer("refused", Absent)
                     ELSE IF r.base = head \/ (r.local = Absent /\ head = Absent)
                     THEN Answer("committed", Stored(r.local))
                     ELSE Answer("conflict", head)
<1>1. CASE recorded[i] # NoAnswer
  BY <1>1 DEF Execution
<1>2. CASE recorded[i] = NoAnswer
  <2>1. /\ faults' = IF refuse THEN faults + 1 ELSE faults
        /\ recorded' = [recorded EXCEPT ![i] = answer]
        /\ head' = IF answer.kind = "committed" THEN answer.version ELSE head
        /\ wire' = {d \in wire : d.id # i}
    BY <1>2 DEF Execution
  <2>2. /\ answer \in Answers
        /\ \/ answer.kind = "refused"
           \/ answer.kind = "committed" /\ answer.version = Stored(r.local)
           \/ answer.kind = "conflict" /\ answer.version = head /\ r.base # head
    <3>1. head \in Heads /\ Absent \in Heads /\ Stored(r.local) \in Heads
      BY StoredTwice DEF TypeOK, Heads
    <3> QED
      BY <3>1 DEF Answer, Answers
  <2> HIDE DEF answer
  <2>3. recorded'[i] = answer
    BY <2>1 DEF TypeOK
  <2>4. faults' \in Nat
    BY <2>1 DEF TypeOK
  <2> QED
    BY <1>2, <2>1, <2>2, <2>3, <2>4
<1> QED
  BY <1>1, <1>2

\* A request runs at the authority.
LEMMA ExecutionBase ==
    ASSUME BaseInv, NEW i \in Ids, NEW r, r.base \in Heads, r.local \in Heads,
           NEW refuse \in BOOLEAN, Execution(i, r, refuse),
           i <= minted,
           i \in DOMAIN journal => journal[i].attempts # 0 /\ r.local = journal[i].local,
           UNCHANGED <<localVars, task, access, flips, foreign, reviews>>
    PROVE  /\ TypeOK' <=> push' \in Pushes
           /\ Numbered' /\ Recorded' /\ Carried' /\ recorded'[i] # NoAnswer
<1>0. /\ TypeOK /\ Numbered /\ Recorded /\ Carried /\ Reading(journal)
      /\ recorded \in [Ids -> Answers] /\ NoAnswer.kind = "none" /\ head \in Served
      /\ minted \in Nat
  BY IdlePushType DEF BaseInv, TypeOK, Recorded
<1>1. \/ recorded[i] # NoAnswer /\ UNCHANGED <<recorded, head, wire, faults>>
      \/ /\ recorded[i] = NoAnswer /\ recorded'[i] \in Answers
         /\ recorded' = [recorded EXCEPT ![i] = recorded'[i]]
         /\ wire' = {d \in wire : d.id # i} /\ faults' \in Nat
         /\ \/ recorded'[i].kind = "refused" /\ head' = head
            \/ /\ recorded'[i].kind = "committed" /\ recorded'[i].version = Stored(r.local)
               /\ head' = Stored(r.local)
            \/ /\ recorded'[i].kind = "conflict" /\ recorded'[i].version = head
               /\ head' = head
  BY <1>0, ExecutionIs
<1>2. \A j \in Ids : j # i => recorded'[j] = recorded[j]
  BY <1>0, <1>1
<1>3. /\ wire' \subseteq wire /\ recorded' \in [Ids -> Answers] /\ faults' \in Nat
      /\ recorded'[i] # NoAnswer /\ head' \in Served /\ head' \in Heads
      /\ recorded'[i] # recorded[i] => \A d \in wire' : d.id # i
  BY <1>0, <1>1, StoredTwice, ServedIsStored DEF TypeOK
<1>4. TypeOK' <=> push' \in Pushes
  BY <1>0, <1>3 DEF TypeOK, Pushes, localVars, Reading
<1>5. Carried'
  BY <1>0 DEF Carried, Composed, Reviewed, AsRead, Has, localVars
<1>6. Numbered'
  <2>1. \A j \in Ids : j > minted' => recorded'[j] = NoAnswer
    <3>1. ASSUME NEW j \in Ids, j > minted' PROVE recorded'[j] = NoAnswer
      <4>1. j # i
        BY <1>0, <3>1 DEF Ids, localVars
      <4> QED
        BY <1>0, <1>2, <3>1, <4>1 DEF Numbered, localVars
    <3> QED
      BY <3>1
  <2> QED
    BY <1>0, <1>3, <2>1 DEF Numbered, localVars
<1>7. ASSUME NEW j \in DOMAIN journal
      PROVE  Honest(j)'
  <2>1. Honest(j) /\ j \in Ids
    BY <1>0, RowType DEF Recorded
  <2>2. CASE j # i
    BY <1>2, <1>3, <2>1, <2>2 DEF Honest, localVars
  <2>3. CASE j = i
    <3>1. CASE recorded[i] # NoAnswer /\ UNCHANGED <<recorded, head, wire, faults>>
      BY <2>1, <3>1 DEF Honest, localVars
    <3>2. CASE recorded[i] = NoAnswer
      <4>1. journal[j].attempts # 0 /\ r.local = journal[j].local
        BY <2>3
      <4>2. journal[j].state \notin {"refused", "conflict", "acknowledged"}
        BY <1>0, <2>1, <2>3, <3>2 DEF Honest
      <4>3. recorded'[j].kind = "committed" => recorded'[j].version = Stored(journal[j].local)
        BY <1>1, <2>3, <3>2, <4>1
      <4> QED
        BY <4>1, <4>2, <4>3 DEF Honest, localVars
    <3> QED
      BY <1>1, <3>1, <3>2
  <2> QED
    BY <2>2, <2>3
<1>8. ASSUME NEW d \in wire'
      PROVE  /\ recorded'[d.id] = NoAnswer
             /\ Has(d.id)' => d.base = journal'[d.id].base /\ d.local = journal'[d.id].local
  <2>1. d \in wire /\ d.id \in Ids
    BY <1>0, <1>3 DEF TypeOK
  <2>2. /\ recorded[d.id] = NoAnswer
        /\ Has(d.id) => d.base = journal[d.id].base /\ d.local = journal[d.id].local
    BY <1>0, <2>1 DEF Recorded
  <2>3. recorded'[d.id] = recorded[d.id]
    BY <1>2, <1>3, <1>8, <2>1
  <2> QED
    BY <2>2, <2>3 DEF Has, localVars
<1>9. ASSUME NEW j \in Ids
      PROVE  \/ recorded'[j] = NoAnswer
             \/ recorded'[j].kind \in {"committed", "refused"}
             \/ recorded'[j].kind = "conflict" /\ recorded'[j].version \in Served
  BY <1>0, <1>1, <1>2 DEF Recorded
<1>10. Recorded'
  BY <1>0, <1>3, <1>7, <1>8, <1>9 DEF Recorded, localVars
<1> QED
  BY <1>3, <1>4, <1>5, <1>6, <1>10

LEMMA ExecuteBase ==
    ASSUME BaseInv, NEW refuse \in BOOLEAN, Execute(refuse)
    PROVE  BaseInv'
<1> DEFINE c == Current
           r == Intent
<1>0. /\ push.pc = "admitted" /\ push \in Pushes /\ Reading(journal)
      /\ UNCHANGED <<localVars, task, access, flips, foreign, reviews>>
      /\ push' = [push EXCEPT !.pc = "replied", !.answer = recorded'[Current]]
  BY DEF Execute, BaseInv, TypeOK, Pushes
<1>1. /\ push.queue # {} /\ c \in DOMAIN journal /\ c \in Ids /\ r = journal[c]
      /\ journal[c].state = "in_flight"
  BY <1>0, CurrentIs DEF BaseInv, Claimed, Has, Intent, Pushes
<1>2. r.base \in Heads /\ r.local \in Heads /\ r.attempts # 0
  <2>1. Honest(c)
    BY <1>1 DEF BaseInv, Recorded
  <2> QED
    BY <1>0, <1>1, <2>1, RowType DEF Honest
<1>3. c <= minted /\ Execution(c, r, refuse)
  BY <1>1 DEF BaseInv, Numbered, Execute
<1>4. Current' = c /\ journal' = journal
  BY <1>0 DEF Current, localVars
<1>5. /\ TypeOK' <=> push' \in Pushes
      /\ Numbered' /\ Recorded' /\ Carried' /\ recorded'[c] # NoAnswer
  <2> HIDE DEF c, r
  <2> QED
    BY <1>0, <1>1, <1>2, <1>3, ExecutionBase
<1>6. recorded'[c] \in Answers
  <2>1. recorded \in [Ids -> Answers]
    BY DEF BaseInv, TypeOK
  <2>2. TypeOK
    BY DEF BaseInv
  <2> HIDE DEF c, r
  <2> QED
    BY <1>1, <1>2, <1>3, <2>1, <2>2, ExecutionIs
<1>7. push' \in Pushes /\ push'.pc = "replied" /\ push'.answer = recorded'[c] /\ push'.queue = push.queue
  BY <1>0, <1>6 DEF Pushes
<1>8. Claimed'
  BY <1>1, <1>4, <1>5, <1>7 DEF Claimed, Has, Intent
<1> QED
  BY <1>5, <1>7, <1>8 DEF BaseInv

LEMMA LateExecuteBase ==
    ASSUME BaseInv, NEW d \in wire, NEW refuse \in BOOLEAN, LateExecute(d, refuse)
    PROVE  BaseInv'
<1>0. /\ UNCHANGED <<localVars, task, access, flips, foreign, reviews>> /\ push' = push
      /\ push \in Pushes /\ Execution(d.id, d, refuse)
  BY DEF LateExecute, BaseInv, TypeOK, Pushes
<1>1. /\ d.id \in Ids /\ d.base \in Heads /\ d.local \in Heads /\ d.id <= minted
      /\ recorded[d.id] = NoAnswer
      /\ d.id \in DOMAIN journal => journal[d.id].attempts # 0 /\ d.local = journal[d.id].local
  BY DEF BaseInv, TypeOK, Numbered, Recorded, Honest, Has
<1> DEFINE i == d.id
<1>2. /\ TypeOK' <=> push' \in Pushes
      /\ Numbered' /\ Recorded' /\ Carried'
  <2>1. /\ i \in Ids /\ d.base \in Heads /\ d.local \in Heads /\ i <= minted
        /\ i \in DOMAIN journal => journal[i].attempts # 0 /\ d.local = journal[i].local
        /\ Execution(i, d, refuse)
    BY <1>0, <1>1
  <2> HIDE DEF i
  <2> QED
    BY <1>0, <2>1, ExecutionBase
<1>3. Claimed'
  <2> SUFFICES ASSUME push.pc \notin {"idle", "next"} PROVE Claimed'
    BY <1>0 DEF Claimed
  <2>1. /\ push.queue # {} /\ Current \in DOMAIN journal /\ journal[Current].state = "in_flight"
        /\ push.pc = "replied" =>
              push.answer.kind = "denied" \/ (push.answer = recorded[Current] /\ push.answer # NoAnswer)
        /\ Current \in Ids
    BY <1>0, CurrentIs DEF BaseInv, Claimed, Has, Intent, Pushes
  <2>2. recorded[Current] # NoAnswer => recorded'[Current] = recorded[Current]
    <3>1. TypeOK
      BY DEF BaseInv
    <3>2. \/ recorded' = recorded
          \/ recorded' = [recorded EXCEPT ![i] = recorded'[i]]
      <4>1. i \in Ids /\ d.base \in Heads /\ d.local \in Heads /\ Execution(i, d, refuse)
        BY <1>0, <1>1
      <4> HIDE DEF i
      <4> QED
        BY <3>1, <4>1, ExecutionIs
    <3> QED
      BY <1>1, <2>1, <3>1, <3>2 DEF TypeOK
  <2>3. Current' = Current /\ journal' = journal
    BY <1>0 DEF Current, localVars
  <2> QED
    BY <1>0, <2>1, <2>2, <2>3 DEF Claimed, Has, Intent
<1> QED
  BY <1>0, <1>2, <1>3 DEF BaseInv

\* The sender of a delivery stops waiting.
LEMMA AbandonedIs ==
    ASSUME BaseInv
    PROVE  /\ \A d \in Abandoned : d \in wire \/
                 /\ push.pc \in {"network", "admitted"} /\ d.id = Current /\ Current \in DOMAIN journal
                 /\ recorded[Current] = NoAnswer /\ journal[Current].attempts # 0
                 /\ journal[Current].state = "in_flight"
                 /\ d.base = journal[Current].base /\ d.local = journal[Current].local
           /\ wire \subseteq Abandoned
           /\ Abandoned \subseteq [id : Ids, base : Heads, local : Heads, stage : {"network", "admitted"}]
<1> DEFINE q == [id |-> Current, base |-> Intent.base, local |-> Intent.local, stage |-> push.pc]
           waiting == push.pc \in {"network", "admitted"} /\ recorded[Current] = NoAnswer
<1>1. Abandoned = IF waiting THEN wire \union {q} ELSE wire
  BY DEF Abandoned
<1>2. waiting => /\ Current \in DOMAIN journal /\ Current \in Ids /\ Intent = journal[Current]
                 /\ Intent.attempts # 0 /\ Intent.state = "in_flight"
                 /\ Intent.base \in Heads /\ Intent.local \in Heads
  <2> SUFFICES ASSUME waiting
               PROVE  /\ Current \in DOMAIN journal /\ Current \in Ids /\ Intent = journal[Current]
                      /\ Intent.attempts # 0 /\ Intent.state = "in_flight"
                      /\ Intent.base \in Heads /\ Intent.local \in Heads
    OBVIOUS
  <2>1. Current \in DOMAIN journal /\ Current \in Ids /\ Intent = journal[Current]
        /\ Intent.state = "in_flight"
    BY CurrentIs DEF BaseInv, Claimed, Has, Intent, TypeOK
  <2>2. Honest(Current) /\ Reading(journal)
    BY <2>1 DEF BaseInv, Recorded, TypeOK
  <2> QED
    BY <2>1, <2>2, RowType DEF Honest
<1>3. wire \subseteq [id : Ids, base : Heads, local : Heads, stage : {"network", "admitted"}]
  BY DEF BaseInv, TypeOK
<1>4. waiting => /\ q \in [id : Ids, base : Heads, local : Heads, stage : {"network", "admitted"}]
                 /\ q.id = Current /\ q.base = Intent.base /\ q.local = Intent.local
  BY <1>2
<1> HIDE DEF q
<1> QED
  BY <1>1, <1>2, <1>3, <1>4

\* Deliveries on the wire change, the record does not.
LEMMA WireBase ==
    ASSUME BaseInv, UNCHANGED <<localVars, task, head, recorded, access, flips, foreign, reviews>>,
           faults' \in Nat, push' \in Pushes, Claimed',
           wire' \subseteq [id : Ids, base : Heads, local : Heads, stage : {"network", "admitted"}],
           \A d \in wire' : \/ \E e \in wire : d.id = e.id /\ d.base = e.base /\ d.local = e.local
                            \/ d \in Abandoned
    PROVE  BaseInv'
<1>0. /\ TypeOK /\ Numbered /\ Recorded /\ Carried
  BY DEF BaseInv
<1>1. TypeOK'
  BY <1>0 DEF TypeOK, Pushes, localVars, Reading
<1>2. Carried'
  BY <1>0 DEF Carried, Composed, Reviewed, AsRead, Has, localVars
<1>3. ASSUME NEW d \in wire'
      PROVE  /\ d.id <= minted
             /\ recorded[d.id] = NoAnswer
             /\ d.id \in DOMAIN journal =>
                   /\ d.base = journal[d.id].base /\ d.local = journal[d.id].local
                   /\ journal[d.id].attempts # 0
  <2>1. ASSUME NEW e \in wire, d.id = e.id, d.base = e.base, d.local = e.local
        PROVE  /\ d.id <= minted
               /\ recorded[d.id] = NoAnswer
               /\ d.id \in DOMAIN journal =>
                     /\ d.base = journal[d.id].base /\ d.local = journal[d.id].local
                     /\ journal[d.id].attempts # 0
    BY <1>0, <2>1 DEF Numbered, Recorded, Honest, Has
  <2>2. CASE d \in Abandoned
    <3>1. CASE d \in wire
      BY <2>1, <3>1
    <3>2. CASE /\ d.id = Current /\ Current \in DOMAIN journal
               /\ recorded[Current] = NoAnswer /\ journal[Current].attempts # 0
               /\ d.base = journal[Current].base /\ d.local = journal[Current].local
      BY <1>0, <3>2 DEF Numbered
    <3> QED
      BY <2>2, <3>1, <3>2, AbandonedIs
  <2> QED
    BY <1>3, <2>1, <2>2
<1>4. Numbered'
  BY <1>0, <1>3 DEF Numbered, localVars
<1>5. ASSUME NEW j \in DOMAIN journal
      PROVE  Honest(j)'
  <2>1. Honest(j)
    BY <1>0 DEF Recorded
  <2> QED
    BY <1>3, <2>1 DEF Honest, localVars
<1>6. Recorded'
  BY <1>0, <1>3, <1>5 DEF Recorded, Has, localVars
<1> QED
  BY <1>1, <1>2, <1>4, <1>6 DEF BaseInv

LEMMA LoseBase ==
    ASSUME BaseInv, Lose
    PROVE  BaseInv'
<1>0. /\ UNCHANGED <<localVars, task, head, recorded, access, flips, foreign, reviews>>
      /\ faults' \in Nat /\ wire' = Abandoned /\ push \in Pushes
      /\ push.pc \notin {"idle", "next"}
      /\ push' = [push EXCEPT !.pc = "lookup", !.unclear = TRUE, !.answer = NoAnswer]
  BY DEF Lose, BaseInv, TypeOK, Pushes
<1>1. push' \in Pushes /\ push'.pc = "lookup" /\ push'.queue = push.queue
  BY <1>0, IdlePushType DEF Pushes
<1>2. Claimed'
  <2>1. /\ push.queue # {} /\ Current \in DOMAIN journal /\ journal[Current].state = "in_flight"
    BY <1>0 DEF BaseInv, Claimed, Has, Intent
  <2>2. Current' = Current /\ journal' = journal
    BY <1>0, <1>1 DEF Current, localVars
  <2> QED
    BY <1>1, <2>1, <2>2 DEF Claimed, Has, Intent
<1> QED
  BY <1>0, <1>1, <1>2, AbandonedIs, WireBase

LEMMA CrashBase ==
    ASSUME BaseInv, Crash
    PROVE  BaseInv'
<1>0. /\ UNCHANGED <<localVars, task, head, recorded, access, flips, foreign, reviews>>
      /\ faults' \in Nat /\ wire' = Abandoned /\ push' = IdlePush
  BY DEF Crash, BaseInv, TypeOK
<1>1. push' \in Pushes /\ push'.pc = "idle"
  BY <1>0, IdlePushType DEF Pushes, IdlePush
<1>2. Claimed'
  BY <1>1 DEF Claimed
<1> QED
  BY <1>0, <1>1, <1>2, AbandonedIs, WireBase

LEMMA LateArriveBase ==
    ASSUME BaseInv, NEW d \in wire, LateArrive(d)
    PROVE  BaseInv'
<1>0. /\ UNCHANGED <<localVars, task, head, recorded, access, flips, foreign, reviews>>
      /\ push' = push /\ push \in Pushes /\ faults' \in Nat
      /\ wire' = (wire \ {d}) \union (IF access THEN {[d EXCEPT !.stage = "admitted"]} ELSE {})
      /\ wire \subseteq [id : Ids, base : Heads, local : Heads, stage : {"network", "admitted"}]
  BY DEF LateArrive, BaseInv, TypeOK, Pushes, envVars
<1> DEFINE q == [d EXCEPT !.stage = "admitted"]
<1>1. /\ q \in [id : Ids, base : Heads, local : Heads, stage : {"network", "admitted"}]
      /\ q.id = d.id /\ q.base = d.base /\ q.local = d.local
  BY <1>0
<1> HIDE DEF q
<1>2. wire' \subseteq wire \union {q}
  BY <1>0 DEF q
<1>3. wire' \subseteq [id : Ids, base : Heads, local : Heads, stage : {"network", "admitted"}]
  BY <1>0, <1>1, <1>2
<1>4. \A e \in wire' : \E x \in wire : e.id = x.id /\ e.base = x.base /\ e.local = x.local
  BY <1>1, <1>2
<1>5. Claimed'
  BY <1>0 DEF BaseInv, Claimed, Has, Intent, Current, localVars
<1> QED
  BY <1>0, <1>3, <1>4, <1>5, WireBase

-----------------------------------------------------------------------------
(* BaseInv: others *)

LEMMA ForeignBase ==
    ASSUME BaseInv, NEW v \in Served, Foreign(v)
    PROVE  BaseInv'
<1>0. /\ TypeOK /\ Claimed /\ Numbered /\ Recorded /\ Carried
      /\ UNCHANGED <<localVars, task, push, recorded, wire, access, flips, faults, reviews>>
      /\ head' = v /\ foreign' \in Nat /\ v \in Heads
  BY ServedIsStored DEF Foreign, BaseInv, TypeOK
<1>1. TypeOK'
  BY <1>0 DEF TypeOK, localVars, Reading
<1>2. Claimed'
  BY <1>0 DEF Claimed, Has, Intent, Current, localVars
<1>3. Numbered'
  BY <1>0 DEF Numbered, localVars
<1>4. Recorded'
  BY <1>0 DEF Recorded, Honest, Has, localVars
<1>5. Carried'
  BY <1>0 DEF Carried, Composed, Reviewed, AsRead, Has, localVars
<1> QED
  BY <1>1, <1>2, <1>3, <1>4, <1>5 DEF BaseInv

LEMMA FlipAccessBase ==
    ASSUME BaseInv, FlipAccess
    PROVE  BaseInv'
<1>0. /\ TypeOK /\ Claimed /\ Numbered /\ Recorded /\ Carried
      /\ UNCHANGED <<localVars, task, push, sharedVars, foreign, faults, reviews>>
      /\ access' \in BOOLEAN /\ flips' \in Nat
  BY DEF FlipAccess, BaseInv, TypeOK
<1>1. TypeOK'
  BY <1>0 DEF TypeOK, localVars, sharedVars, Reading
<1>2. Claimed'
  BY <1>0 DEF Claimed, Has, Intent, Current, localVars, sharedVars
<1>3. Numbered'
  BY <1>0 DEF Numbered, localVars, sharedVars
<1>4. Recorded'
  BY <1>0 DEF Recorded, Honest, Has, localVars, sharedVars
<1>5. Carried'
  BY <1>0 DEF Carried, Composed, Reviewed, AsRead, Has, localVars
<1> QED
  BY <1>1, <1>2, <1>3, <1>4, <1>5 DEF BaseInv

LEMMA StutterBase ==
    ASSUME BaseInv, UNCHANGED vars
    PROVE  BaseInv'
<1>0. /\ TypeOK /\ Claimed /\ Numbered /\ Recorded /\ Carried
      /\ UNCHANGED <<localVars, task, push, sharedVars, envVars, reviews>>
  BY DEF BaseInv, vars
<1>1. TypeOK'
  BY <1>0 DEF TypeOK, localVars, sharedVars, envVars, Reading
<1>2. Claimed'
  BY <1>0 DEF Claimed, Has, Intent, Current, localVars, sharedVars
<1>3. Numbered'
  BY <1>0 DEF Numbered, localVars, sharedVars
<1>4. Recorded'
  BY <1>0 DEF Recorded, Honest, Has, localVars, sharedVars
<1>5. Carried'
  BY <1>0 DEF Carried, Composed, Reviewed, AsRead, Has, localVars
<1> QED
  BY <1>1, <1>2, <1>3, <1>4, <1>5 DEF BaseInv

LEMMA BaseStep ==
    ASSUME BaseInv, [Next]_vars
    PROVE  BaseInv'
<1>1. ASSUME NEW t \in Tasks, TaskStep(t)
      PROVE  BaseInv'
  <2>1. CASE Edit(t)
    BY <2>1, EditBase
  <2>2. CASE DeleteLocal(t)
    BY <2>2, DeleteLocalBase
  <2>3. CASE Write(t)
    BY <2>3, WriteBase
  <2>4. CASE Recompose(t)
    BY <2>4, RecomposeBase
  <2>5. CASE GiveUp(t)
    BY <2>5, GiveUpBase
  <2>6. CASE Review(t)
    BY <2>6, ReviewBase
  <2>7. CASE TakeRemote(t)
    BY <2>7, TakeRemoteBase
  <2>8. CASE \E c \in Contents : Compose(t, c)
    BY <2>8, ComposeBase
  <2>9. CASE \E c \in Heads : KeepLocal(t, c)
    BY <2>9, KeepLocalBase
  <2> QED
    BY <1>1, <2>1, <2>2, <2>3, <2>4, <2>5, <2>6, <2>7, <2>8, <2>9 DEF TaskStep
<1>2. CASE PushStep
  <2>1. CASE BeginPush \/ EndPush \/ Skip
    BY <2>1, QueueBase
  <2>2. CASE Fold
    BY <2>2, FoldBase
  <2>3. CASE ClaimIntent
    BY <2>3, ClaimBase
  <2>4. CASE Send
    BY <2>4, SendBase
  <2>5. CASE Arrive
    BY <2>5, ArriveBase
  <2>6. CASE Lose
    BY <2>6, LoseBase
  <2>7. CASE Receive
    BY <2>7, ReceiveBase
  <2>8. CASE Lookup
    BY <2>8, LookupBase
  <2>9. CASE LookupFails
    BY <2>9, LookupFailsBase
  <2>10. CASE Crash
    BY <2>10, CrashBase
  <2>11. CASE \E refuse \in BOOLEAN : Execute(refuse)
    BY <2>11, ExecuteBase
  <2> QED
    BY <1>2, <2>1, <2>2, <2>3, <2>4, <2>5, <2>6, <2>7, <2>8, <2>9, <2>10, <2>11 DEF PushStep
<1>3. CASE Resume
  BY <1>3, ResumeBase
<1>4. CASE ReclaimInFlight
  BY <1>4, ReclaimBase
<1>5. ASSUME NEW d \in wire, LateArrive(d) \/ \E refuse \in BOOLEAN : LateExecute(d, refuse)
      PROVE  BaseInv'
  BY <1>5, LateArriveBase, LateExecuteBase
<1>6. CASE \E v \in Served : Foreign(v)
  BY <1>6, ForeignBase
<1>7. CASE FlipAccess
  BY <1>7, FlipAccessBase
<1>8. CASE UNCHANGED vars
  BY <1>8, StutterBase
<1> QED
  BY <1>1, <1>2, <1>3, <1>4, <1>5, <1>6, <1>7, <1>8 DEF Next

LEMMA BaseInit ==
    ASSUME Init
    PROVE  BaseInv
<1>0. /\ DOMAIN journal = {} /\ minted = 0 /\ wire = {} /\ head \in Served /\ head \in Heads
      /\ doc = head /\ base = head /\ push = IdlePush /\ push.pc = "idle"
      /\ task = [t \in Tasks |-> Idle] /\ \A t \in Tasks : task[t] = Idle /\ task[t].pc = "idle"
      /\ recorded = [i \in Ids |-> NoAnswer] /\ NoAnswer \in Answers
  <2>1. head \in Served
    BY DEF Init
  <2> QED
    BY <2>1, ServedIsStored, IdlePushType DEF Init, IdlePush, Idle
<1>1. TypeOK
  <2>1. Reading(journal)
    <3>1. journal = [i \in {} |-> Absent]
      BY DEF Init
    <3>2. journal \in [DOMAIN journal -> Intents]
      BY <3>1, <1>0
    <3> QED
      BY <1>0, <3>2 DEF Reading
  <2>2. \A t \in Tasks : TaskOK(task[t])
    BY <1>0 DEF TaskOK
  <2>3. push \in Pushes
    BY <1>0, IdlePushType DEF Pushes
  <2>4. /\ paused = FALSE /\ overtaken = FALSE /\ access = TRUE /\ flips = 0 /\ foreign = 0
        /\ faults = 0 /\ reviews = 0
    BY DEF Init
  <2>5. minted \in 0 .. MaxIds
    BY <1>0, JournalAssumption
  <2>6. recorded \in [Ids -> Answers] /\ task = [t \in Tasks |-> task[t]]
    BY <1>0
  <2> QED
    BY <1>0, <2>1, <2>2, <2>3, <2>4, <2>5, <2>6 DEF TypeOK, Pushes
<1>2. Claimed
  BY <1>0 DEF Claimed
<1>3. Numbered
  BY <1>0 DEF Numbered
<1>4. Recorded
  BY <1>0 DEF Recorded
<1>5. Carried
  BY <1>0 DEF Carried
<1> QED
  BY <1>1, <1>2, <1>3, <1>4, <1>5 DEF BaseInv

-----------------------------------------------------------------------------
(* What has left the journal *)

\* With access, what the authority may still commit is in the journal.
RetiredInv == flips = 0 => Retired

\* A row that no delivery can take effect for.
Settled(i) == recorded[i].kind # "committed" /\ \A d \in wire : d.id # i

\* Rows leave and one enters.
LEMMA EnteredRetired ==
    ASSUME BaseInv, Retired, NEW gone, NEW plan, Enterable(plan), Entered(gone, plan),
           UNCHANGED <<sharedVars, access>>, push' = push \/ push'.pc = "next",
           \A i \in gone \cap DOMAIN journal : Settled(i)
    PROVE  Retired'
<1>0. /\ minted \in Nat /\ Reading(journal) /\ recorded' = recorded /\ wire' = wire /\ access' = access
      /\ wire \subseteq [id : Ids, base : Heads, local : Heads, stage : {"network", "admitted"}]
  BY DEF BaseInv, TypeOK, sharedVars
<1>1. ASSUME NEW i \in DOMAIN journal' PROVE journal'[i].state # "denied"
  <2>1. CASE i \in DOMAIN journal \ gone
    BY <2>1 DEF Retired, Entered
  <2>2. CASE i \notin DOMAIN journal \ gone
    BY <2>2 DEF Entered, Fresh
  <2> QED
    BY <2>1, <2>2
<1>2. ASSUME NEW d \in wire' PROVE Has(d.id)'
  BY <1>0, <1>2 DEF Retired, Entered, Has, Settled
<1>3. ASSUME NEW i \in 1 .. minted', ~Has(i)' PROVE recorded'[i].kind # "committed"
  <2>1. i <= minted
    BY <1>0, <1>3 DEF Entered, Has
  <2>2. CASE i \in DOMAIN journal
    BY <1>0, <1>3, <2>2 DEF Entered, Has, Settled
  <2>3. CASE i \notin DOMAIN journal
    BY <1>0, <2>1, <2>3 DEF Retired, Has
  <2> QED
    BY <2>2, <2>3
<1> QED
  BY <1>0, <1>1, <1>2, <1>3 DEF Retired

\* A row a local operation or a fold may take out is settled.
LEMMA SettledIs ==
    ASSUME BaseInv, Retired, NEW i \in DOMAIN journal,
           journal[i].state = "conflict" \/ MayBeReplaced(journal[i])
    PROVE  Settled(i)
<1>1. Honest(i)
  BY DEF BaseInv, Recorded
<1>2. journal[i].state # "denied"
  BY DEF Retired
<1>3. CASE journal[i].attempts = 0
  BY <1>1, <1>3, IdlePushType DEF Honest, Settled
<1>4. CASE journal[i].state \in {"refused", "conflict"}
  <2>1. recorded[i].kind = journal[i].state
    BY <1>1, <1>4 DEF Honest
  <2>2. \A d \in wire : d.id # i
    BY <1>4, <2>1, IdlePushType DEF BaseInv, Recorded
  <2> QED
    BY <1>4, <2>1, <2>2 DEF Settled
<1> QED
  BY <1>2, <1>3, <1>4 DEF MayBeReplaced, NeverDelivered

\* The rows stay, and only what is in the journal is recorded or on the wire.
LEMMA RetiredKept ==
    ASSUME BaseInv, Retired, access' = access, DOMAIN journal' = DOMAIN journal, minted' = minted,
           \A i \in DOMAIN journal : journal'[i].state # "denied",
           \A i \in Ids : recorded'[i] = recorded[i] \/ i \in DOMAIN journal,
           \A d \in wire' : d.id \in DOMAIN journal,
           push'.pc = "replied" => push'.answer.kind # "denied"
    PROVE  Retired'
<1>1. \A i \in 1 .. minted : i \in Ids
  BY JournalAssumption DEF BaseInv, TypeOK, Ids
<1> QED
  BY <1>1 DEF Retired, Has

LEMMA RetiredSettles ==
    ASSUME BaseInv, Retired, NEW a, NEW pauses, Settling(a), a.kind # "denied", Settle(a, pauses),
           UNCHANGED sharedVars
    PROVE  Retired'
<1>1. /\ DOMAIN journal' = DOMAIN journal /\ Current \in DOMAIN journal
      /\ \A i \in DOMAIN journal : i # Current => journal'[i] = journal[i]
      /\ journal'[Current].state = "denied" => a.kind = "denied"
  BY SettleIs
<1>2. /\ access' = access /\ minted' = minted /\ recorded' = recorded /\ wire' = wire
      /\ push' = IdlePush \/ push' = Following
  BY DEF Settle, envVars, sharedVars
<1>3. push'.pc # "replied"
  BY <1>2, FollowingType DEF IdlePush, BaseInv
<1>4. \A i \in DOMAIN journal : journal'[i].state # "denied"
  BY <1>1 DEF Retired
<1> QED
  BY <1>1, <1>2, <1>3, <1>4, RetiredKept DEF Retired, Has

\* Nothing of it changes, and push is not given an answer.
LEMMA RetiredUnchanged ==
    ASSUME BaseInv, Retired, UNCHANGED <<journal, minted, recorded, wire, access>>,
           push' = push \/ push'.pc # "replied"
    PROVE  Retired'
<1>1. push'.pc = "replied" => push'.answer.kind # "denied"
  BY DEF Retired
<1> QED
  BY <1>1, RetiredKept DEF Retired, Has

LEMMA RetiredTask ==
    ASSUME BaseInv, Retired, NEW t \in Tasks, TaskStep(t)
    PROVE  Retired'
<1>1. CASE \/ Edit(t) \/ DeleteLocal(t) \/ Recompose(t) \/ GiveUp(t) \/ Review(t)
           \/ \E c \in Contents : Compose(t, c)
  <2>1. UNCHANGED <<journal, minted, recorded, wire, access>> /\ push' = push
    BY <1>1 DEF Edit, DeleteLocal, Recompose, GiveUp, Review, Compose, localVars, sharedVars, envVars
  <2> QED
    BY <2>1, RetiredUnchanged
<1>2. CASE Write(t)
  <2> DEFINE gone == DOMAIN task[t].supersede
             plan == task[t].plan
             content == task[t].content
  <2>1. /\ task[t].pc = "write" /\ TaskOK(task[t]) /\ Composed(t) /\ TypeOK /\ Numbered
        /\ Journaled(gone, plan, content) /\ UNCHANGED <<sharedVars, access>> /\ push' = push
    BY <1>2 DEF BaseInv, TypeOK, Write, Carried, envVars
  <2>2. Enterable(plan)
    BY <2>1, TaskType DEF Numbered, Enterable
  <2>3. ASSUME NEW i \in gone \cap DOMAIN journal PROVE Settled(i)
    <3>1. MayBeReplaced(journal[i])
      BY <1>2, <2>1 DEF Write, SupersedeHolds, Composed, MayBeReplaced, NeverDelivered
    <3> QED
      BY <3>1, SettledIs
  <2> HIDE DEF gone, plan, content
  <2>4. Entered(gone, plan)
    BY <2>1, <2>2, JournaledIs
  <2> QED
    BY <2>1, <2>2, <2>3, <2>4, EnteredRetired
<1>3. ASSUME NEW plan, Enterable(plan), NEW content, Resolved(t, plan, content)
      PROVE  Retired'
  <2> DEFINE gone == Unsettled
  <2>1. /\ task[t].pc = "review" /\ TaskOK(task[t]) /\ Reviewed(t) /\ TypeOK /\ Numbered
        /\ Reading(journal)
        /\ Journaled(gone, plan, content) /\ UNCHANGED <<sharedVars, access>> /\ push' = push
    BY <1>3 DEF BaseInv, TypeOK, Resolved, Carried, envVars
  <2>2. \A i \in gone : i \in DOMAIN journal /\
                         (journal[i].state = "conflict" \/ MayBeReplaced(journal[i]))
    <3>1. Unsettled \subseteq DOMAIN journal
      BY <2>1, UnsettledIs
    <3>2. DOMAIN task[t].rows = Unsettled /\ \A i \in Unsettled : task[t].rows[i] = journal[i]
      BY <1>3, <2>1, <3>1, RowsType DEF Resolved
    <3> QED
      BY <2>1, <3>1, <3>2 DEF Reviewed
  <2>3. \A i \in gone \cap DOMAIN journal : Settled(i)
    BY <2>2, SettledIs
  <2> HIDE DEF gone
  <2>4. Entered(gone, plan)
    BY <1>3, <2>1, JournaledIs
  <2> QED
    BY <1>3, <2>1, <2>3, <2>4, EnteredRetired
<1>4. CASE TakeRemote(t)
  <2> DEFINE c == task[t].remote
  <2>1. Resolved(t, NoPlan, c)
    BY <1>4 DEF TakeRemote
  <2>2. Enterable(NoPlan)
    BY NoPlanType DEF Enterable
  <2> HIDE DEF c
  <2> QED
    BY <1>3, <2>1, <2>2
<1>5. ASSUME NEW c \in Heads, KeepLocal(t, c)
      PROVE  Retired'
  <2> DEFINE plan == IF c = Absent /\ task[t].remote = Absent THEN NoPlan
                     ELSE Plan(task[t].remote, c, NoId)
  <2>1. Resolved(t, plan, c) /\ task[t].remote \in Heads
    BY <1>5, TaskType DEF KeepLocal, BaseInv, TypeOK
  <2>2. Enterable(plan)
    <3>1. /\ Plan(task[t].remote, c, NoId) \in Plans
          /\ Plan(task[t].remote, c, NoId).after = NoId
      BY <2>1, PlanType
    <3> QED
      BY <3>1, NoPlanType DEF Enterable, NoId, BaseInv, TypeOK
  <2> HIDE DEF plan
  <2> QED
    BY <1>3, <2>1, <2>2
<1> QED
  BY <1>1, <1>2, <1>4, <1>5 DEF TaskStep

LEMMA RetiredPush ==
    ASSUME BaseInv, Retired, PushStep
    PROVE  Retired'
<1>1. CASE BeginPush \/ EndPush \/ Skip
  <2>1. UNCHANGED <<journal, minted, recorded, wire, access>>
    BY <1>1 DEF BeginPush, EndPush, Skip, localVars, sharedVars, envVars
  <2>2. push'.pc \in {"idle", "next"}
    <3>1. CASE BeginPush
      BY <3>1 DEF BeginPush, IdlePush
    <3>2. CASE EndPush
      BY <3>2 DEF EndPush, IdlePush
    <3>3. CASE Skip
      BY <3>3, FollowingType DEF Skip, BaseInv
    <3> QED
      BY <1>1, <3>1, <3>2, <3>3
  <2> QED
    BY <2>1, <2>2, RetiredUnchanged
<1>2. CASE Fold
  <2> DEFINE plan == SupersedingIntent(journal[Intent.after], doc)
             gone == Unsettled
  <2>1. /\ Enterable(plan) /\ Entered(gone, plan) /\ push'.pc = "next"
        /\ gone = {Intent.after, Current}
        /\ Intent.after \in DOMAIN journal /\ Current \in DOMAIN journal
        /\ journal[Intent.after].state = "refused"
        /\ Intent.state = "pending" /\ Intent.attempts = 0
    BY <1>2, FoldIs
  <2>2. UNCHANGED <<sharedVars, access>>
    BY <1>2 DEF Fold, envVars
  <2>3. \A i \in gone \cap DOMAIN journal : Settled(i)
    <3>1. \A i \in gone : i \in DOMAIN journal /\ MayBeReplaced(journal[i])
      BY <2>1 DEF MayBeReplaced, NeverDelivered, Intent
    <3> QED
      BY <3>1, SettledIs
  <2> HIDE DEF plan, gone
  <2> QED
    BY <2>1, <2>2, <2>3, EnteredRetired
<1>3. CASE ClaimIntent
  <2>1. /\ Current \in DOMAIN journal /\ DOMAIN journal' = DOMAIN journal
        /\ \A i \in DOMAIN journal : i # Current => journal'[i] = journal[i]
        /\ journal'[Current].state = "in_flight" /\ push'.pc \in {"send", "lookup"}
    BY <1>3, ClaimIs
  <2>2. UNCHANGED <<minted, recorded, wire, access>>
    BY <1>3 DEF ClaimIntent, envVars, sharedVars
  <2>3. \A i \in DOMAIN journal : journal'[i].state # "denied"
    BY <2>1 DEF Retired
  <2> QED
    BY <2>1, <2>2, <2>3, RetiredKept DEF Retired, Has
<1>4. CASE Send
  <2>1. CASE push.sent < MaxSubmissions
    <3>1. UNCHANGED <<journal, minted, recorded, wire, access>> /\ push'.pc = "network"
      BY <1>4, <2>1 DEF Send, localVars, sharedVars, envVars, BaseInv, TypeOK
    <3> QED
      BY <3>1, RetiredUnchanged
  <2>2. CASE ~ (push.sent < MaxSubmissions)
    <3> DEFINE a == Answer("unknown", Absent)
    <3>1. Settle(a, FALSE) /\ Settling(a) /\ a.kind # "denied" /\ UNCHANGED sharedVars
      BY <1>4, <2>2, UnknownSettles DEF Send, Answer
    <3> HIDE DEF a
    <3> QED
      BY <3>1, RetiredSettles
  <2> QED
    BY <2>1, <2>2
<1>5. CASE Arrive
  <2>1. UNCHANGED <<journal, minted, recorded, wire, access>> /\ push'.pc # "replied"
    BY <1>5 DEF Arrive, localVars, sharedVars, envVars, Retired, BaseInv, TypeOK
  <2> QED
    BY <2>1, RetiredUnchanged
<1>6. CASE Lose \/ Crash
  <2>1. /\ UNCHANGED <<journal, minted, recorded, access>> /\ wire' = Abandoned
        /\ push'.pc \in {"idle", "lookup"}
    <3>1. CASE Lose
      BY <3>1 DEF Lose, localVars, BaseInv, TypeOK
    <3>2. CASE Crash
      BY <3>2 DEF Crash, localVars, IdlePush
    <3> QED
      BY <1>6, <3>1, <3>2
  <2>2. \A d \in wire' : d.id \in DOMAIN journal
    BY <2>1, AbandonedIs DEF Retired, Has
  <2> QED
    BY <2>1, <2>2, RetiredKept DEF Retired
<1>7. CASE Receive
  <2> DEFINE a == push.answer
             denied == push.answer.kind = "denied"
  <2>1. push.pc = "replied" /\ ~denied /\ push.answer \in Answers /\ Current \in Ids
        /\ push.answer = recorded[Current] /\ push.answer # NoAnswer
    BY <1>7, CurrentIs DEF Receive, Retired, BaseInv, TypeOK, Claimed
  <2>2. Settling(a)
    BY <2>1 DEF Settling, BaseInv, Recorded
  <2>3. Settle(a, denied) /\ UNCHANGED sharedVars
    BY <1>7, <2>1 DEF Receive
  <2>4. a.kind # "denied"
    BY <2>1
  <2> HIDE DEF a, denied
  <2> QED
    BY <2>2, <2>3, <2>4, RetiredSettles
<1>8. CASE Lookup
  <2>1. push.pc = "lookup" /\ UNCHANGED sharedVars /\ Current \in Ids
    BY <1>8, CurrentIs DEF Lookup, BaseInv, TypeOK, Claimed
  <2>2. CASE recorded[Current] # NoAnswer
    <3> DEFINE a == recorded[Current]
    <3>1. Settle(a, FALSE) /\ a \in Answers /\ a.kind \in {"committed", "conflict", "refused"}
      BY <1>8, <2>1, <2>2 DEF Lookup, BaseInv, TypeOK, Recorded
    <3>2. Settling(a)
      BY <2>1, <3>1 DEF Settling
    <3> HIDE DEF a
    <3> QED
      BY <2>1, <3>1, <3>2, RetiredSettles
  <2>3. CASE recorded[Current] = NoAnswer
    <3>1. UNCHANGED <<journal, minted, recorded, wire, access>> /\ push'.pc = "send"
      BY <1>8, <2>3 DEF Lookup, localVars, sharedVars, envVars, BaseInv, TypeOK
    <3> QED
      BY <3>1, RetiredUnchanged
  <2> QED
    BY <2>2, <2>3
<1>9. CASE LookupFails
  <2> DEFINE a == Answer("unknown", Absent)
  <2>1. Settle(a, FALSE) /\ Settling(a) /\ a.kind # "denied" /\ UNCHANGED sharedVars
    BY <1>9, UnknownSettles DEF LookupFails, Answer
  <2> HIDE DEF a
  <2> QED
    BY <2>1, RetiredSettles
<1>10. ASSUME NEW refuse \in BOOLEAN, Execute(refuse)
       PROVE  Retired'
  <2>0. push.pc = "admitted" /\ Execution(Current, Intent, refuse) /\ access' = access
        /\ UNCHANGED localVars /\ push' = [push EXCEPT !.pc = "replied", !.answer = recorded'[Current]]
    BY <1>10 DEF Execute
  <2>1. Current \in DOMAIN journal /\ Current \in Ids /\ Intent = journal[Current] /\ Reading(journal)
    BY <2>0, CurrentIs DEF BaseInv, TypeOK, Claimed, Has, Intent
  <2>2. Intent.base \in Heads /\ Intent.local \in Heads
    BY <2>1, RowType
  <2> DEFINE c == Current
             r == Intent
  <2>3. \/ recorded[c] # NoAnswer /\ UNCHANGED <<recorded, head, wire, faults>>
        \/ /\ recorded[c] = NoAnswer
           /\ recorded' = [recorded EXCEPT ![c] = recorded'[c]]
           /\ wire' = {d \in wire : d.id # c}
           /\ recorded'[c].kind \in {"refused", "committed", "conflict"}
    <3>1. TypeOK /\ c \in Ids /\ r.base \in Heads /\ r.local \in Heads /\ Execution(c, r, refuse)
      BY <2>0, <2>1, <2>2 DEF BaseInv
    <3> HIDE DEF c, r
    <3> QED
      BY <3>1, ExecutionIs
  <2>4. recorded'[c].kind # "denied"
    BY <2>1, <2>3 DEF BaseInv, Recorded
  <2>5. /\ wire' \subseteq wire
        /\ \A i \in Ids : recorded'[i] = recorded[i] \/ i \in DOMAIN journal
    BY <2>1, <2>3 DEF BaseInv, TypeOK
  <2>6. push'.answer.kind # "denied"
    BY <2>0, <2>4 DEF BaseInv, TypeOK
  <2>7. /\ access' = access /\ journal' = journal /\ DOMAIN journal' = DOMAIN journal /\ minted' = minted
    BY <2>0 DEF localVars
  <2>8. (\A i \in DOMAIN journal : journal'[i].state # "denied") /\ (\A d \in wire' : d.id \in DOMAIN journal)
    BY <2>5, <2>7 DEF Retired, Has
  <2> QED
    BY <2>5, <2>6, <2>7, <2>8, RetiredKept
<1> QED
  BY <1>1, <1>2, <1>3, <1>4, <1>5, <1>6, <1>7, <1>8, <1>9, <1>10 DEF PushStep

LEMMA RetiredStep ==
    ASSUME BaseInv, RetiredInv, [Next]_vars
    PROVE  RetiredInv'
<1>0. flips \in Nat /\ (flips' = 0 => flips = 0 /\ ~FlipAccess)
  <2>1. flips \in Nat
    BY DEF BaseInv, TypeOK
  <2>2. flips' = flips \/ flips' = flips + 1
    <3>1. ASSUME NEW t \in Tasks, TaskStep(t) PROVE flips' = flips
      BY <3>1 DEF TaskStep, Edit, DeleteLocal, Write, Recompose, GiveUp, Review, TakeRemote,
             Compose, KeepLocal, Resolved, envVars
    <3>2. CASE PushStep
      BY <3>2 DEF PushStep, BeginPush, EndPush, Skip, Fold, ClaimIntent, Send, Arrive, Lose,
             Receive, Lookup, LookupFails, Crash, Execute, Settle, envVars
    <3>3. CASE ~PushStep /\ ~\E t \in Tasks : TaskStep(t)
      BY <3>3 DEF Next, Resume, ReclaimInFlight, LateArrive, LateExecute, Foreign, FlipAccess,
             envVars, vars
    <3> QED
      BY <3>1, <3>2, <3>3
  <2> QED
    BY <2>1, <2>2 DEF FlipAccess
<1> SUFFICES ASSUME flips' = 0, Retired, ~FlipAccess
             PROVE  Retired'
  BY <1>0 DEF RetiredInv
<1>1. CASE \E t \in Tasks : TaskStep(t)
  BY <1>1, RetiredTask
<1>2. CASE PushStep
  BY <1>2, RetiredPush
<1>3. CASE Resume \/ ReclaimInFlight
  <2>1. /\ DOMAIN journal' = DOMAIN journal
        /\ UNCHANGED <<minted, push, recorded, wire, access>>
    BY <1>3 DEF Resume, ReclaimInFlight, sharedVars, envVars
  <2>2. \A i \in DOMAIN journal : journal'[i].state # "denied"
    <3>1. \A i \in DOMAIN journal : journal[i] \in Intents
      BY RowType DEF BaseInv, TypeOK
    <3>2. CASE Resume
      BY <3>1, <3>2 DEF Resume, Retired
    <3>3. CASE ReclaimInFlight
      BY <3>1, <3>3 DEF ReclaimInFlight, Retired, Intents
    <3> QED
      BY <1>3, <3>2, <3>3
  <2> QED
    BY <2>1, <2>2, RetiredKept DEF Retired, Has
<1>4. ASSUME NEW d \in wire, LateArrive(d)
      PROVE  Retired'
  <2>1. /\ UNCHANGED <<journal, minted, push, recorded, access>>
        /\ wire' = (wire \ {d}) \union (IF access THEN {[d EXCEPT !.stage = "admitted"]} ELSE {})
    BY <1>4 DEF LateArrive, localVars, envVars
  <2>2. [d EXCEPT !.stage = "admitted"].id = d.id
    BY DEF BaseInv, TypeOK
  <2>3. \A e \in wire' : e.id \in DOMAIN journal
    BY <2>1, <2>2 DEF Retired, Has
  <2> QED
    BY <2>1, <2>3, RetiredKept DEF Retired
<1>5. ASSUME NEW d \in wire, NEW refuse \in BOOLEAN, LateExecute(d, refuse)
      PROVE  Retired'
  <2>0. Execution(d.id, d, refuse) /\ UNCHANGED <<journal, minted, push, access>>
    BY <1>5 DEF LateExecute, localVars
  <2>1. d.id \in Ids /\ d.base \in Heads /\ d.local \in Heads /\ d.id \in DOMAIN journal /\ TypeOK
    BY DEF BaseInv, TypeOK, Retired, Has
  <2> DEFINE i == d.id
  <2>2. \/ UNCHANGED <<recorded, wire>>
        \/ /\ recorded' = [recorded EXCEPT ![i] = recorded'[i]]
           /\ wire' = {e \in wire : e.id # i}
    <3>1. i \in Ids /\ Execution(i, d, refuse)
      BY <2>0, <2>1
    <3> HIDE DEF i
    <3> QED
      BY <2>1, <3>1, ExecutionIs
  <2>3. wire' \subseteq wire /\ \A j \in Ids : recorded'[j] = recorded[j] \/ j \in DOMAIN journal
    BY <2>1, <2>2 DEF TypeOK
  <2> QED
    BY <2>0, <2>3, RetiredKept DEF Retired, Has
<1>6. CASE \E v \in Served : Foreign(v)
  <2>1. UNCHANGED <<journal, minted, recorded, wire, access>> /\ push' = push
    BY <1>6 DEF Foreign, localVars
  <2> QED
    BY <2>1, RetiredUnchanged
<1>7. CASE UNCHANGED vars
  <2>1. UNCHANGED <<journal, minted, recorded, wire, access>> /\ push' = push
    BY <1>7 DEF vars, localVars, sharedVars, envVars
  <2> QED
    BY <2>1, RetiredUnchanged
<1> QED
  BY <1>1, <1>2, <1>3, <1>4, <1>5, <1>6, <1>7 DEF Next

-----------------------------------------------------------------------------
(* The chain of unsettled intents *)

\* Rows that are settled stay, one intent enters.
LEMMA EnteredUnsettled ==
    ASSUME BaseInv, NEW gone, NEW plan, Enterable(plan), Entered(gone, plan)
    PROVE  /\ Unsettled' = (Unsettled \ gone) \union (IF plan = NoPlan THEN {} ELSE {minted + 1})
           /\ \A i \in Unsettled \ gone : journal'[i] = journal[i]
           /\ \A i \in Unsettled : i \in Nat /\ i <= minted
           /\ minted \in Nat
           /\ \A i \in DOMAIN journal' : i <= minted => i \in DOMAIN journal /\ journal'[i] = journal[i]
           /\ plan # NoPlan => /\ minted + 1 \in DOMAIN journal'
                               /\ journal'[minted + 1].base = plan.base
                               /\ journal'[minted + 1].local = plan.local
                               /\ journal'[minted + 1].after = plan.after
                               /\ journal'[minted + 1].attempts = 0
                               /\ journal'[minted + 1].state = "pending"
<1>0. minted \in Nat /\ Reading(journal) /\ \A i \in DOMAIN journal : i <= minted
  BY DEF BaseInv, TypeOK, Numbered
<1>1. \A i \in Unsettled : i \in Nat /\ i <= minted
  BY <1>0, UnsettledIs DEF Ids
<1>2. plan # NoPlan => /\ minted + 1 \in DOMAIN journal'
                       /\ journal'[minted + 1].base = plan.base
                       /\ journal'[minted + 1].local = plan.local
                       /\ journal'[minted + 1].after = plan.after
                       /\ journal'[minted + 1].attempts = 0
                       /\ journal'[minted + 1].state = "pending"
  BY DEF Entered, Fresh
<1>3. \A i \in DOMAIN journal \ gone : journal'[i] = journal[i]
  BY DEF Entered
<1>4. Unsettled' = {i \in DOMAIN journal' : journal'[i].state # "acknowledged"}
  BY DEF Unsettled
<1>5. ASSUME NEW i PROVE i \in Unsettled' <=>
        i \in (Unsettled \ gone) \union (IF plan = NoPlan THEN {} ELSE {minted + 1})
  <2>1. CASE i \in DOMAIN journal \ gone
    BY <1>2, <1>3, <1>4, <2>1 DEF Entered, Unsettled
  <2>2. CASE i \notin DOMAIN journal \ gone
    BY <1>2, <1>4, <2>2 DEF Entered, Unsettled
  <2> QED
    BY <2>1, <2>2
<1>6. \A i \in DOMAIN journal' : i <= minted => i \in DOMAIN journal /\ journal'[i] = journal[i]
  BY <1>0 DEF Entered
<1> QED
  BY <1>0, <1>1, <1>2, <1>3, <1>5, <1>6 DEF Unsettled

\* Only the first unsettled intent was ever claimed.
LEMMA ClaimedIsFirst ==
    ASSUME BaseInv, Chained, NEW i \in Unsettled, journal[i].attempts # 0
    PROVE  IsFirst(i) /\ Unsettled \subseteq Nat
<1>1. Unsettled \subseteq Nat
  BY UnsettledIs DEF BaseInv, TypeOK, Ids
<1> QED
  BY <1>1 DEF Chained, IsFirst

\* An intent that does not wait is the first.
LEMMA UnblockedIsFirst ==
    ASSUME BaseInv, Chained, NEW i \in Unsettled, ~Blocked(journal[i])
    PROVE  IsFirst(i)
<1>1. Unsettled \subseteq Nat /\ \A j \in Unsettled : Has(j) /\ journal[j].state # "acknowledged"
  BY UnsettledIs DEF BaseInv, TypeOK, Ids, Unsettled
<1>2. ASSUME NEW j \in Unsettled, j < i PROVE FALSE
  <2>1. journal[i].after \in Unsettled
    BY <1>2 DEF Chained
  <2>2. journal[i].after # NoId
    BY <2>1, UnsettledIs DEF BaseInv, TypeOK, Ids, NoId
  <2> QED
    BY <1>1, <2>1, <2>2 DEF Blocked
<1> QED
  BY <1>1, <1>2 DEF IsFirst

\* The claim gives the first intent the version of the base row.
LEMMA FirstClaimed ==
    ASSUME BaseInv, NEW i \in Unsettled, Premised(i), ~Blocked(journal[i])
    PROVE  ChainedPremise(journal[i]) = base
<1> DEFINE r == journal[i]
           p == journal[r.after]
<1>1. r.after # NoId => /\ r.after \in DOMAIN journal /\ p.state = "acknowledged" /\ p.version = base
                        /\ p.version = Stored(p.local) /\ p.local \in Heads
  <2>1. ASSUME r.after # NoId
        PROVE  /\ r.after \in DOMAIN journal /\ p.state = "acknowledged" /\ p.version = base
    BY <2>1 DEF Premised, Has
  <2>2. ASSUME r.after # NoId
        PROVE  p.version = Stored(p.local) /\ p.local \in Heads
    BY <2>1, <2>2, RowType DEF BaseInv, TypeOK, Recorded, Honest
  <2> QED
    BY <2>1, <2>2
<1>2. r.base = base \/ (r.attempts = 0 /\ r.after # NoId /\ r.base = p.local)
  BY DEF Premised
<1>3. CASE r.base = base
  BY <1>1, <1>3 DEF ChainedPremise
<1>4. CASE r.attempts = 0 /\ r.after # NoId /\ r.base = p.local
  <2>1. CASE p.local = Absent
    BY <1>1, <1>4, <2>1 DEF ChainedPremise, Stored
  <2>2. CASE p.local # Absent
    BY <1>1, <1>4, <2>2 DEF ChainedPremise, Has
  <2> QED
    BY <2>1, <2>2
<1> QED
  BY <1>2, <1>3, <1>4

-----------------------------------------------------------------------------
(* Linked: claim, settlement and recovery *)

\* The rows keep their places; the first one may be claimed over the base row.
LEMMA LinkedTurns ==
    ASSUME NEW w \in BOOLEAN, BaseInv, Linked(w), UNCHANGED <<doc, base, task>>,
           DOMAIN journal' = DOMAIN journal, Reading(journal'),
           \A i \in DOMAIN journal :
              /\ KeptRow(i) /\ journal'[i].version = journal[i].version
              /\ journal'[i].state = "acknowledged" <=> journal[i].state = "acknowledged"
              /\ \/ journal'[i].attempts = journal[i].attempts
                 \/ /\ i \in Unsettled /\ IsFirst(i)
                    /\ journal'[i].base = base \/ (w /\ base = Absent)
    PROVE  Linked(w)'
<1>0. /\ Chained /\ FirstPremise(w) /\ Accounted /\ Fitting /\ Reading(journal)
      /\ Unsettled \subseteq DOMAIN journal /\ Unsettled \subseteq Nat
      /\ \A i \in DOMAIN journal : journal[i].attempts \in Nat /\ journal'[i].attempts \in Nat
  BY RowType, UnsettledIs DEF Linked, BaseInv, TypeOK, Ids
<1>1. Unsettled' = Unsettled
  BY DEF Unsettled
<1>2. \A i \in DOMAIN journal : /\ journal'[i].local = journal[i].local
                                /\ journal'[i].after = journal[i].after
                                /\ journal[i].attempts <= journal'[i].attempts
                                /\ journal'[i].attempts = journal[i].attempts =>
                                      journal'[i].base = journal[i].base
  BY DEF KeptRow
<1>3. Chained'
  <2> SUFFICES ASSUME NEW i \in Unsettled, NEW j \in Unsettled, i < j
               PROVE  /\ journal'[j].attempts = 0
                      /\ journal'[j].after \in Unsettled /\ i <= journal'[j].after
                      /\ journal'[j].base = journal'[journal'[j].after].local
    BY <1>1 DEF Chained
  <2>1. /\ journal[j].attempts = 0
        /\ journal[j].after \in Unsettled /\ i <= journal[j].after
        /\ journal[j].base = journal[journal[j].after].local
    BY <1>0 DEF Chained
  <2>2. ~IsFirst(j)
    BY <1>0 DEF IsFirst
  <2>3. j \in DOMAIN journal /\ journal[j].after \in DOMAIN journal
    BY <1>0, <2>1
  <2>4. journal'[j].attempts = journal[j].attempts
    BY <2>2, <2>3
  <2> QED
    BY <1>2, <2>1, <2>3, <2>4
<1>4. FirstPremise(w)'
  <2> SUFFICES ASSUME NEW i \in Unsettled, IsFirst(i)
               PROVE  Premised(i)' \/ (w /\ base = Absent)
    BY <1>1 DEF FirstPremise, IsFirst
  <2>0. CASE w /\ base = Absent
    BY <2>0
  <2> SUFFICES ASSUME ~ (w /\ base = Absent)
               PROVE  Premised(i)'
    BY <2>0
  <2>1. Premised(i) /\ i \in DOMAIN journal
    BY <1>0 DEF FirstPremise
  <2>2. /\ journal[i].after # NoId =>
             /\ journal[i].after \in DOMAIN journal /\ journal[journal[i].after].state = "acknowledged"
             /\ journal[journal[i].after].version = base
        /\ \/ journal[i].base = base
           \/ /\ journal[i].attempts = 0 /\ journal[i].after # NoId
              /\ journal[i].base = journal[journal[i].after].local
    BY <2>1 DEF Premised, Has
  <2>3. journal'[i].after = journal[i].after
    BY <1>2, <2>1
  <2>4. journal[i].after # NoId =>
           /\ journal'[journal[i].after].state = "acknowledged"
           /\ journal'[journal[i].after].version = base
           /\ journal'[journal[i].after].local = journal[journal[i].after].local
    BY <1>2, <2>2
  <2>5. \/ journal'[i].attempts = journal[i].attempts /\ journal'[i].base = journal[i].base
        \/ journal'[i].base = base
    BY <1>2, <2>1
  <2> QED
    BY <2>2, <2>3, <2>4, <2>5 DEF Premised, Has
<1>5. Accounted'
  BY <1>0, <1>1, <1>2 DEF Accounted, IsLast
<1>6. Fitting'
  <2> SUFFICES ASSUME NEW t \in Tasks, task[t].pc # "idle", ~task[t].moved
               PROVE  doc = task[t].seen /\ (task[t].pc = "write" => Fits(t)')
    BY DEF Fitting
  <2>1. doc = task[t].seen /\ (task[t].pc = "write" => Fits(t))
    BY <1>0 DEF Fitting
  <2>2. ASSUME task[t].pc = "write" PROVE Fits(t)'
    <3> DEFINE a == task[t].plan.after
    <3>1. Fits(t)
      BY <2>1, <2>2
    <3>2. a \in DOMAIN journal =>
             /\ journal[a].attempts > 0 => journal'[a].attempts > 0
             /\ journal'[a].local = journal[a].local /\ journal'[a].version = journal[a].version
             /\ journal'[a].state = "acknowledged" <=> journal[a].state = "acknowledged"
      <4> HIDE DEF a
      <4>1. ASSUME a \in DOMAIN journal
            PROVE  /\ journal[a].attempts > 0 => journal'[a].attempts > 0
                   /\ journal'[a].local = journal[a].local /\ journal'[a].version = journal[a].version
                   /\ journal'[a].state = "acknowledged" <=> journal[a].state = "acknowledged"
        <5>1. journal[a].attempts \in Nat /\ journal'[a].attempts \in Nat
              /\ journal[a].attempts <= journal'[a].attempts
          BY <1>0, <1>2, <4>1
        <5> QED
          BY <1>2, <4>1, <5>1
      <4> QED
        BY <4>1
    <3> QED
      BY <1>1, <3>1, <3>2 DEF Fits, Has, IsLast
  <2> QED
    BY <2>1, <2>2
<1> QED
  BY <1>3, <1>4, <1>5, <1>6 DEF Linked

LEMMA LinkedClaim ==
    ASSUME NEW w \in BOOLEAN, BaseInv, Linked(w), ClaimIntent
    PROVE  Linked(w)'
<1>0. Chained /\ FirstPremise(w) /\ UNCHANGED <<doc, base, task>> /\ Reading(journal)
  BY DEF Linked, ClaimIntent, BaseInv, TypeOK
<1> DEFINE c == Current
<1>1. /\ c \in DOMAIN journal /\ Intent.state = "pending" /\ ~Blocked(Intent) /\ Intent = journal[c]
      /\ DOMAIN journal' = DOMAIN journal /\ Reading(journal')
      /\ \A i \in DOMAIN journal : i # c => journal'[i] = journal[i]
      /\ journal'[c].base = ChainedPremise(Intent)
      /\ journal'[c].local = Intent.local /\ journal'[c].after = Intent.after
      /\ journal'[c].attempts = Intent.attempts + 1
      /\ journal'[c].state = "in_flight"
      /\ journal'[c].version = Intent.version
  BY ClaimIs DEF Intent
<1> HIDE DEF c
<1>2. c \in Unsettled
  BY <1>0, <1>1, UnsettledIs
<1>3. IsFirst(c)
  BY <1>0, <1>1, <1>2, UnblockedIsFirst
<1>4. Premised(c) \/ (w /\ base = Absent)
  BY <1>0, <1>2, <1>3 DEF FirstPremise
<1>5. journal'[c].base = base \/ (w /\ base = Absent)
  BY <1>1, <1>2, <1>4, FirstClaimed
<1>6. \A i \in DOMAIN journal : journal[i].attempts \in Nat
  BY <1>0, RowType
<1>7. journal[c].attempts # 0 => ChainedPremise(journal[c]) = journal[c].base
  BY DEF ChainedPremise
<1>8. KeptRow(c)
  BY <1>1, <1>6, <1>7 DEF KeptRow
<1>9. \A i \in DOMAIN journal : i # c => KeptRow(i)
  BY <1>1, <1>6 DEF KeptRow
<1> QED
  BY <1>0, <1>1, <1>2, <1>3, <1>5, <1>8, <1>9, LinkedTurns

LEMMA LinkedResumes ==
    ASSUME NEW w \in BOOLEAN, BaseInv, Linked(w), Resume \/ ReclaimInFlight
    PROVE  Linked(w)'
<1>0. Reading(journal) /\ UNCHANGED <<doc, base, task>> /\ BaseInv'
      /\ \A i \in DOMAIN journal : Honest(i)
  BY ResumeBase, ReclaimBase DEF BaseInv, TypeOK, Recorded, Resume, ReclaimInFlight
<1>1. DOMAIN journal' = DOMAIN journal /\ Reading(journal')
  BY <1>0 DEF Resume, ReclaimInFlight, BaseInv, TypeOK, Reading
<1>2. ASSUME NEW i \in DOMAIN journal
      PROVE  /\ KeptRow(i) /\ journal'[i].version = journal[i].version
             /\ journal'[i].state = "acknowledged" <=> journal[i].state = "acknowledged"
             /\ journal'[i].attempts = journal[i].attempts
  <2>1. journal[i] \in Intents /\ journal[i].attempts \in Nat
    BY <1>0, RowType
  <2>2. journal[i].state = "in_flight" => journal[i].attempts # 0
    BY <1>0 DEF Honest
  <2>3. \/ journal'[i] = journal[i]
        \/ /\ journal[i].state \in {"denied", "in_flight"}
           /\ journal'[i] = [journal[i] EXCEPT !.state = "pending"]
    <3>1. CASE Resume
      BY <3>1 DEF Resume
    <3>2. CASE ReclaimInFlight
      <4>1. CASE journal[i].state # "in_flight"
        BY <3>2, <4>1 DEF ReclaimInFlight
      <4>2. CASE journal[i].state = "in_flight"
        <5>1. journal'[i] = [journal[i] EXCEPT !.state = "pending", !.attempts = journal[i].attempts]
          BY <2>2, <3>2, <4>2 DEF ReclaimInFlight
        <5> QED
          BY <2>1, <4>2, <5>1 DEF Intents
      <4> QED
        BY <4>1, <4>2
    <3> QED
      BY <3>1, <3>2
  <2> QED
    BY <2>1, <2>3 DEF Intents, KeptRow
<1> QED
  BY <1>0, <1>1, <1>2, LinkedTurns

LEMMA LinkedSettles ==
    ASSUME NEW w \in BOOLEAN, BaseInv, Linked(w), NEW a, NEW pauses, Settling(a), Settle(a, pauses)
    PROVE  Linked(w)'
<1>0. /\ Chained /\ FirstPremise(w) /\ Accounted /\ Fitting /\ Reading(journal)
      /\ doc' = doc /\ task' = task /\ doc \in Heads
  BY DEF Linked, Settle, BaseInv, TypeOK
<1> DEFINE c == Current
<1>1. /\ c \in DOMAIN journal /\ Intent = journal[c] /\ journal[c].state = "in_flight"
      /\ journal[c].attempts # 0
      /\ DOMAIN journal' = DOMAIN journal /\ Reading(journal')
      /\ \A i \in DOMAIN journal : i # c => journal'[i] = journal[i]
      /\ journal'[c].base = journal[c].base
      /\ journal'[c].local = journal[c].local /\ journal'[c].after = journal[c].after
      /\ journal[c].attempts <= journal'[c].attempts
      /\ IF journal'[c].state = "acknowledged"
         THEN /\ journal'[c].version = Stored(journal[c].local) /\ base' = Stored(journal[c].local)
         ELSE /\ journal'[c].version = journal[c].version /\ base' = base
  BY SettleIs DEF Intent
<1> HIDE DEF c
<1>2. c \in Unsettled /\ Unsettled \subseteq DOMAIN journal /\ Unsettled \subseteq Nat
  BY <1>0, <1>1, UnsettledIs DEF Ids
<1>3. IsFirst(c) /\ (Premised(c) \/ (w /\ base = Absent))
  BY <1>0, <1>1, <1>2, ClaimedIsFirst DEF FirstPremise
<1>4. journal[c].base = base \/ (w /\ base = Absent)
  BY <1>1, <1>3 DEF Premised
<1>5. \A i \in DOMAIN journal : journal[i].attempts \in Nat /\ journal'[i].attempts \in Nat
  BY <1>0, <1>1, RowType
<1>6. \A i \in DOMAIN journal : KeptRow(i)
  BY <1>1, <1>5 DEF KeptRow
<1>7. CASE journal'[c].state # "acknowledged"
  BY <1>0, <1>1, <1>2, <1>3, <1>4, <1>6, <1>7, LinkedTurns
<1>8. CASE journal'[c].state = "acknowledged"
  <2>1. Unsettled' = Unsettled \ {c}
    BY <1>1, <1>8 DEF Unsettled
  <2>2. \A i \in Unsettled' : i \in Unsettled /\ c < i /\ journal'[i] = journal[i]
    BY <1>1, <1>2, <1>3, <2>1 DEF IsFirst
  <2>3. base' = Stored(journal[c].local) /\ journal'[c].version = base'
    BY <1>1, <1>8
  <2>4. Chained'
    <3> SUFFICES ASSUME NEW i \in Unsettled', NEW j \in Unsettled', i < j
                 PROVE  /\ journal'[j].attempts = 0
                        /\ journal'[j].after \in Unsettled' /\ i <= journal'[j].after
                        /\ journal'[j].base = journal'[journal'[j].after].local
      BY DEF Chained
    <3>1. /\ journal[j].attempts = 0
          /\ journal[j].after \in Unsettled /\ i <= journal[j].after
          /\ journal[j].base = journal[journal[j].after].local
      BY <1>0, <2>2 DEF Chained
    <3>2. journal[j].after # c
      BY <1>2, <2>2, <3>1
    <3> QED
      BY <2>1, <2>2, <3>1, <3>2
  <2>5. FirstPremise(w)'
    <3> SUFFICES ASSUME NEW i \in Unsettled', IsFirst(i)'
                 PROVE  Premised(i)'
      BY DEF FirstPremise
    <3>1. /\ journal[i].attempts = 0
          /\ journal[i].after \in Unsettled
          /\ journal[i].base = journal[journal[i].after].local
      BY <1>0, <1>2, <2>2 DEF Chained
    <3>2. journal[i].after < i
      BY <1>2, <2>2 DEF BaseInv, Numbered
    <3>3. journal[i].after = c
      BY <1>2, <2>1, <2>2, <3>1, <3>2 DEF IsFirst
    <3>4. /\ journal'[i].after = c /\ journal'[i].attempts = 0
          /\ journal'[i].base = journal[c].local
      BY <2>2, <3>1, <3>3
    <3>5. c \in DOMAIN journal' /\ journal'[c].local = journal[c].local
      BY <1>1
    <3>6. c # NoId
      BY <1>0, <1>2, UnsettledIs DEF Ids, NoId
    <3> QED
      BY <1>8, <2>3, <3>4, <3>5, <3>6 DEF Premised, Has
  <2>6. Accounted'
    <3>1. CASE Unsettled' = {}
      <4>1. IsLast(c)
        BY <1>2, <2>1, <3>1 DEF IsLast
      <4>2. doc = journal[c].local
        BY <1>0, <1>2, <4>1 DEF Accounted
      <4> QED
        BY <1>0, <2>3, <3>1, <4>2 DEF Accounted
    <3>2. CASE Unsettled' # {}
      <4> SUFFICES ASSUME NEW i \in Unsettled', IsLast(i)'
                   PROVE  doc = journal'[i].local
        BY <1>0, <3>2 DEF Accounted
      <4>1. IsLast(i)
        BY <1>2, <2>1, <2>2 DEF IsLast
      <4> QED
        BY <1>0, <2>2, <4>1 DEF Accounted
    <3> QED
      BY <3>1, <3>2
  <2>7. Fitting'
    <3> SUFFICES ASSUME NEW t \in Tasks, task[t].pc # "idle", ~task[t].moved
                 PROVE  doc = task[t].seen /\ (task[t].pc = "write" => Fits(t)')
      BY <1>0 DEF Fitting
    <3>1. doc = task[t].seen /\ (task[t].pc = "write" => Fits(t))
      BY <1>0 DEF Fitting
    <3>2. ASSUME task[t].pc = "write" PROVE Fits(t)'
      <4> DEFINE plan == task[t].plan
                 b == task[t].plan.after
                 first == DOMAIN task[t].supersede = {}
      <4>1. /\ \A i \in DOMAIN task[t].supersede \cap Unsettled : IsLast(i)
            /\ first => plan # NoPlan
            /\ first /\ b = NoId => Unsettled = {} /\ plan.base = base
            /\ first /\ b # NoId /\ b \in DOMAIN journal =>
                  /\ journal[b].attempts > 0
                  /\ plan.base = journal[b].local
                  /\ IF journal[b].state = "acknowledged"
                     THEN Unsettled = {} /\ base = journal[b].version
                     ELSE IsLast(b)
        BY <3>1, <3>2 DEF Fits, Has
      <4>2. \A i \in DOMAIN task[t].supersede \cap Unsettled' : IsLast(i)'
        BY <2>1, <4>1 DEF IsLast
      <4> HIDE DEF plan, b, first
      <4>3. ~ (first /\ b = NoId)
        BY <1>2, <4>1
      <4>4. ASSUME first, b # NoId, b \in DOMAIN journal
            PROVE  /\ journal'[b].attempts > 0
                   /\ plan.base = journal'[b].local
                   /\ IF journal'[b].state = "acknowledged"
                      THEN Unsettled' = {} /\ base' = journal'[b].version
                      ELSE IsLast(b)'
        <5>1. journal[b].state # "acknowledged" /\ IsLast(b)
          BY <1>2, <4>1, <4>4
        <5>2. journal[b].attempts \in Nat /\ journal'[b].attempts \in Nat
              /\ journal[b].attempts <= journal'[b].attempts /\ journal'[b].local = journal[b].local
          BY <1>5, <1>6, <4>4 DEF KeptRow
        <5>3. journal'[b].attempts > 0 /\ plan.base = journal'[b].local
          BY <4>1, <4>4, <5>2
        <5>4. CASE b = c
          <6>1. Unsettled' = {}
            BY <1>2, <1>3, <2>1, <5>1, <5>4 DEF IsFirst, IsLast
          <6> QED
            BY <1>8, <2>3, <5>3, <5>4, <6>1
        <5>5. CASE b # c
          <6>1. journal'[b] = journal[b]
            BY <1>1, <4>4, <5>5
          <6>2. b' = b
            BY <1>0 DEF b
          <6>3. IsLast(b)'
            BY <2>1, <5>1, <6>2 DEF IsLast
          <6> QED
            BY <5>1, <5>3, <6>1, <6>3
        <5> QED
          BY <5>4, <5>5
      <4>5. first' <=> first
        BY <1>0 DEF first
      <4> USE DEF plan, b, first
      <4> QED
        BY <1>0, <1>1, <4>1, <4>2, <4>3, <4>4 DEF Fits, Has
    <3> QED
      BY <3>1, <3>2
  <2> QED
    BY <2>4, <2>5, <2>6, <2>7 DEF Linked
<1> QED
  BY <1>7, <1>8

-----------------------------------------------------------------------------
(* Linked: intents enter and leave *)

Linking(w) == Chained /\ FirstPremise(w) /\ Accounted

\* The whole chain leaves: an intent that enters is premised on the base row.
LEMMA ChainRenewed ==
    ASSUME NEW w \in BOOLEAN, BaseInv, NEW gone, Unsettled \subseteq gone,
           NEW plan, Enterable(plan), Entered(gone, plan), base' \in Heads,
           plan = NoPlan => Stored(doc') = base',
           plan # NoPlan => doc' = plan.local,
           plan # NoPlan /\ ~ (w /\ base' = Absent) =>
              /\ plan.after # NoId =>
                    /\ plan.after \in DOMAIN journal \ gone
                    /\ journal[plan.after].state = "acknowledged"
                    /\ journal[plan.after].version = base'
              /\ \/ plan.base = base'
                 \/ plan.after # NoId /\ plan.base = journal[plan.after].local
    PROVE  Linking(w)'
<1>0. /\ Unsettled' = IF plan = NoPlan THEN {} ELSE {minted + 1}
      /\ \A i \in DOMAIN journal \ gone : i \in DOMAIN journal' /\ journal'[i] = journal[i]
      /\ plan # NoPlan => /\ minted + 1 \in DOMAIN journal'
                          /\ journal'[minted + 1].base = plan.base
                          /\ journal'[minted + 1].local = plan.local
                          /\ journal'[minted + 1].after = plan.after
                          /\ journal'[minted + 1].attempts = 0
  <2>1. \A i \in DOMAIN journal \ gone : i \in DOMAIN journal' /\ journal'[i] = journal[i]
    BY DEF Entered
  <2> QED
    BY <2>1, EnteredUnsettled
<1>1. CASE plan = NoPlan
  <2>1. Unsettled' = {}
    BY <1>0, <1>1
  <2> QED
    BY <1>1, <2>1 DEF Linking, Chained, FirstPremise, Accounted
<1>2. CASE plan # NoPlan
  <2> DEFINE n == minted + 1
  <2>0. minted \in Nat
    BY DEF BaseInv, TypeOK
  <2>1. Unsettled' = {n}
    BY <1>0, <1>2
  <2>2. /\ journal'[n].base = plan.base /\ journal'[n].local = plan.local
        /\ journal'[n].after = plan.after /\ journal'[n].attempts = 0
    BY <1>0, <1>2
  <2>3. n \in Nat
    BY <2>0
  <2> DEFINE a == plan.after
  <2>4. ~ (w /\ base' = Absent) /\ a # NoId =>
           /\ a \in DOMAIN journal' /\ journal'[a] = journal[a]
           /\ journal[a].state = "acknowledged" /\ journal[a].version = base'
    BY <1>0, <1>2
  <2>5. ~ (w /\ base' = Absent) => plan.base = base' \/ (a # NoId /\ plan.base = journal[a].local)
    BY <1>2
  <2> HIDE DEF n
  <2>6. Chained'
    BY <2>1, <2>3 DEF Chained
  <2>7. Accounted'
    BY <1>2, <2>1, <2>2 DEF Accounted
  <2>8. FirstPremise(w)'
    <3> SUFFICES ASSUME NEW i \in Unsettled', ~ (w /\ base' = Absent)
                 PROVE  Premised(i)'
      BY DEF FirstPremise
    <3>1. i = n
      BY <2>1
    <3>2. journal'[i].base = plan.base /\ journal'[i].after = a /\ journal'[i].attempts = 0
      BY <2>2, <3>1
    <3> HIDE DEF a
    <3> QED
      BY <2>4, <2>5, <3>2 DEF Premised, Has
  <2> QED
    BY <2>6, <2>7, <2>8 DEF Linking
<1> QED
  BY <1>1, <1>2

\* The chain goes on after p, the last intent that stays.
LEMMA ChainExtended ==
    ASSUME NEW w \in BOOLEAN, BaseInv, Chained, FirstPremise(w), NEW gone, gone \subseteq Unsettled,
           NEW plan, Enterable(plan), Entered(gone, plan), base' = base,
           NEW p \in Unsettled \ gone,
           \A i \in Unsettled \ gone : i <= p, \A i \in gone : p < i,
           plan = NoPlan => doc' = journal[p].local,
           plan # NoPlan => doc' = plan.local /\ plan.after = p /\ plan.base = journal[p].local
    PROVE  Linking(w)'
<1> DEFINE n == minted + 1
           Stay == Unsettled \ gone
<1>0. /\ Unsettled' = Stay \union (IF plan = NoPlan THEN {} ELSE {n})
      /\ \A i \in Stay : journal'[i] = journal[i]
      /\ \A i \in Unsettled : i \in Nat /\ i <= minted
      /\ plan # NoPlan => /\ journal'[n].base = plan.base /\ journal'[n].local = plan.local
                          /\ journal'[n].after = plan.after /\ journal'[n].attempts = 0
  BY EnteredUnsettled
<1>1. minted \in Nat /\ n \in Nat /\ minted < n /\ \A i \in Unsettled : i \in Nat /\ i < n
  BY <1>0 DEF BaseInv, TypeOK
<1>2. p \in Stay /\ p \in Unsettled /\ p \in Nat
  BY <1>1
<1>3. \A i \in DOMAIN journal \ gone : i \in DOMAIN journal' /\ journal'[i] = journal[i]
  BY DEF Entered
<1>4. /\ \A i \in DOMAIN journal : journal[i].after < i /\ journal[i].after \in Nat
      /\ Unsettled \subseteq DOMAIN journal
  <2>1. Reading(journal)
    BY DEF BaseInv, TypeOK
  <2> QED
    BY <2>1, RowType, UnsettledIs DEF BaseInv, Numbered
<1> HIDE DEF n
<1>5. \A j \in Stay : j <= p /\ j \in Nat /\ j \in Unsettled
  BY <1>1
<1>6. Chained'
  <2> SUFFICES ASSUME NEW i \in Unsettled', NEW j \in Unsettled', i < j
               PROVE  /\ journal'[j].attempts = 0
                      /\ journal'[j].after \in Unsettled' /\ i <= journal'[j].after
                      /\ journal'[j].base = journal'[journal'[j].after].local
    BY DEF Chained
  <2>1. CASE j \in Stay
    <3>1. i \in Stay
      BY <1>0, <1>1, <1>5, <2>1
    <3>2. /\ journal[j].attempts = 0
          /\ journal[j].after \in Unsettled /\ i <= journal[j].after
          /\ journal[j].base = journal[journal[j].after].local
      BY <2>1, <3>1 DEF Chained
    <3>3. journal[j].after < j /\ journal[j].after \in Nat
      BY <1>4, <2>1
    <3>4. journal[j].after \in Stay
      BY <1>2, <1>5, <2>1, <3>2, <3>3
    <3> QED
      BY <1>0, <2>1, <3>2, <3>4
  <2>2. CASE j \notin Stay
    <3>1. plan # NoPlan /\ j = n
      BY <1>0, <2>2
    <3>2. i \in Stay
      BY <1>0, <3>1, <1>1
    <3>3. journal'[j].attempts = 0 /\ journal'[j].after = p /\ journal'[j].base = journal[p].local
      BY <1>0, <3>1
    <3>4. journal'[p] = journal[p] /\ p \in Unsettled'
      BY <1>0, <1>2
    <3> QED
      BY <1>5, <3>2, <3>3, <3>4
  <2> QED
    BY <2>1, <2>2
<1>7. FirstPremise(w)'
  <2> SUFFICES ASSUME NEW i \in Unsettled', \A j \in Unsettled' : i <= j, ~ (w /\ base = Absent)
               PROVE  Premised(i)'
    BY DEF FirstPremise, IsFirst
  <2>1. i \in Stay
    BY <1>0, <1>1, <1>2
  <2>2. IsFirst(i)
    <3> SUFFICES ASSUME NEW j \in Unsettled PROVE i <= j
      BY DEF IsFirst
    <3>1. CASE j \in Stay
      BY <1>0, <3>1
    <3>2. CASE j \in gone
      BY <1>1, <1>2, <1>5, <2>1, <3>2
    <3> QED
      BY <3>1, <3>2
  <2>3. Premised(i)
    BY <2>1, <2>2 DEF FirstPremise
  <2>4. journal'[i] = journal[i]
    BY <1>0, <2>1
  <2> DEFINE a == journal[i].after
  <2>5. a # NoId => a \in DOMAIN journal' /\ journal'[a] = journal[a]
    <3>1. a # NoId => a \in DOMAIN journal /\ journal[a].state = "acknowledged"
      BY <2>3 DEF Premised, Has
    <3>2. a # NoId => a \notin gone
      BY <3>1 DEF Unsettled
    <3> QED
      BY <1>3, <3>1, <3>2
  <2> QED
    BY <2>3, <2>4, <2>5 DEF Premised, Has
<1>8. Accounted'
  <2> SUFFICES ASSUME NEW i \in Unsettled', \A j \in Unsettled' : j <= i
               PROVE  doc' = journal'[i].local
    BY <1>0, <1>2 DEF Accounted, IsLast
  <2>1. CASE plan = NoPlan
    <3>1. i = p
      BY <1>0, <1>2, <1>5, <2>1
    <3> QED
      BY <1>0, <1>2, <2>1, <3>1
  <2>2. CASE plan # NoPlan
    <3>1. i = n
      BY <1>0, <1>1, <1>5, <2>2
    <3> QED
      BY <1>0, <2>2, <3>1
  <2> QED
    BY <2>1, <2>2
<1> QED
  BY <1>6, <1>7, <1>8 DEF Linking

\* The content of an acknowledged intent is what it was acknowledged at.
LEMMA AcknowledgedIs ==
    ASSUME BaseInv, NEW i \in DOMAIN journal, journal[i].state = "acknowledged"
    PROVE  journal[i].version = Stored(journal[i].local)
BY DEF BaseInv, Recorded, Honest

LEMMA WriteLinking ==
    ASSUME NEW w \in BOOLEAN, BaseInv, Linked(w), NEW t \in Tasks, Write(t), ~task[t].moved, ~Unhinged(t)
    PROVE  Linking(w)' /\ doc' # doc
<1> DEFINE gone == DOMAIN task[t].supersede
           plan == task[t].plan
           content == task[t].content
<1>0. /\ TypeOK /\ Numbered /\ Reading(journal) /\ base \in Heads /\ minted \in 0 .. MaxIds
      /\ Chained /\ FirstPremise(w) /\ Accounted /\ Fitting
      /\ task[t].pc = "write" /\ TaskOK(task[t]) /\ Composed(t)
      /\ Journaled(gone, plan, content) /\ base' = base
      /\ SupersedeHolds(task[t].supersede)
  BY DEF BaseInv, TypeOK, Linked, Write, Carried
<1>1. content \in Heads /\ plan \in Plans /\ Reading(task[t].supersede)
  BY <1>0, TaskType
<1>2. Enterable(plan)
  BY <1>0, <1>1 DEF Numbered, Enterable
<1>3. Entered(gone, plan) /\ doc' = content
  <2> HIDE DEF gone, plan, content
  <2> QED
    BY <1>0, <1>2, JournaledIs
<1>4. doc = task[t].seen /\ Fits(t) /\ content # doc
  BY <1>0 DEF Fitting, Composed
<1>5. doc' # doc
  BY <1>3, <1>4
<1>6. Unsettled \subseteq DOMAIN journal /\ Unsettled \subseteq Nat
      /\ \A i \in DOMAIN journal : i \in Unsettled <=> journal[i].state # "acknowledged"
  BY <1>0, UnsettledIs DEF Ids
<1>7. CASE gone = {}
  <2>1. /\ plan # NoPlan
        /\ plan.after = NoId => Unsettled = {} /\ plan.base = base
        /\ plan.after # NoId /\ Has(plan.after) =>
              /\ plan.base = journal[plan.after].local
              /\ IF journal[plan.after].state = "acknowledged"
                 THEN Unsettled = {} /\ base = journal[plan.after].version
                 ELSE IsLast(plan.after)
    BY <1>4, <1>7 DEF Fits
  <2>2. doc' = plan.local
    BY <1>0, <1>3, <2>1 DEF Composed
  <2>3. plan.after # NoId => Has(plan.after)
    <3>1. plan.after <= minted /\ plan.after \in 0 .. MaxIds + 1
      BY <1>1, <1>2, <2>1 DEF Enterable, Plans
    <3>2. plan.after # NoPlan.after
      BY <1>0, <3>1, JournalAssumption DEF NoPlan
    <3> QED
      BY <1>0, <3>2 DEF Unhinged
  <2> HIDE DEF gone, plan, content
  <2>4. CASE Unsettled = {}
    <3>1. plan.after # NoId =>
             /\ plan.after \in DOMAIN journal \ gone
             /\ journal[plan.after].state = "acknowledged"
             /\ journal[plan.after].version = base'
      BY <1>0, <1>6, <1>7, <2>1, <2>3, <2>4 DEF Has
    <3>2. plan.base = base' \/ (plan.after # NoId /\ plan.base = journal[plan.after].local)
      BY <1>0, <2>1, <2>3
    <3>3. base' \in Heads /\ Unsettled \subseteq gone
      BY <1>0, <2>4
    <3>4. Linking(w)'
      BY <1>2, <1>3, <2>1, <2>2, <3>1, <3>2, <3>3, ChainRenewed
    <3> QED
      BY <3>4, <1>5
  <2>5. CASE Unsettled # {}
    <3> DEFINE p == plan.after
    <3>1. p # NoId /\ p \in DOMAIN journal /\ journal[p].state # "acknowledged" /\ IsLast(p)
          /\ plan.base = journal[p].local
      BY <2>1, <2>3, <2>5 DEF Has
    <3>2. p \in Unsettled \ gone /\ (\A i \in Unsettled \ gone : i <= p) /\ (\A i \in gone : p < i)
      BY <1>6, <1>7, <3>1 DEF IsLast
    <3>3. plan.after = p
      OBVIOUS
    <3>4. gone \subseteq Unsettled
      BY <1>7
    <3> HIDE DEF p
    <3>5. Linking(w)'
      BY <1>0, <1>2, <1>3, <2>1, <2>2, <3>1, <3>2, <3>3, <3>4, ChainExtended
    <3> QED
      BY <3>5, <1>5
  <2> QED
    BY <2>4, <2>5
<1>8. CASE gone # {}
  <2>1. PICK k \in gone : TRUE
    BY <1>8
  <2> DEFINE r == journal[k]
             s == task[t].supersede[k]
  <2>2. /\ gone = {k} /\ MayBeReplaced(s) /\ plan = SupersedingIntent(s, content)
        /\ k \in DOMAIN journal /\ r.state = s.state /\ r.attempts = s.attempts
        /\ r.local = s.local /\ r.after = s.after /\ r.base = s.base
    BY <1>0, <2>1 DEF Composed, SupersedeHolds, AsRead, Has
  <2>3. k \in Unsettled /\ IsLast(k)
    <3>1. r.state # "acknowledged"
      BY <2>2 DEF MayBeReplaced, NeverDelivered
    <3>2. k \in Unsettled
      BY <1>6, <2>2, <3>1
    <3> QED
      BY <1>4, <2>2, <3>2 DEF Fits
  <2>4. s \in Intents
    BY <1>1, <2>1 DEF Reading
  <2>5. /\ plan = NoPlan <=> content = Absent /\ r.base = Absent
        /\ plan # NoPlan => plan.base = r.base /\ plan.local = content /\ plan.after = r.after
    <3> HIDE DEF r, s, content, plan
    <3> QED
      BY <1>1, <2>2, <2>4, SupersedingIs
  <2>6. gone \subseteq Unsettled /\ r.after < k /\ r.after \in Nat
    BY <1>0, <2>2, <2>3, RowType DEF Numbered
  <2> HIDE DEF gone, plan, content, s
  <2>7. CASE Unsettled = {k}
    <3>1. Premised(k) \/ (w /\ base = Absent)
      <4>1. IsFirst(k)
        BY <1>6, <2>7, <2>3 DEF IsFirst
      <4> QED
        BY <1>0, <2>3, <4>1 DEF FirstPremise
    <3>2. ~ (w /\ base' = Absent) =>
          /\ r.after # NoId => /\ r.after \in DOMAIN journal \ gone
                               /\ journal[r.after].state = "acknowledged"
                               /\ journal[r.after].version = base'
          /\ r.base = base' \/ (r.after # NoId /\ r.base = journal[r.after].local)
      <4> SUFFICES ASSUME ~ (w /\ base' = Absent)
                   PROVE  /\ r.after # NoId => /\ r.after \in DOMAIN journal \ gone
                                               /\ journal[r.after].state = "acknowledged"
                                               /\ journal[r.after].version = base'
                          /\ r.base = base' \/ (r.after # NoId /\ r.base = journal[r.after].local)
        OBVIOUS
      <4>0. Premised(k)
        BY <1>0, <3>1
      <4>1. /\ r.after # NoId => r.after \in DOMAIN journal /\ journal[r.after].state = "acknowledged"
                                 /\ journal[r.after].version = base
            /\ r.base = base \/ (r.after # NoId /\ r.base = journal[r.after].local)
        BY <4>0 DEF Premised, Has
      <4>2. r.after # NoId => r.after \notin gone
        BY <1>6, <2>6, <4>1
      <4> QED
        BY <1>0, <4>1, <4>2
    <3>3. plan = NoPlan => Stored(doc') = base'
      <4> SUFFICES ASSUME plan = NoPlan PROVE Stored(doc') = base'
        OBVIOUS
      <4>1. doc' = Absent /\ r.base = Absent
        BY <1>3, <2>5
      <4>2. CASE r.base = base' \/ base' = Absent
        BY <4>1, <4>2 DEF Stored
      <4>3. CASE base' # Absent /\ r.after # NoId /\ r.base = journal[r.after].local
        <5>1. journal[r.after].version = Stored(Absent)
          BY <3>2, <4>1, <4>3, AcknowledgedIs
        <5> QED
          BY <3>2, <4>1, <4>3, <5>1
      <4> QED
        BY <3>2, <4>2, <4>3
    <3>4. plan # NoPlan => doc' = plan.local
      BY <1>3, <2>5
    <3>5. plan # NoPlan /\ ~ (w /\ base' = Absent) =>
             /\ plan.after # NoId =>
                   /\ plan.after \in DOMAIN journal \ gone
                   /\ journal[plan.after].state = "acknowledged"
                   /\ journal[plan.after].version = base'
             /\ \/ plan.base = base'
                \/ plan.after # NoId /\ plan.base = journal[plan.after].local
      <4> SUFFICES ASSUME plan # NoPlan, ~ (w /\ base' = Absent)
                   PROVE  /\ plan.after # NoId =>
                                /\ plan.after \in DOMAIN journal \ gone
                                /\ journal[plan.after].state = "acknowledged"
                                /\ journal[plan.after].version = base'
                          /\ \/ plan.base = base'
                             \/ plan.after # NoId /\ plan.base = journal[plan.after].local
        OBVIOUS
      <4>1. plan.base = r.base /\ plan.local = content /\ plan.after = r.after
        BY <2>5
      <4> QED
        BY <1>3, <3>2, <4>1
    <3>6. base' \in Heads /\ Unsettled \subseteq gone
      BY <1>0, <2>2, <2>7
    <3>7. Linking(w)'
      BY <1>2, <1>3, <3>3, <3>4, <3>5, <3>6, ChainRenewed
    <3> QED
      BY <3>7, <1>5
  <2>8. CASE Unsettled # {k}
    <3>1. PICK i \in Unsettled : i # k
      BY <2>3, <2>8
    <3>2. i < k
      BY <1>6, <2>3, <3>1 DEF IsLast
    <3> DEFINE p == r.after
    <3>3. p \in Unsettled /\ r.base = journal[p].local
      BY <1>0, <2>3, <3>2 DEF Chained
    <3>4. p \in Unsettled \ gone /\ \A j \in gone : p < j
      BY <2>2, <2>6, <3>3
    <3>5. ASSUME NEW j \in Unsettled \ gone PROVE j <= p
      <4>1. j \in Unsettled /\ j < k
        BY <1>6, <2>2, <2>3, <3>5 DEF IsLast
      <4> QED
        BY <1>0, <2>3, <4>1 DEF Chained
    <3>6. plan = NoPlan => doc' = journal[p].local
      BY <1>3, <2>5, <3>3
    <3>7. plan # NoPlan => doc' = plan.local /\ plan.after = p /\ plan.base = journal[p].local
      BY <1>3, <2>5, <3>3
    <3> HIDE DEF p
    <3>8. Linking(w)'
      BY <1>0, <1>2, <1>3, <2>6, <3>4, <3>5, <3>6, <3>7, ChainExtended
    <3> QED
      BY <3>8, <1>5
  <2> QED
    BY <2>7, <2>8
<1> QED
  BY <1>7, <1>8

\* What a local operation is about to write fits the journal its chain has left.
LEMMA FitsGone ==
    ASSUME BaseInv, Unsettled # {}, NEW plan, Enterable(plan), Entered(Unsettled, plan),
           NEW t \in Tasks, task[t].pc = "write", Fits(t), task'[t] = task[t]
    PROVE  Fits(t)'
<1> DEFINE rows == task[t].supersede
           a == task[t].plan.after
           first == DOMAIN task[t].supersede = {}
<1>0. /\ Unsettled' \subseteq {minted + 1} /\ minted \in Nat /\ Reading(rows)
      /\ \A i \in DOMAIN journal' : i <= minted => i \in DOMAIN journal /\ journal'[i] = journal[i]
      /\ \A i \in DOMAIN journal' : i <= minted => i \notin Unsettled
  <2>1. Unsettled' = (Unsettled \ Unsettled) \union (IF plan = NoPlan THEN {} ELSE {minted + 1})
    BY EnteredUnsettled
  <2>2. \A i \in DOMAIN journal' : i <= minted => i \in DOMAIN journal /\ journal'[i] = journal[i]
    BY EnteredUnsettled
  <2>3. minted \in Nat /\ Reading(rows)
    BY TaskType DEF BaseInv, TypeOK
  <2>4. ASSUME NEW i \in DOMAIN journal', i <= minted PROVE i \notin Unsettled
    BY <2>3, <2>4 DEF Entered
  <2> QED
    BY <2>1, <2>2, <2>3, <2>4
<1>1. DOMAIN rows \cap Unsettled' = {}
  <2>1. \A i \in DOMAIN rows : i \in Nat /\ i <= minted
    BY <1>0, RowType DEF BaseInv, Numbered
  <2> QED
    BY <1>0, <2>1
<1>2. first => task[t].plan # NoPlan /\ a # NoId
  BY DEF Fits
<1>3. ASSUME first, a \in DOMAIN journal' PROVE FALSE
  <2>1. a <= minted
    BY <1>2, <1>3 DEF BaseInv, Numbered
  <2>2. a \in DOMAIN journal /\ a \notin Unsettled
    BY <1>0, <1>3, <2>1
  <2>3. journal[a].state = "acknowledged"
    BY <2>2 DEF Unsettled
  <2> QED
    BY <1>2, <1>3, <2>2, <2>3 DEF Fits, Has
<1> QED
  BY <1>1, <1>2, <1>3 DEF Fits, Has

\* A step that ends a local operation: those of the others that no change
\* overtakes find the document as they read it.
LEMMA FittingEnds ==
    ASSUME BaseInv, Fitting, NEW t \in Tasks, EndTask(t),
           doc' = doc => Unsettled # {} /\ \E plan \in Plans : Enterable(plan) /\ Entered(Unsettled, plan)
    PROVE  Fitting'
<1>1. task' = [u \in Tasks |->
          IF u = t THEN Idle
          ELSE IF doc' # doc /\ task[u].pc # "idle" THEN [task[u] EXCEPT !.moved = TRUE]
          ELSE task[u]]
  BY DEF EndTask
<1>2. ASSUME NEW u \in Tasks, task'[u].pc # "idle", ~task'[u].moved
      PROVE  doc' = task'[u].seen /\ (task'[u].pc = "write" => Fits(u)')
  <2>1. u # t
    BY <1>1, <1>2 DEF Idle
  <2>2. ~ (doc' # doc /\ task[u].pc # "idle")
    <3> SUFFICES ASSUME doc' # doc, task[u].pc # "idle" PROVE FALSE
      OBVIOUS
    <3>1. task'[u] = [task[u] EXCEPT !.moved = TRUE]
      BY <1>1, <2>1
    <3>2. TaskOK(task[u])
      BY DEF BaseInv, TypeOK
    <3> DEFINE k == task[u]
    <3>3. [k EXCEPT !.moved = TRUE].moved
      <4>1. TaskOK(k) /\ k.pc # "idle"
        BY <3>2
      <4> HIDE DEF k
      <4> QED
        BY <4>1, MovedIs
    <3> QED
      BY <1>2, <3>1, <3>3
  <2>3. task'[u] = task[u]
    BY <1>1, <2>1, <2>2
  <2>4. doc' = doc /\ doc = task[u].seen /\ (task[u].pc = "write" => Fits(u))
    BY <1>2, <2>2, <2>3 DEF Fitting
  <2>5. PICK plan \in Plans : Unsettled # {} /\ Enterable(plan) /\ Entered(Unsettled, plan)
    BY <2>4
  <2>6. task[u].pc = "write" => Fits(u)'
    BY <2>3, <2>4, <2>5, FitsGone
  <2> QED
    BY <2>3, <2>4, <2>6
<1> QED
  BY <1>2 DEF Fitting

LEMMA LinkedWrite ==
    ASSUME NEW w \in BOOLEAN, BaseInv, Linked(w), NEW t \in Tasks, Write(t), ~task[t].moved, ~Unhinged(t)
    PROVE  Linked(w)'
<1>1. Linking(w)' /\ doc' # doc
  BY WriteLinking
<1>2. Fitting'
  BY <1>1, FittingEnds DEF Linked, Write
<1> QED
  BY <1>1, <1>2 DEF Linked, Linking

LEMMA LinkedResolved ==
    ASSUME NEW w \in BOOLEAN, BaseInv, Linked(w), NEW t \in Tasks, NEW plan, Enterable(plan), NEW content \in Heads,
           Resolved(t, plan, content),
           IF plan = NoPlan THEN content = task[t].remote
           ELSE plan.base = task[t].remote /\ plan.local = content /\ plan.after = NoId
    PROVE  Linked(w)'
<1>0. /\ TypeOK /\ Numbered /\ Reading(journal) /\ Fitting
      /\ task[t].pc = "review" /\ TaskOK(task[t]) /\ Reviewed(t)
      /\ Rows(Unsettled) = task[t].rows
      /\ Journaled(Unsettled, plan, content) /\ base' = task[t].remote /\ EndTask(t)
  BY DEF BaseInv, TypeOK, Linked, Resolved, Carried
<1>1. base' \in Heads /\ Stored(base') = base'
  BY <1>0, ServedIsStored DEF Reviewed
<1> DEFINE gone == Unsettled
<1>2. Entered(gone, plan) /\ doc' = content
  <2>1. Journaled(gone, plan, content)
    BY <1>0
  <2> HIDE DEF gone
  <2> QED
    BY <1>0, <2>1, JournaledIs
<1>3. Unsettled # {}
  <2>1. Unsettled \subseteq DOMAIN journal
    BY <1>0, UnsettledIs
  <2>2. DOMAIN task[t].rows = Unsettled
    BY <1>0, <2>1, RowsType
  <2> QED
    BY <1>0, <2>2 DEF Reviewed
<1>4. Linking(w)'
  <2>1. plan = NoPlan => Stored(doc') = base'
    BY <1>0, <1>1, <1>2
  <2>2. plan # NoPlan => doc' = plan.local /\ plan.after = NoId /\ plan.base = base'
    BY <1>0, <1>2
  <2>3. Unsettled \subseteq gone
    OBVIOUS
  <2> HIDE DEF gone
  <2> QED
    BY <1>1, <1>2, <2>1, <2>2, <2>3, ChainRenewed
<1>5. Fitting'
  <2>1. plan \in Plans
    BY DEF Enterable
  <2> QED
    BY <1>0, <1>2, <1>3, <2>1, FittingEnds
<1> QED
  BY <1>4, <1>5 DEF Linked, Linking

LEMMA LinkedFold ==
    ASSUME NEW w \in BOOLEAN, BaseInv, Linked(w), Fold
    PROVE  Linked(w)'
<1> DEFINE f == Intent.after
           r == journal[Intent.after]
           plan == SupersedingIntent(journal[Intent.after], doc)
           gone == Unsettled
<1>0. /\ TypeOK /\ Reading(journal) /\ base \in Heads /\ doc \in Heads
      /\ FirstPremise(w) /\ Fitting /\ base' = base /\ task' = task
  BY DEF BaseInv, TypeOK, Linked, Fold
<1>1. /\ Enterable(plan) /\ Entered(gone, plan) /\ doc' = doc
      /\ f < Current /\ gone = {f, Current}
      /\ f \in DOMAIN journal /\ Current \in DOMAIN journal /\ r.state = "refused"
  BY FoldIs
<1>2. f \in Unsettled /\ IsFirst(f) /\ f \in Nat
  <2>1. f \in Nat /\ Current \in Nat
    BY <1>0, <1>1, RowType
  <2> QED
    BY <1>1, <2>1 DEF IsFirst
<1>3. r \in Intents /\ r.attempts # 0
  BY <1>0, <1>1, RowType DEF BaseInv, Recorded, Honest
<1>4. ~ (w /\ base = Absent) =>
      /\ r.base = base
      /\ r.after # NoId => /\ r.after \in DOMAIN journal /\ journal[r.after].state = "acknowledged"
                           /\ journal[r.after].version = base
  <2>1. Premised(f) \/ (w /\ base = Absent)
    BY <1>0, <1>2 DEF FirstPremise
  <2> QED
    BY <1>3, <2>1 DEF Premised, Has
<1>5. /\ plan = NoPlan <=> doc = Absent /\ r.base = Absent
      /\ plan # NoPlan => plan.base = r.base /\ plan.local = doc /\ plan.after = r.after
  <2> HIDE DEF r
  <2>1. r \in Intents
    BY <1>3
  <2>2. plan = SupersedingIntent(r, doc)
    BY DEF r
  <2> QED
    BY <1>0, <2>1, <2>2, SupersedingIs
<1>6. Linking(w)'
  <2>1. plan = NoPlan => Stored(doc') = base'
    BY <1>0, <1>1, <1>4, <1>5 DEF Stored
  <2>2. ~ (w /\ base = Absent) /\ r.after # NoId => r.after \notin gone
    BY <1>4 DEF Unsettled
  <2>3. plan # NoPlan => doc' = plan.local
    BY <1>1, <1>5
  <2>4. plan # NoPlan /\ ~ (w /\ base' = Absent) =>
           /\ plan.after # NoId =>
                 /\ plan.after \in DOMAIN journal \ gone
                 /\ journal[plan.after].state = "acknowledged"
                 /\ journal[plan.after].version = base'
           /\ plan.base = base'
    <3> HIDE DEF plan, gone, r
    <3> QED
      BY <1>0, <1>1, <1>4, <1>5, <2>2
  <2>5. base' \in Heads /\ Unsettled \subseteq gone
    BY <1>0
  <2> HIDE DEF plan, gone
  <2> QED
    BY <1>1, <2>1, <2>3, <2>4, <2>5, ChainRenewed
<1>7. Fitting'
  <2> SUFFICES ASSUME NEW t \in Tasks, task[t].pc # "idle", ~task[t].moved
               PROVE  doc = task[t].seen /\ (task[t].pc = "write" => Fits(t)')
    BY <1>0, <1>1 DEF Fitting
  <2>1. doc = task[t].seen /\ (task[t].pc = "write" => Fits(t))
    BY <1>0 DEF Fitting
  <2>2. Unsettled # {} /\ Enterable(plan) /\ Entered(Unsettled, plan) /\ task'[t] = task[t]
    BY <1>0, <1>1, <1>2
  <2> HIDE DEF plan
  <2> QED
    BY <2>1, <2>2, FitsGone
<1> QED
  BY <1>6, <1>7 DEF Linked, Linking

\* A local operation moves on and nothing else does.
LEMMA LinkedMoves ==
    ASSUME NEW w \in BOOLEAN, BaseInv, Linked(w), UNCHANGED <<doc, base, journal>>, NEW t \in Tasks, NEW k,
           task' = [task EXCEPT ![t] = k],
           k.pc # "idle" /\ ~k.moved => doc = k.seen /\ (k.pc = "write" => Fits(t)')
    PROVE  Linked(w)'
<1>0. task'[t] = k /\ \A u \in Tasks : u # t => task'[u] = task[u]
  BY DEF BaseInv, TypeOK
<1>1. Linking(w)'
  <2>1. Chained'
    BY DEF Linked, Chained, Unsettled
  <2>2. FirstPremise(w)'
    BY DEF Linked, FirstPremise, Premised, IsFirst, Unsettled, Has
  <2>3. Accounted'
    BY DEF Linked, Accounted, IsLast, Unsettled
  <2> QED
    BY <2>1, <2>2, <2>3 DEF Linking
<1>2. Fitting'
  <2> SUFFICES ASSUME NEW u \in Tasks, task'[u].pc # "idle", ~task'[u].moved
               PROVE  doc' = task'[u].seen /\ (task'[u].pc = "write" => Fits(u)')
    BY DEF Fitting
  <2>1. CASE u = t
    BY <1>0, <2>1
  <2>2. CASE u # t
    <3>1. task'[u] = task[u]
      BY <1>0, <2>2
    <3>2. doc = task[u].seen /\ (task[u].pc = "write" => Fits(u))
      BY <3>1 DEF Linked, Fitting
    <3>3. ASSUME Fits(u) PROVE Fits(u)'
      BY <3>1, <3>3 DEF Fits, Has, IsLast, Unsettled
    <3> QED
      BY <3>1, <3>2, <3>3
  <2> QED
    BY <2>1, <2>2
<1> QED
  BY <1>1, <1>2 DEF Linked, Linking

\* The intent composed from the journal fits it.
LEMMA LinkedComposes ==
    ASSUME NEW w \in BOOLEAN, BaseInv, Linked(w), UNCHANGED <<doc, base, journal>>,
           NEW t \in Tasks, NEW s \in Heads, NEW m \in BOOLEAN, NEW c \in Heads, c # s,
           task' = [task EXCEPT ![t] = Ready(s, m, c)], ~m => doc = s
    PROVE  Linked(w)'
<1> DEFINE k == Ready(s, m, c)
<1>0. Reading(journal) /\ base \in Heads /\ doc \in Heads /\ Accounted
      /\ \A i \in DOMAIN journal : Honest(i)
  BY DEF BaseInv, TypeOK, Linked, Recorded
<1>1. /\ TaskOK(k) /\ k.pc = "write" /\ k.seen = s /\ k.moved = m
      /\ k.plan = ComposeIntent(c) /\ DOMAIN k.supersede = Superseded
  BY ReadyIs
<1> DEFINE p == ComposeIntent(c)
<1>2. /\ Superseded \subseteq Unsettled
      /\ \A i \in Superseded : \A j \in Unsettled : j <= i
      /\ Superseded = {} =>
            IF Unsettled = {} THEN p = (IF c = Absent /\ base = Absent THEN NoPlan
                                        ELSE Plan(base, c, NoId))
            ELSE /\ Latest \in Unsettled /\ ~MayBeReplaced(journal[Latest])
                 /\ p = Plan(journal[Latest].local, c, Latest) /\ p # NoPlan
                 /\ \A j \in Unsettled : j <= Latest
  BY <1>0, ComposeIs
<1>3. task'[t] = k
  BY DEF BaseInv, TypeOK
<1> HIDE DEF k, p
<1>4. ASSUME ~m
      PROVE  Fits(t)'
  <2>1. \A i \in DOMAIN k.supersede \cap Unsettled' : IsLast(i)'
    BY <1>1, <1>2 DEF IsLast, Unsettled
  <2>2. CASE DOMAIN k.supersede # {}
    BY <1>3, <2>1, <2>2 DEF Fits
  <2>3. CASE DOMAIN k.supersede = {} /\ Unsettled = {}
    <3>1. ~ (c = Absent /\ base = Absent)
      <4> SUFFICES ASSUME c = Absent, base = Absent PROVE FALSE
        OBVIOUS
      <4>1. Stored(doc) = Absent
        BY <1>0, <2>3 DEF Accounted
      <4>2. doc = Absent
        BY <1>0, <4>1, StoredTwice
      <4> QED
        BY <1>4, <4>2
    <3>2. k.plan = Plan(base, c, NoId)
      BY <1>1, <1>2, <2>3, <3>1 DEF p
    <3>3. k.plan # NoPlan /\ k.plan.base = base /\ k.plan.after = NoId
      BY <1>0, <3>2, PlanType
    <3>4. Unsettled' = {}
      BY <2>3 DEF Unsettled
    <3> QED
      BY <1>3, <2>1, <3>3, <3>4 DEF Fits
  <2>4. CASE DOMAIN k.supersede = {} /\ Unsettled # {}
    <3> DEFINE l == Latest
    <3>1. /\ l \in Unsettled /\ ~MayBeReplaced(journal[l]) /\ k.plan # NoPlan
          /\ k.plan = Plan(journal[l].local, c, l) /\ \A j \in Unsettled : j <= l
      BY <1>1, <1>2, <2>4 DEF p
    <3>2. k.plan.base = journal[l].local /\ k.plan.after = l
      BY <3>1 DEF Plan
    <3>3. /\ l \in DOMAIN journal /\ journal[l].state # "acknowledged" /\ journal[l].attempts \in Nat
          /\ l # NoId
      BY <1>0, <3>1, UnsettledIs, RowType DEF NoId
    <3>4. journal[l].attempts > 0
      BY <1>0, <3>1, <3>3 DEF Honest, MayBeReplaced, NeverDelivered
    <3> HIDE DEF l
    <3>5. IsLast(l)'
      <4>1. \A j \in Unsettled' : j <= l
        BY <3>1 DEF Unsettled
      <4> USE DEF l
      <4>2. l' = l
        BY DEF Latest, Unsettled
      <4> HIDE DEF l
      <4> QED
        BY <4>1, <4>2 DEF IsLast
    <3>6. l' = l
      BY DEF l, Latest, Unsettled
    <3> QED
      BY <1>3, <2>1, <3>1, <3>2, <3>3, <3>4, <3>5, <3>6 DEF Fits, Has
  <2> QED
    BY <2>2, <2>3, <2>4
<1>5. k.pc # "idle" /\ ~k.moved => doc = k.seen /\ (k.pc = "write" => Fits(t)')
  BY <1>1, <1>4
<1>6. task' = [task EXCEPT ![t] = k]
  BY DEF k
<1> QED
  BY <1>5, <1>6, LinkedMoves

\* Document, base row, journal and operations stay.
LEMMA LinkedSame ==
    ASSUME NEW w \in BOOLEAN, Linked(w), UNCHANGED <<doc, base, journal, task>>
    PROVE  Linked(w)'
<1>1. Chained'
  BY DEF Linked, Chained, Unsettled
<1>2. FirstPremise(w)'
  BY DEF Linked, FirstPremise, Premised, IsFirst, Unsettled, Has
<1>3. Accounted'
  BY DEF Linked, Accounted, IsLast, Unsettled
<1>4. Fitting'
  BY DEF Linked, Fitting, Fits, Has, IsLast, Unsettled
<1> QED
  BY <1>1, <1>2, <1>3, <1>4 DEF Linked

LEMMA LinkedTask ==
    ASSUME NEW w \in BOOLEAN, BaseInv, Linked(w), NEW t \in Tasks, TaskStep(t),
           Write(t) => ~task[t].moved /\ ~Unhinged(t)
    PROVE  Linked(w)'
<1>0. TaskOK(task[t]) /\ doc \in Heads /\ Absent \in Heads /\ Contents \subseteq Heads /\ Fitting
  BY DEF BaseInv, TypeOK, Linked, Heads
<1>1. CASE Edit(t) \/ GiveUp(t) \/ Review(t) \/ Recompose(t)
  <2> DEFINE k == task'[t]
  <2>0. UNCHANGED <<doc, base, journal>> /\ task' = [task EXCEPT ![t] = k]
    BY <1>1 DEF Edit, GiveUp, Review, Recompose, localVars, BaseInv, TypeOK
  <2>1. k.pc # "idle" /\ ~k.moved => doc = k.seen /\ k.pc # "write"
    <3>1. CASE Edit(t)
      BY <3>1 DEF Edit, BaseInv, TypeOK
    <3>2. CASE GiveUp(t)
      BY <3>2 DEF GiveUp, Idle, BaseInv, TypeOK
    <3>3. CASE Review(t)
      BY <3>3 DEF Review, BaseInv, TypeOK
    <3>4. CASE Recompose(t)
      <4>1. /\ task[t].pc = "write"
            /\ k = IF task[t].content = Absent THEN Idle
                   ELSE [pc |-> "compose", seen |-> task[t].seen, moved |-> task[t].moved]
        BY <3>4 DEF Recompose, BaseInv, TypeOK
      <4> HIDE DEF k
      <4>2. ~task[t].moved => doc = task[t].seen
        BY <1>0, <4>1 DEF Fitting
      <4> QED
        BY <4>1, <4>2 DEF Idle
    <3> QED
      BY <1>1, <3>1, <3>2, <3>3, <3>4
  <2> HIDE DEF k
  <2>2. k.pc # "idle" /\ ~k.moved => doc = k.seen /\ (k.pc = "write" => Fits(t)')
    BY <2>1
  <2> QED
    BY <2>0, <2>2, LinkedMoves
<1>2. ASSUME NEW c \in Contents, Compose(t, c)
      PROVE  Linked(w)'
  <2>1. /\ task[t].pc = "compose" /\ c # task[t].seen /\ c \in Heads
        /\ task[t].seen \in Heads /\ task[t].moved \in BOOLEAN
    BY <1>0, <1>2, TaskType DEF Compose
  <2>2. task' = [task EXCEPT ![t] = Ready(task[t].seen, task[t].moved, c)]
        /\ UNCHANGED <<doc, base, journal>>
    BY <1>2 DEF Compose, Ready, localVars
  <2>3. ~task[t].moved => doc = task[t].seen
    BY <1>0, <2>1 DEF Fitting
  <2> QED
    BY <2>1, <2>2, <2>3, LinkedComposes
<1>3. CASE DeleteLocal(t)
  <2>1. task' = [task EXCEPT ![t] = Ready(doc, FALSE, Absent)] /\ doc # Absent
        /\ UNCHANGED <<doc, base, journal>>
    BY <1>3 DEF DeleteLocal, Ready, localVars
  <2> QED
    BY <1>0, <2>1, LinkedComposes
<1>4. CASE Write(t)
  BY <1>4, LinkedWrite
<1>5. CASE TakeRemote(t)
  <2> DEFINE c == task[t].remote
  <2>1. Resolved(t, NoPlan, c) /\ c \in Heads
    BY <1>0, <1>5, TaskType DEF TakeRemote, Resolved
  <2>2. Enterable(NoPlan)
    BY NoPlanType DEF Enterable
  <2>3. c = task[t].remote
    OBVIOUS
  <2> HIDE DEF c
  <2> QED
    BY <2>1, <2>2, <2>3, LinkedResolved
<1>6. ASSUME NEW c \in Heads, KeepLocal(t, c)
      PROVE  Linked(w)'
  <2> DEFINE plan == IF c = Absent /\ task[t].remote = Absent THEN NoPlan
                     ELSE Plan(task[t].remote, c, NoId)
  <2>1. Resolved(t, plan, c) /\ task[t].remote \in Heads
    BY <1>0, <1>6, TaskType DEF KeepLocal, Resolved
  <2>2. /\ Plan(task[t].remote, c, NoId) \in Plans
        /\ Plan(task[t].remote, c, NoId) # NoPlan
        /\ Plan(task[t].remote, c, NoId).base = task[t].remote
        /\ Plan(task[t].remote, c, NoId).local = c
        /\ Plan(task[t].remote, c, NoId).after = NoId
    BY <2>1, PlanType
  <2>3. Enterable(plan)
    BY <2>2, NoPlanType DEF Enterable, NoId, BaseInv, TypeOK
  <2>4. IF plan = NoPlan THEN c = task[t].remote
        ELSE plan.base = task[t].remote /\ plan.local = c /\ plan.after = NoId
    BY <2>2
  <2> HIDE DEF plan
  <2> QED
    BY <2>1, <2>3, <2>4, LinkedResolved
<1> QED
  BY <1>1, <1>2, <1>3, <1>4, <1>5, <1>6 DEF TaskStep

\* A step of a delivery settles the intent or leaves it alone.
LEMMA DeliverySteps ==
    ASSUME BaseInv, Send \/ Receive \/ Lookup \/ LookupFails
    PROVE  /\ UNCHANGED sharedVars
           /\ \/ UNCHANGED <<localVars, task, envVars, reviews>>
              \/ \E a \in Answers, pauses \in BOOLEAN : Settling(a) /\ Settle(a, pauses)
<1> DEFINE u == Answer("unknown", Absent)
<1>0. UNCHANGED sharedVars
  BY DEF Send, Receive, Lookup, LookupFails
<1>1. push.pc \notin {"idle", "next"} => Settling(u) /\ u \in Answers
  BY UnknownSettles DEF Settling
<1> HIDE DEF u
<1>2. CASE Send
  BY <1>1, <1>2 DEF Send, u
<1>3. CASE Receive
  <2> DEFINE denied == push.answer.kind = "denied"
             a == IF push.unclear /\ denied THEN u ELSE push.answer
  <2>0. push.pc = "replied" /\ push.answer \in Answers
    BY <1>3 DEF Receive, BaseInv, TypeOK
  <2>1. denied \/ (push.answer = recorded[Current] /\ push.answer # NoAnswer /\ Current \in Ids)
    BY <2>0, CurrentIs DEF BaseInv, Claimed, TypeOK
  <2>2. denied \/ push.answer.kind \in {"committed", "conflict", "refused"}
    BY <2>1 DEF BaseInv, Recorded
  <2>3. Settling(a) /\ a \in Answers
    <3>1. CASE push.unclear /\ denied
      BY <1>1, <2>0, <3>1
    <3>2. CASE ~ (push.unclear /\ denied)
      BY <2>0, <2>1, <2>2, <3>2 DEF Settling
    <3> QED
      BY <3>1, <3>2
  <2>4. Settle(a, denied) /\ denied \in BOOLEAN
    BY <1>3 DEF Receive, u
  <2> HIDE DEF a, denied
  <2> QED
    BY <1>0, <2>3, <2>4
<1>4. CASE Lookup
  <2>1. push.pc = "lookup" /\ Current \in Ids
    BY <1>4, CurrentIs DEF Lookup, BaseInv, TypeOK, Claimed
  <2>2. CASE recorded[Current] = NoAnswer
    BY <1>0, <1>4, <2>2 DEF Lookup
  <2>3. CASE recorded[Current] # NoAnswer
    <3> DEFINE a == recorded[Current]
    <3>1. Settle(a, FALSE)
      BY <1>4, <2>3 DEF Lookup
    <3>2. a \in Answers /\ a.kind \in {"committed", "conflict", "refused"}
      BY <2>1, <2>3 DEF BaseInv, TypeOK, Recorded
    <3>3. Settling(a)
      BY <2>1, <3>2 DEF Settling
    <3> HIDE DEF a
    <3> QED
      BY <1>0, <3>1, <3>2, <3>3
  <2> QED
    BY <2>2, <2>3
<1>5. CASE LookupFails
  BY <1>0, <1>1, <1>5 DEF LookupFails, u
<1> QED
  BY <1>2, <1>3, <1>4, <1>5

LEMMA LinkedPush ==
    ASSUME NEW w \in BOOLEAN, BaseInv, Linked(w), PushStep
    PROVE  Linked(w)'
<1>1. CASE \/ BeginPush \/ EndPush \/ Skip \/ Arrive \/ Lose \/ Crash
           \/ \E refuse \in BOOLEAN : Execute(refuse)
  <2>1. UNCHANGED <<doc, base, journal, task>>
    BY <1>1 DEF BeginPush, EndPush, Skip, Arrive, Lose, Crash, Execute, localVars
  <2> QED
    BY <2>1, LinkedSame
<1>2. CASE Fold
  BY <1>2, LinkedFold
<1>3. CASE ClaimIntent
  BY <1>3, LinkedClaim
<1>4. CASE Send \/ Receive \/ Lookup \/ LookupFails
  <2>1. CASE UNCHANGED <<localVars, task, envVars, reviews>>
    BY <2>1, LinkedSame DEF localVars
  <2>2. CASE \E a \in Answers, pauses \in BOOLEAN : Settling(a) /\ Settle(a, pauses)
    BY <2>2, LinkedSettles
  <2> QED
    BY <1>4, <2>1, <2>2, DeliverySteps
<1> QED
  BY <1>1, <1>2, <1>3, <1>4 DEF PushStep

\* While no guarded write has been overtaken, the chain is linked.
LinkedInv(w) == ~overtaken => Linked(w)

LEMMA LinkedStep ==
    ASSUME NEW w \in BOOLEAN, BaseInv, LinkedInv(w), [Next]_vars
    PROVE  LinkedInv(w)'
<1>0. ASSUME ~overtaken'
      PROVE  /\ ~overtaken
             /\ \A t \in Tasks : Write(t) => ~task[t].moved /\ ~Unhinged(t)
  <2>1. ASSUME NEW t \in Tasks, EndTask(t)
        PROVE  ~overtaken /\ ~task[t].moved /\ ~Unhinged(t)
    BY <1>0, <2>1 DEF EndTask
  <2>2. (\E t \in Tasks : EndTask(t)) \/ overtaken' = overtaken
    BY DEF Next, TaskStep, PushStep, Edit, DeleteLocal, Write, Recompose, GiveUp, Review, TakeRemote,
           Compose, KeepLocal, Resolved, BeginPush, EndPush, Skip, Fold, ClaimIntent, Send, Arrive,
           Lose, Receive, Lookup, LookupFails, Crash, Execute, Settle, Resume, ReclaimInFlight,
           LateArrive, LateExecute, Foreign, FlipAccess, localVars, vars
  <2>3. ~overtaken
    BY <1>0, <2>1, <2>2
  <2> QED
    BY <2>1, <2>3 DEF Write
<1> SUFFICES ASSUME ~overtaken'
             PROVE  Linked(w)'
  BY DEF LinkedInv
<1>1. Linked(w)
  BY <1>0 DEF LinkedInv
<1>2. CASE \E t \in Tasks : TaskStep(t)
  BY <1>0, <1>1, <1>2, LinkedTask
<1>3. CASE PushStep
  BY <1>1, <1>3, LinkedPush
<1>4. CASE Resume \/ ReclaimInFlight
  BY <1>1, <1>4, LinkedResumes
<1>5. CASE \/ \E d \in wire : LateArrive(d) \/ \E refuse \in BOOLEAN : LateExecute(d, refuse)
           \/ \E v \in Served : Foreign(v)
           \/ FlipAccess
           \/ UNCHANGED vars
  <2>1. UNCHANGED <<doc, base, journal, task>>
    BY <1>5 DEF LateArrive, LateExecute, Foreign, FlipAccess, localVars, vars
  <2> QED
    BY <1>1, <2>1, LinkedSame
<1> QED
  BY <1>2, <1>3, <1>4, <1>5 DEF Next

-----------------------------------------------------------------------------
(* The shared head of a working copy that is alone *)

AloneInv == ~overtaken /\ foreign = 0 /\ flips = 0 => Alone

\* Only the first unsettled intent can have been committed, or be on its way.
LEMMA DeliveredIsFirst ==
    ASSUME BaseInv, Linked(FALSE), NEW i \in Unsettled,
           recorded[i] # NoAnswer \/ journal[i].attempts # 0
    PROVE  IsFirst(i) /\ Unsettled \subseteq Nat /\ journal[i].base = base
<1>1. i \in DOMAIN journal /\ Unsettled \subseteq Nat
  BY UnsettledIs DEF BaseInv, TypeOK, Ids
<1>2. journal[i].attempts # 0
  BY <1>1 DEF BaseInv, Recorded, Honest
<1>3. IsFirst(i)
  BY <1>2, ClaimedIsFirst DEF Linked
<1> QED
  BY <1>1, <1>2, <1>3 DEF Linked, FirstPremise, Premised

\* The shared head, the record, the base row and which rows are settled stay.
LEMMA AloneKept ==
    ASSUME Alone, UNCHANGED <<head, base, recorded>>, Unsettled' = Unsettled
    PROVE  Alone'
BY DEF Alone

\* Rows that were not committed leave, and one that is unknown enters.
LEMMA AloneEntered ==
    ASSUME BaseInv, Alone, NEW gone, NEW plan, Enterable(plan), Entered(gone, plan),
           UNCHANGED <<head, base, recorded>>,
           \A i \in gone \cap DOMAIN journal : Settled(i)
    PROVE  Alone'
<1>0. /\ \A i \in Unsettled' : i \in Unsettled \/ i = minted + 1
      /\ \A i \in Unsettled : i \in gone \/ i \in Unsettled'
      /\ \A i \in Unsettled : i \in DOMAIN journal
  BY EnteredUnsettled DEF Unsettled
<1>1. plan # NoPlan => recorded[minted + 1].kind # "committed"
  <2>1. plan # NoPlan => minted + 1 \in Ids /\ minted \in Nat /\ minted + 1 > minted
    BY DEF Entered, BaseInv, TypeOK
  <2> QED
    BY <2>1, IdlePushType DEF BaseInv, Numbered
<1>2. plan = NoPlan => \A i \in Unsettled' : i \in Unsettled
  BY EnteredUnsettled
<1>3. CASE head = base /\ \A i \in Unsettled : recorded[i].kind # "committed"
  <2>1. \A i \in Unsettled' : recorded'[i].kind # "committed"
    BY <1>0, <1>1, <1>2, <1>3
  <2> QED
    BY <1>3, <2>1 DEF Alone
<1>4. CASE \E i \in Unsettled : recorded[i].kind = "committed" /\ head = recorded[i].version
  <2>1. PICK i \in Unsettled : recorded[i].kind = "committed" /\ head = recorded[i].version
    BY <1>4
  <2>2. i \notin gone
    BY <1>0, <2>1 DEF Settled
  <2>3. i \in Unsettled'
    BY <1>0, <2>2
  <2> QED
    BY <2>1, <2>3 DEF Alone
<1> QED
  BY <1>3, <1>4 DEF Alone

\* The authority answers an intent of the journal: nobody else has moved the
\* head from the base row it was claimed over.
LEMMA AloneExecutes ==
    ASSUME BaseInv, Linked(FALSE), Alone, UNCHANGED <<base, journal>>,
           NEW i \in DOMAIN journal, journal[i].attempts # 0,
           NEW r, r.base = journal[i].base, r.local = journal[i].local,
           NEW refuse \in BOOLEAN, Execution(i, r, refuse)
    PROVE  Alone'
<1>0. /\ TypeOK /\ Reading(journal) /\ i \in Ids /\ r.base \in Heads /\ r.local \in Heads
      /\ Unsettled' = Unsettled /\ recorded \in [Ids -> Answers] /\ Unsettled \subseteq Ids
  <2>1. TypeOK /\ Reading(journal) /\ recorded \in [Ids -> Answers]
    BY DEF BaseInv, TypeOK
  <2> QED
    BY <2>1, RowType, UnsettledIs DEF Unsettled
<1>1. CASE recorded[i] # NoAnswer
  <2>1. UNCHANGED <<recorded, head>>
    BY <1>1 DEF Execution
  <2> QED
    BY <1>0, <2>1, AloneKept
<1>2. CASE recorded[i] = NoAnswer
  <2>1. i \in Unsettled
    <3>1. Honest(i)
      BY DEF BaseInv, Recorded
    <3> QED
      BY <1>0, <1>2, <3>1, UnsettledIs DEF Honest
  <2>2. IsFirst(i) /\ Unsettled \subseteq Nat /\ r.base = base
    BY <2>1, DeliveredIsFirst
  <2>3. recorded[i].kind # "committed"
    BY <1>2, IdlePushType
  <2>4. \A j \in Unsettled : recorded[j].kind # "committed"
    <3> SUFFICES ASSUME NEW j \in Unsettled, recorded[j].kind = "committed" PROVE FALSE
      OBVIOUS
    <3>1. recorded[j] # NoAnswer
      BY IdlePushType
    <3>2. IsFirst(j)
      BY <3>1, DeliveredIsFirst
    <3>3. j = i
      BY <2>1, <2>2, <3>2 DEF IsFirst
    <3> QED
      BY <2>3, <3>3
  <2>5. head = base
    BY <2>4 DEF Alone
  <2>6. /\ recorded' = [recorded EXCEPT ![i] = recorded'[i]]
        /\ \/ recorded'[i].kind = "refused" /\ head' = head
           \/ /\ recorded'[i].kind = "committed" /\ recorded'[i].version = Stored(r.local)
              /\ head' = Stored(r.local)
    BY <1>0, <1>2, <2>2, <2>5, ExecutionIs
  <2>7. \A j \in Ids : j # i => recorded'[j] = recorded[j]
    BY <1>0, <2>6
  <2>8. \A j \in Ids : recorded'[j].kind # "conflict"
    BY <2>6, <2>7 DEF Alone
  <2>9. CASE recorded'[i].kind = "refused"
    <3>1. \A j \in Unsettled' : recorded'[j].kind # "committed"
      BY <1>0, <2>4, <2>7, <2>9
    <3>2. head' = base'
      BY <2>5, <2>6, <2>9
    <3> QED
      BY <2>8, <3>1, <3>2 DEF Alone
  <2>10. CASE recorded'[i].kind = "committed"
    <3>1. head' = recorded'[i].version /\ i \in Unsettled'
      BY <1>0, <2>1, <2>6, <2>10
    <3> QED
      BY <2>8, <2>10, <3>1 DEF Alone
  <2> QED
    BY <2>6, <2>9, <2>10
<1> QED
  BY <1>1, <1>2

LEMMA AloneSettles ==
    ASSUME BaseInv, Linked(FALSE), Alone, NEW a, NEW pauses, Settling(a), Settle(a, pauses),
           UNCHANGED sharedVars
    PROVE  Alone'
<1> DEFINE c == Current
<1>0. head' = head /\ recorded' = recorded
  BY DEF sharedVars
<1>1. /\ c \in DOMAIN journal /\ c \in Ids /\ journal[c].state = "in_flight"
      /\ DOMAIN journal' = DOMAIN journal
      /\ \A i \in DOMAIN journal : i # c => journal'[i] = journal[i]
      /\ IF journal'[c].state = "acknowledged"
         THEN /\ recorded[c] # NoAnswer /\ recorded[c].kind \in {"committed", "conflict"}
              /\ recorded[c].version = base'
         ELSE base' = base
  BY SettleIs DEF Intent
<1> HIDE DEF c
<1>2. c \in Unsettled
  BY <1>1 DEF Unsettled
<1>3. CASE journal'[c].state # "acknowledged"
  <2>1. Unsettled' = Unsettled
    BY <1>1, <1>3 DEF Unsettled
  <2> QED
    BY <1>0, <1>1, <1>3, <2>1, AloneKept
<1>4. CASE journal'[c].state = "acknowledged"
  <2>1. Unsettled' = Unsettled \ {c}
    BY <1>1, <1>4 DEF Unsettled
  <2>2. recorded[c].kind = "committed" /\ recorded[c] # NoAnswer /\ recorded[c].version = base'
    BY <1>1, <1>4 DEF Alone
  <2>3. IsFirst(c) /\ Unsettled \subseteq Nat
    BY <1>2, <2>2, DeliveredIsFirst
  <2>4. ASSUME NEW j \in Unsettled, recorded[j].kind = "committed" PROVE j = c
    <3>1. recorded[j] # NoAnswer
      BY <2>4, IdlePushType
    <3>2. IsFirst(j)
      BY <3>1, DeliveredIsFirst
    <3> QED
      BY <1>2, <2>3, <3>2 DEF IsFirst
  <2>5. head = recorded[c].version
    BY <1>2, <2>2, <2>4 DEF Alone
  <2>6. \A j \in Unsettled' : recorded'[j].kind # "committed"
    BY <1>0, <2>1, <2>4
  <2> QED
    BY <1>0, <2>2, <2>5, <2>6 DEF Alone
<1> QED
  BY <1>3, <1>4

LEMMA AloneTask ==
    ASSUME BaseInv, Retired, Alone, NEW t \in Tasks, TaskStep(t)
    PROVE  Alone'
<1>1. CASE \/ Edit(t) \/ DeleteLocal(t) \/ Recompose(t) \/ GiveUp(t) \/ Review(t)
           \/ \E c \in Contents : Compose(t, c)
  <2>1. UNCHANGED <<head, base, recorded, journal>>
    BY <1>1 DEF Edit, DeleteLocal, Recompose, GiveUp, Review, Compose, localVars, sharedVars
  <2> QED
    BY <2>1, AloneKept DEF Unsettled
<1>2. CASE Write(t)
  <2> DEFINE gone == DOMAIN task[t].supersede
             plan == task[t].plan
             content == task[t].content
  <2>1. /\ task[t].pc = "write" /\ TaskOK(task[t]) /\ Composed(t) /\ TypeOK /\ Numbered
        /\ Journaled(gone, plan, content) /\ UNCHANGED <<head, base, recorded>>
    BY <1>2 DEF BaseInv, TypeOK, Write, Carried, sharedVars
  <2>2. Enterable(plan)
    BY <2>1, TaskType DEF Numbered, Enterable
  <2>3. ASSUME NEW i \in gone \cap DOMAIN journal PROVE Settled(i)
    <3>1. MayBeReplaced(journal[i])
      BY <1>2, <2>1 DEF Write, SupersedeHolds, Composed, MayBeReplaced, NeverDelivered
    <3> QED
      BY <3>1, SettledIs
  <2> HIDE DEF gone, plan, content
  <2>4. Entered(gone, plan)
    BY <2>1, <2>2, JournaledIs
  <2> QED
    BY <2>1, <2>2, <2>3, <2>4, AloneEntered
<1>3. ASSUME NEW plan, NEW content, Resolved(t, plan, content)
      PROVE  FALSE
  <2>1. Reading(journal) /\ Rows(Unsettled) = task[t].rows /\ Reviewed(t)
    BY <1>3 DEF BaseInv, TypeOK, Resolved, Carried
  <2>2. Unsettled \subseteq DOMAIN journal
    BY <2>1, UnsettledIs
  <2>3. DOMAIN task[t].rows = Unsettled /\ \A i \in Unsettled : task[t].rows[i] = journal[i]
    BY <2>1, <2>2, RowsType
  <2>4. PICK i \in Unsettled : journal[i].state = "conflict"
    BY <2>1, <2>3 DEF Reviewed
  <2>5. i \in Ids /\ recorded[i].kind = "conflict"
    BY <2>1, <2>2, <2>4, RowType DEF BaseInv, Recorded, Honest
  <2> QED
    BY <2>5 DEF Alone
<1> QED
  BY <1>1, <1>2, <1>3 DEF TaskStep, TakeRemote, KeepLocal

LEMMA AlonePush ==
    ASSUME BaseInv, Linked(FALSE), Retired, Alone, PushStep
    PROVE  Alone'
<1>1. CASE BeginPush \/ EndPush \/ Skip \/ Arrive \/ Lose \/ Crash
  <2>1. UNCHANGED <<head, base, recorded, journal>>
    BY <1>1 DEF BeginPush, EndPush, Skip, Arrive, Lose, Crash, localVars, sharedVars
  <2> QED
    BY <2>1, AloneKept DEF Unsettled
<1>2. CASE Fold
  <2> DEFINE plan == SupersedingIntent(journal[Intent.after], doc)
             gone == Unsettled
  <2>1. /\ Enterable(plan) /\ Entered(gone, plan)
        /\ gone = {Intent.after, Current}
        /\ Intent.after \in DOMAIN journal /\ Current \in DOMAIN journal
        /\ journal[Intent.after].state = "refused"
        /\ Intent.state = "pending" /\ Intent.attempts = 0
    BY <1>2, FoldIs
  <2>2. UNCHANGED <<head, base, recorded>>
    BY <1>2 DEF Fold, sharedVars
  <2>3. \A i \in gone \cap DOMAIN journal : Settled(i)
    <3>1. \A i \in gone : i \in DOMAIN journal /\ MayBeReplaced(journal[i])
      BY <2>1 DEF MayBeReplaced, NeverDelivered, Intent
    <3> QED
      BY <3>1, SettledIs
  <2> HIDE DEF plan, gone
  <2> QED
    BY <2>1, <2>2, <2>3, AloneEntered
<1>3. CASE ClaimIntent
  <2>1. /\ Current \in DOMAIN journal /\ DOMAIN journal' = DOMAIN journal
        /\ \A i \in DOMAIN journal : i # Current => journal'[i] = journal[i]
        /\ journal'[Current].state = "in_flight" /\ journal[Current].state = "pending"
    BY <1>3, ClaimIs DEF Intent
  <2>2. Unsettled' = Unsettled
    BY <2>1 DEF Unsettled
  <2>3. UNCHANGED <<head, base, recorded>>
    BY <1>3 DEF ClaimIntent, sharedVars
  <2> QED
    BY <2>2, <2>3, AloneKept
<1>4. CASE Send \/ Receive \/ Lookup \/ LookupFails
  <2>0. UNCHANGED sharedVars
    BY <1>4, DeliverySteps
  <2>1. CASE UNCHANGED <<localVars, task, envVars, reviews>>
    <3>1. UNCHANGED <<head, base, recorded, journal>>
      BY <2>0, <2>1 DEF localVars, sharedVars
    <3> QED
      BY <3>1, AloneKept DEF Unsettled
  <2>2. CASE \E a \in Answers, pauses \in BOOLEAN : Settling(a) /\ Settle(a, pauses)
    BY <2>0, <2>2, AloneSettles
  <2> QED
    BY <1>4, <2>1, <2>2, DeliverySteps
<1>5. ASSUME NEW refuse \in BOOLEAN, Execute(refuse)
      PROVE  Alone'
  <2> DEFINE c == Current
             r == Intent
  <2>0. push.pc = "admitted" /\ Execution(c, r, refuse) /\ UNCHANGED <<base, journal>>
    BY <1>5 DEF Execute, localVars
  <2>1. c \in DOMAIN journal /\ r = journal[c] /\ r.state = "in_flight"
    BY <2>0, CurrentIs DEF BaseInv, TypeOK, Claimed, Has, Intent
  <2> HIDE DEF c, r
  <2>2. journal[c].attempts # 0
    BY <2>1 DEF BaseInv, Recorded, Honest
  <2>3. r.base = journal[c].base /\ r.local = journal[c].local
    BY <2>1
  <2> QED
    BY <2>0, <2>1, <2>2, <2>3, AloneExecutes
<1> QED
  BY <1>1, <1>2, <1>3, <1>4, <1>5 DEF PushStep

LEMMA AloneStep ==
    ASSUME BaseInv, LinkedInv(FALSE), RetiredInv, AloneInv, [Next]_vars
    PROVE  AloneInv'
<1>0. ASSUME ~overtaken', foreign' = 0, flips' = 0
      PROVE  ~overtaken /\ foreign = 0 /\ flips = 0 /\ ~FlipAccess /\ ~\E v \in Served : Foreign(v)
  <2>1. ASSUME NEW t \in Tasks, EndTask(t)
        PROVE  ~overtaken
    BY <1>0, <2>1 DEF EndTask
  <2>2. /\ (\E t \in Tasks : EndTask(t)) \/ overtaken' = overtaken
        /\ flips' = flips \/ flips' = flips + 1
        /\ foreign' = foreign \/ foreign' = foreign + 1
    BY DEF Next, TaskStep, PushStep, Edit, DeleteLocal, Write, Recompose, GiveUp, Review, TakeRemote,
           Compose, KeepLocal, Resolved, BeginPush, EndPush, Skip, Fold, ClaimIntent, Send, Arrive,
           Lose, Receive, Lookup, LookupFails, Crash, Execute, Settle, Resume, ReclaimInFlight,
           LateArrive, LateExecute, Foreign, FlipAccess, localVars, envVars, vars
  <2>3. flips \in Nat /\ foreign \in Nat
    BY DEF BaseInv, TypeOK
  <2> QED
    BY <1>0, <2>1, <2>2, <2>3 DEF FlipAccess, Foreign
<1> SUFFICES ASSUME ~overtaken', foreign' = 0, flips' = 0
             PROVE  Alone'
  BY DEF AloneInv
<1>1. Linked(FALSE) /\ Retired /\ Alone
  BY <1>0 DEF LinkedInv, RetiredInv, AloneInv
<1>2. CASE \E t \in Tasks : TaskStep(t)
  BY <1>1, <1>2, AloneTask
<1>3. CASE PushStep
  BY <1>1, <1>3, AlonePush
<1>4. CASE Resume \/ ReclaimInFlight
  <2>1. UNCHANGED <<head, base, recorded>> /\ DOMAIN journal' = DOMAIN journal
    BY <1>4 DEF Resume, ReclaimInFlight, sharedVars
  <2>2. \A i \in DOMAIN journal :
           journal'[i].state = "acknowledged" <=> journal[i].state = "acknowledged"
    <3>1. \A i \in DOMAIN journal : journal[i] \in Intents
      BY RowType DEF BaseInv, TypeOK
    <3>2. CASE Resume
      BY <3>1, <3>2 DEF Resume, Intents
    <3>3. CASE ReclaimInFlight
      BY <3>1, <3>3 DEF ReclaimInFlight, Intents
    <3> QED
      BY <1>4, <3>2, <3>3
  <2>3. Unsettled' = Unsettled
    BY <2>1, <2>2 DEF Unsettled
  <2> QED
    BY <1>1, <2>1, <2>3, AloneKept
<1>5. ASSUME NEW d \in wire, LateArrive(d)
      PROVE  Alone'
  <2>1. UNCHANGED <<head, base, recorded, journal>>
    BY <1>5 DEF LateArrive, localVars
  <2> QED
    BY <1>1, <2>1, AloneKept DEF Unsettled
<1>6. ASSUME NEW d \in wire, NEW refuse \in BOOLEAN, LateExecute(d, refuse)
      PROVE  Alone'
  <2> DEFINE i == d.id
  <2>1. Execution(i, d, refuse) /\ UNCHANGED <<base, journal>>
    BY <1>6 DEF LateExecute, localVars
  <2>2. i \in DOMAIN journal
    BY <1>1 DEF Retired, Has
  <2>3. journal[i].attempts # 0 /\ d.base = journal[i].base /\ d.local = journal[i].local
    BY <2>2 DEF BaseInv, Recorded, Honest, Has
  <2> HIDE DEF i
  <2> QED
    BY <1>1, <2>1, <2>2, <2>3, AloneExecutes
<1>7. CASE UNCHANGED vars
  <2>1. UNCHANGED <<head, base, recorded, journal>>
    BY <1>7 DEF vars, localVars, sharedVars
  <2> QED
    BY <1>1, <2>1, AloneKept DEF Unsettled
<1> QED
  BY <1>0, <1>2, <1>3, <1>4, <1>5, <1>6, <1>7 DEF Next

-----------------------------------------------------------------------------
(* The invariant *)

LEMMA HistoryInit ==
    ASSUME Init
    PROVE  LinkedInv(FALSE) /\ RetiredInv /\ AloneInv
<1>0. /\ DOMAIN journal = {} /\ minted = 0 /\ wire = {} /\ head \in Served /\ doc = head /\ base = head
      /\ push = IdlePush /\ push.pc = "idle" /\ access
      /\ \A t \in Tasks : task[t] = Idle /\ task[t].pc = "idle"
      /\ recorded = [i \in Ids |-> NoAnswer]
  BY DEF Init, IdlePush, Idle
<1>1. Unsettled = {} /\ Stored(doc) = base
  BY <1>0, ServedIsStored DEF Unsettled
<1>2. Linked(FALSE)
  BY <1>0, <1>1 DEF Linked, Chained, FirstPremise, Accounted, Fitting
<1>3. Retired
  BY <1>0 DEF Retired
<1>4. \A i \in Ids : recorded[i].kind \notin {"conflict", "committed"}
  BY <1>0, IdlePushType
<1>5. Alone
  BY <1>0, <1>1, <1>4 DEF Alone
<1> QED
  BY <1>2, <1>3, <1>5 DEF LinkedInv, RetiredInv, AloneInv

\* JournalInv: the journal, the authority's record, the deliveries on the wire
\* and what the local operations have read agree in every reachable state.
THEOREM Invariance == Spec => []JournalInv
<1>1. Init => JournalInv
  BY BaseInit, HistoryInit DEF JournalInv, LinkedInv, RetiredInv, AloneInv
<1>2. JournalInv /\ [Next]_vars => JournalInv'
  <2> SUFFICES ASSUME JournalInv, [Next]_vars
               PROVE  JournalInv'
    OBVIOUS
  <2>1. BaseInv /\ LinkedInv(FALSE) /\ RetiredInv /\ AloneInv
    BY DEF JournalInv, LinkedInv, RetiredInv, AloneInv
  <2>2. BaseInv'
    BY <2>1, BaseStep
  <2>3. LinkedInv(FALSE)'
    BY <2>1, LinkedStep
  <2>4. RetiredInv'
    BY <2>1, RetiredStep
  <2>5. AloneInv'
    BY <2>1, AloneStep
  <2> QED
    BY <2>2, <2>3, <2>4, <2>5 DEF JournalInv, LinkedInv, RetiredInv, AloneInv
<1> QED
  BY <1>1, <1>2, PTL DEF Spec

-----------------------------------------------------------------------------
(* What it implies *)

\* Every reachable state has the types TypeOK states.
THEOREM TypeCorrect == Spec => []TypeOK
<1>1. JournalInv => TypeOK
  BY DEF JournalInv, BaseInv
<1> QED
  BY <1>1, Invariance, PTL

\* No accepted edit is lost: whatever commits, deletions, pushes, crashes and
\* resolutions interleave, the working document of LocalBundle is the content of
\* the last unsettled intent, or what the authority holds for the base row.
THEOREM EditsAccounted == Spec => []EditAccounted
<1>1. JournalInv => EditAccounted
  <2> SUFFICES ASSUME JournalInv, ~overtaken
               PROVE  IF Unsettled = {} THEN Stored(doc) = base ELSE doc = journal[Latest].local
    BY DEF EditAccounted
  <2>1. Accounted /\ Reading(journal)
    BY DEF JournalInv, Linked, BaseInv, TypeOK
  <2>2. Unsettled # {} => Latest \in Unsettled /\ IsLast(Latest)
    BY <2>1, LatestIs DEF IsLast
  <2> QED
    BY <2>1, <2>2 DEF Accounted
<1> QED
  BY <1>1, Invariance, PTL

\* Nobody conflicts with themselves: push delivers chained edits, and repeats
\* deliveries that went unanswered, without an answer of conflict, while nobody
\* else changes the shared document or withdraws access.
THEOREM NoSelfConflicts == Spec => []NoSelfConflict
<1>1. JournalInv => NoSelfConflict
  <2> SUFFICES ASSUME JournalInv, foreign = 0, flips = 0, ~overtaken,
                      NEW i \in DOMAIN journal, journal[i].state = "conflict"
               PROVE  FALSE
    BY DEF NoSelfConflict
  <2>1. Alone /\ Honest(i) /\ Reading(journal)
    BY DEF JournalInv, BaseInv, TypeOK, Recorded
  <2>2. i \in Ids /\ recorded[i].kind = "conflict"
    BY <2>1, RowType DEF Honest
  <2> QED
    BY <2>1, <2>2 DEF Alone
<1> QED
  BY <1>1, Invariance, PTL

\* Edits are delivered in the order they were made: push claims an intent only
\* when every earlier one is settled.
THEOREM DeliveryInOrder == Spec => []DeliveredInOrder
<1>1. JournalInv => DeliveredInOrder
  BY DEF JournalInv, Linked, Chained, DeliveredInOrder
<1> QED
  BY <1>1, Invariance, PTL

\* What leaves the journal, superseded, folded or resolved away, is never
\* committed by a delivery that is still on its way.
THEOREM RetiredStaysUncommitted == Spec => []RetiredNeverCommits
<1>1. JournalInv => RetiredNeverCommits
  BY DEF JournalInv, Retired, RetiredNeverCommits
<1> QED
  BY <1>1, Invariance, PTL

=============================================================================
