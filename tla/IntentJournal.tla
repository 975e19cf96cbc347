---------------------------- MODULE IntentJournal ----------------------------
(***************************************************************************)
(* The working copy of one shared document: local edits journaled with the  *)
(* document (commitLocal, deleteLocal), their delivery (push), settlement   *)
(* (settleIntent) and recovery (resolveConflict, resume, reclaimInFlight),  *)
(* all in packages/browser-local/src/local-bundle.ts, over the journal seam *)
(* of packages/core/src/journaled-backend.ts.                               *)
(*                                                                          *)
(* Local operations run concurrently, in one page or in several; each is a  *)
(* read and a later guarded transaction.  One push runs at a time, under    *)
(* the push role.  A version is the hash of a content, so a version is its  *)
(* content here; the authority may store its own serialization of a content *)
(* (Canon).  A deletion is an intent whose content is Absent; an authority  *)
(* that names tombstones is not modelled.  Delivery abstracts               *)
(* performUncertainWrite, which module UncertainWrite models in full, and   *)
(* the authority keeps every answer it records.                             *)
(*                                                                          *)
(* An intent is known by its number: request identities are numbered as     *)
(* their intents enter the journal, so the order of the numbers is the      *)
(* sequence order.                                                          *)
(***************************************************************************)
EXTENDS Naturals

CONSTANTS
    Tasks,           \* local operations that may be under way at once
    Contents,        \* contents, and so versions, of the document
    Absent,          \* no document; as an intent's content, a deletion
    Canon,           \* [Contents -> Contents]: the authority's serialization
    MaxIds,          \* bound: request identities minted
    MaxAttempts,     \* bound: durable attempts an intent may be claimed at
    MaxSubmissions,  \* performUncertainWrite's maxSubmissions
    MaxResolutions,  \* bound: conflict reviews
    MaxFaults,       \* bound: lost deliveries or answers, crashes, refusals
    MaxForeign,      \* bound: changes of the shared head by others
    MaxAccessFlips   \* bound: access withdrawn or granted

ASSUME JournalAssumption ==
    /\ Absent \notin Contents
    /\ Canon \in [Contents -> Contents]
    /\ \A c \in Contents : Canon[Canon[c]] = Canon[c]
    /\ {MaxIds, MaxAttempts, MaxSubmissions} \subseteq Nat \ {0}
    /\ {MaxResolutions, MaxFaults, MaxForeign, MaxAccessFlips} \subseteq Nat

Heads == Contents \union {Absent}
Stored(c) == IF c = Absent THEN Absent ELSE Canon[c]
Ids == 1 .. MaxIds
NoId == 0
Served == {Stored(c) : c \in Heads}

\* IntentRecord, as far as the journal's rules read it.  "denied" is the state
\* refused with an authorization code, "refused" with any other code; version
\* is acknowledgedVersion.
IntentStates == {"pending", "in_flight", "acknowledged", "conflict", "refused", "denied"}
Intents == [base : Heads, local : Heads, after : Ids \union {NoId}, attempts : Nat,
            state : IntentStates, version : Heads]

Answers == [kind : {"none", "committed", "conflict", "refused", "denied", "unknown"}, version : Heads]
Answer(k, v) == [kind |-> k, version |-> v]
NoAnswer == Answer("none", Absent)

VARIABLES
    doc,       \* the working document
    base,      \* version of the shared base row
    journal,   \* the intents, by their identities
    paused,    \* the sync row
    minted,    \* identities minted so far
    overtaken, \* has a guarded write passed although the document had changed
               \* since it was read: it changed and changed back, or a deletion
               \* found it already deleted?
    task,      \* the local operations
    push,      \* the run of push that holds the role
    head,      \* the authority's document
    recorded,  \* the authority's answer under each identity
    wire,      \* deliveries whose sender no longer waits
    access, flips, foreign, faults, reviews

localVars == <<doc, base, journal, paused, minted, overtaken>>
sharedVars == <<head, recorded, wire>>
envVars == <<access, flips, foreign, faults>>
vars == <<localVars, task, push, sharedVars, envVars, reviews>>

Idle == [pc |-> "idle"]
IdlePush == [pc |-> "idle", queue |-> {}, sent |-> 0, unclear |-> FALSE, answer |-> NoAnswer]

Init ==
    /\ head \in Served
    /\ doc = head /\ base = head
    /\ journal = [i \in {} |-> Absent] /\ paused = FALSE /\ minted = 0 /\ overtaken = FALSE
    /\ task = [t \in Tasks |-> Idle]
    /\ push = IdlePush
    /\ recorded = [i \in Ids |-> NoAnswer]
    /\ wire = {}
    /\ access = TRUE /\ flips = 0 /\ foreign = 0
    /\ faults = 0 /\ reviews = 0

-----------------------------------------------------------------------------
(* The journal *)

Has(i) == i \in DOMAIN journal
Unsettled == {i \in DOMAIN journal : journal[i].state # "acknowledged"}
Lowest(S) == CHOOSE i \in S : \A j \in S : i <= j
Latest == IF Unsettled = {} THEN NoId ELSE CHOOSE i \in Unsettled : \A j \in Unsettled : j <= i

\* Intents as they are read.
Rows(S) == [i \in S |-> journal[i]]

Update(i, r) == [journal EXCEPT ![i] = r]

NeverDelivered(r) == r.state = "pending" /\ r.attempts = 0
MayBeReplaced(r) == NeverDelivered(r) \/ r.state \in {"refused", "denied"}

\* A new intent: its premise, its content and the intent it waits on.
Plan(b, l, a) == [base |-> b, local |-> l, after |-> a]
Plans == [base : Heads, local : Heads, after : 0 .. MaxIds + 1]
NoPlan == [base |-> Absent, local |-> Absent, after |-> MaxIds + 1]

\* supersedingIntent: the premise of the intent it replaces.  A deletion over
\* a create that was never applied has nothing to delete.
SupersedingIntent(r, l) ==
    IF l = Absent /\ r.base = Absent THEN NoPlan ELSE Plan(r.base, l, r.after)

\* composeIntent, and the same rule in deleteLocal.  The base of a successor
\* is the content it follows, none after a deletion (chainedBase).
ComposeIntent(l) ==
    IF Latest = NoId
    THEN IF l = Absent /\ base = Absent THEN NoPlan ELSE Plan(base, l, NoId)
    ELSE IF MayBeReplaced(journal[Latest]) THEN SupersedingIntent(journal[Latest], l)
    ELSE Plan(journal[Latest].local, l, Latest)

Superseded == {i \in Unsettled : i = Latest /\ MayBeReplaced(journal[i])}

\* The transaction of writeJournaled and deleteJournaled: intents leave, the
\* planned one enters, the document takes its new content.
Fresh(plan) == [base |-> plan.base, local |-> plan.local, after |-> plan.after,
                attempts |-> 0, state |-> "pending", version |-> Absent]

Journaled(gone, plan, content) ==
    /\ doc' = content
    /\ IF plan = NoPlan
       THEN journal' = Rows(DOMAIN journal \ gone) /\ UNCHANGED minted
       ELSE /\ minted < MaxIds
            /\ minted' = minted + 1
            /\ journal' = [i \in (DOMAIN journal \ gone) \union {minted + 1} |->
                              IF i = minted + 1 THEN Fresh(plan) ELSE journal[i]]

-----------------------------------------------------------------------------
(* Local operations *)

\* commitLocal: the engine reads the document it changes ...
Edit(t) ==
    /\ task[t].pc = "idle"
    /\ task' = [task EXCEPT ![t] = [pc |-> "compose", seen |-> doc, moved |-> FALSE]]
    /\ UNCHANGED <<localVars, push, sharedVars, envVars, reviews>>

\* ... its write composes the intent from the journal ...
Compose(t, c) ==
    /\ task[t].pc = "compose" /\ c # task[t].seen
    /\ task' = [task EXCEPT ![t] = [pc |-> "write", seen |-> task[t].seen, moved |-> task[t].moved, content |-> c,
                                    plan |-> ComposeIntent(c), supersede |-> Rows(Superseded)]]
    /\ UNCHANGED <<localVars, push, sharedVars, envVars, reviews>>

\* deleteLocal reads document and journal in one transaction.  An absent
\* document and a recorded conflict end it.
DeleteLocal(t) ==
    /\ task[t].pc = "idle" /\ doc # Absent
    /\ Latest # NoId => journal[Latest].state # "conflict"
    /\ task' = [task EXCEPT ![t] = [pc |-> "write", seen |-> doc, moved |-> FALSE, content |-> Absent,
                                    plan |-> ComposeIntent(Absent), supersede |-> Rows(Superseded)]]
    /\ UNCHANGED <<localVars, push, sharedVars, envVars, reviews>>

\* The document CAS.  Deleting a document that is already gone passes.
DocumentHolds(t) ==
    doc = task[t].seen \/ (doc = Absent /\ task[t].content = Absent)

\* The superseded row still has the state and attempts it was read with.
SupersedeHolds(rows) ==
    \A i \in DOMAIN rows :
        Has(i) /\ journal[i].state = rows[i].state /\ journal[i].attempts = rows[i].attempts

\* The edit was composed to follow an intent that a resolution has since taken
\* out of the journal; the write does not check for it.
Unhinged(t) ==
    task[t].pc = "write" /\ task[t].plan.after \notin {NoId, NoPlan.after} /\ ~Has(task[t].plan.after)

\* History: the tasks under way that another one's change overtakes.
EndTask(t) ==
    /\ task' = [u \in Tasks |->
          IF u = t THEN Idle
          ELSE IF doc' # doc /\ task[u].pc # "idle" THEN [task[u] EXCEPT !.moved = TRUE]
          ELSE task[u]]
    /\ overtaken' = (overtaken \/ task[t].moved \/ Unhinged(t))

\* Mutant: the write does not compare the document's version.
WriteUnconditional(t) ==
    /\ task[t].pc = "write"
    /\ SupersedeHolds(task[t].supersede)
    /\ Journaled(DOMAIN task[t].supersede, task[t].plan, task[t].content)
    /\ task' = [task EXCEPT ![t] = Idle]
    /\ UNCHANGED <<base, paused, overtaken, push, sharedVars, envVars, reviews>>

\* ... and one transaction writes document and intent, both or neither.
Write(t) ==
    /\ task[t].pc = "write"
    /\ DocumentHolds(t) /\ SupersedeHolds(task[t].supersede)
    /\ Journaled(DOMAIN task[t].supersede, task[t].plan, task[t].content)
    /\ EndTask(t)
    /\ UNCHANGED <<base, paused, push, sharedVars, envVars, reviews>>

\* IntentStateConflict: the intent is composed again from the journal as it is
\* (a delete also reads the document again).
Recompose(t) ==
    /\ task[t].pc = "write"
    /\ ~SupersedeHolds(task[t].supersede)
    /\ task' = [task EXCEPT ![t] =
          IF task[t].content = Absent THEN Idle ELSE [pc |-> "compose", seen |-> task[t].seen, moved |-> task[t].moved]]
    /\ UNCHANGED <<localVars, push, sharedVars, envVars, reviews>>

\* VersionConflict, the last compose attempt, or the page dies.
GiveUp(t) ==
    /\ task[t].pc # "idle"
    /\ task' = [task EXCEPT ![t] = Idle]
    /\ UNCHANGED <<localVars, push, sharedVars, envVars, reviews>>

\* assertJournalSnapshot, of the whole unsettled journal: its head has a terminal
\* answer and no delivery of any of it can be under way.
Retirable ==
    /\ Unsettled # {}
    /\ journal[Lowest(Unsettled)].state \in {"conflict", "refused", "denied"}
    /\ \A i \in Unsettled : journal[i].state = "conflict" \/ MayBeReplaced(journal[i])

\* conflictChain: one chain of dependent edits, headed by a conflict, that ends
\* in the working document.
IsNext(i, j) == i < j /\ \A k \in Unsettled : k <= i \/ j <= k

IsConflictChain ==
    /\ Retirable
    /\ journal[Lowest(Unsettled)].state = "conflict"
    /\ \A i, j \in Unsettled :
          IsNext(i, j) => journal[j].after = i /\ journal[j].base = journal[i].local
    /\ journal[Latest].local = doc

\* inspectConflict, and the second reads of resolveConflict that must agree
\* with it: chain, document and shared head.
Review(t) ==
    /\ task[t].pc = "idle" /\ reviews < MaxResolutions
    /\ IsConflictChain
    /\ reviews' = reviews + 1
    /\ task' = [task EXCEPT ![t] = [pc |-> "review", seen |-> doc, moved |-> FALSE, rows |-> Rows(Unsettled), remote |-> head]]
    /\ UNCHANGED <<localVars, push, sharedVars, envVars>>

\* The guarded write of resolveConflict: the reviewed rows leave together and
\* the base row becomes the reviewed head.  Keeping a deletion of a document
\* that is already gone leaves nothing to send.
Resolved(t, plan, content) ==
    /\ task[t].pc = "review"
    /\ doc = task[t].seen /\ Rows(Unsettled) = task[t].rows
    /\ Journaled(Unsettled, plan, content)
    /\ base' = task[t].remote
    /\ EndTask(t)
    /\ UNCHANGED <<paused, push, sharedVars, envVars, reviews>>

TakeRemote(t) == Resolved(t, NoPlan, task[t].remote)

\* keep-local, and revise when c differs; a deletion cannot be revised.
KeepLocal(t, c) ==
    /\ task[t].pc = "review"
    /\ (task[t].seen = Absent) <=> (c = Absent)
    /\ Resolved(t, IF c = Absent /\ task[t].remote = Absent THEN NoPlan
                   ELSE Plan(task[t].remote, c, NoId), c)

\* resume: the pause is lifted and what lost access is requeued.
Resume ==
    /\ paused
    /\ paused' = FALSE
    /\ journal' = [i \in DOMAIN journal |->
          IF journal[i].state = "denied" THEN [journal[i] EXCEPT !.state = "pending"] ELSE journal[i]]
    /\ UNCHANGED <<doc, base, minted, overtaken, task, push, sharedVars, envVars, reviews>>

\* reclaimInFlight, by the holder of the role.
ReclaimInFlight ==
    /\ push.pc = "idle"
    /\ \E i \in DOMAIN journal : journal[i].state = "in_flight"
    /\ journal' = [i \in DOMAIN journal |->
          IF journal[i].state # "in_flight" THEN journal[i]
          ELSE [journal[i] EXCEPT !.state = "pending", !.attempts = IF @ = 0 THEN 1 ELSE @]]
    /\ UNCHANGED <<doc, base, paused, minted, overtaken, task, push, sharedVars, envVars, reviews>>

-----------------------------------------------------------------------------
(* push *)

BeginPush ==
    /\ push.pc = "idle" /\ ~paused
    /\ LET due == {i \in DOMAIN journal : journal[i].state = "pending"}
       IN  due # {} /\ push' = [IdlePush EXCEPT !.pc = "next", !.queue = due]
    /\ UNCHANGED <<localVars, task, sharedVars, envVars, reviews>>

EndPush ==
    /\ push.pc = "next" /\ push.queue = {}
    /\ push' = IdlePush
    /\ UNCHANGED <<localVars, task, sharedVars, envVars, reviews>>

\* The queue is worked off in sequence order.
Current == Lowest(push.queue)
Intent == journal[Current]
Due == Has(Current) /\ Intent.state = "pending"
Following == [IdlePush EXCEPT !.pc = "next", !.queue = push.queue \ {Current}]

\* Mutant: a predecessor that was answered no longer holds its successor back.
BlockedUntilAnswered(r) ==
    r.after # NoId /\ Has(r.after) /\ journal[r.after].state \in {"pending", "in_flight"}

\* An intent waits while its predecessor is in the journal unacknowledged.
Blocked(r) == r.after # NoId /\ Has(r.after) /\ journal[r.after].state # "acknowledged"

\* foldRefusedChain: exactly a refused head and the successor never sent, whose
\* content is the working document.
Folds ==
    /\ Intent.attempts = 0
    /\ Unsettled = {Intent.after, Current} /\ Intent.after < Current
    /\ journal[Intent.after].state = "refused"
    /\ Intent.local = doc

\* Mutant: the successor keeps the version the working copy computed.
LocalPremise(r) == r.base

\* chainedPremise: a successor never sent carries the version its predecessor
\* was committed at, not the one the working copy computed.
ChainedPremise(r) ==
    IF /\ r.attempts = 0 /\ r.after # NoId /\ Has(r.after)
       /\ journal[r.after].local # Absent /\ r.base = journal[r.after].local
    THEN journal[r.after].version ELSE r.base

\* The queued intent was superseded, claimed or settled elsewhere, or waits.
Skip ==
    /\ push.pc = "next" /\ push.queue # {}
    /\ Due => Blocked(Intent) /\ ~Folds
    /\ push' = Following
    /\ UNCHANGED <<localVars, task, sharedVars, envVars, reviews>>

\* The fresh intent of a fold is delivered in the same run.
Fold ==
    /\ push.pc = "next" /\ push.queue # {}
    /\ Due /\ Blocked(Intent) /\ Folds
    /\ LET plan == SupersedingIntent(journal[Intent.after], doc)
       IN  /\ Journaled(Unsettled, plan, doc)
           /\ push' = IF plan = NoPlan THEN Following
                      ELSE [Following EXCEPT !.queue = @ \union {minted + 1}]
    /\ UNCHANGED <<base, paused, overtaken, task, sharedVars, envVars, reviews>>

\* Mutant: the attempt is counted when it is settled, not when it is claimed.
ClaimUncounted ==
    /\ push.pc = "next" /\ push.queue # {}
    /\ Due /\ ~Blocked(Intent)
    /\ journal' = Update(Current, [Intent EXCEPT !.state = "in_flight",
                                                       !.base = ChainedPremise(Intent)])
    /\ push' = [push EXCEPT !.pc = IF Intent.attempts = 0 THEN "send" ELSE "lookup"]
    /\ UNCHANGED <<doc, base, paused, minted, overtaken, task, sharedVars, envVars, reviews>>

\* The claim records the attempt before anything leaves.  A first delivery is
\* a submission, a repeated one starts with a lookup.
ClaimIntent ==
    /\ push.pc = "next" /\ push.queue # {}
    /\ Due /\ ~Blocked(Intent)
    /\ Intent.attempts < MaxAttempts
    /\ journal' = Update(Current, [Intent EXCEPT !.state = "in_flight", !.attempts = @ + 1,
                                                       !.base = ChainedPremise(Intent)])
    /\ push' = [push EXCEPT !.pc = IF Intent.attempts = 0 THEN "send" ELSE "lookup"]
    /\ UNCHANGED <<doc, base, paused, minted, overtaken, task, sharedVars, envVars, reviews>>

\* settleIntent, one compare-and-swap on in_flight.  The claim counted one
\* submission; a resubmission counts on top of it.  An authorization refusal,
\* settled or carried by an unknown outcome, pauses the store and ends the run.
Settle(a, pauses) ==
    LET settled == IF a.kind = "conflict" /\ a.version # Absent /\ a.version = Intent.local
                   THEN Answer("committed", a.version) ELSE a
        state == CASE settled.kind = "committed" -> "acknowledged"
                   [] settled.kind = "unknown" -> "pending"
                   [] OTHER -> settled.kind
    IN  /\ journal' = Update(Current, [Intent EXCEPT !.state = state,
              !.attempts = IF push.sent > 1 THEN @ + push.sent - 1 ELSE @,
              !.version = IF state = "acknowledged" THEN settled.version ELSE @])
        /\ base' = IF state = "acknowledged" THEN settled.version ELSE base
        /\ paused' = (paused \/ pauses)
        /\ push' = IF pauses THEN IdlePush ELSE Following
        /\ UNCHANGED <<doc, minted, overtaken, task, envVars, reviews>>

\* performUncertainWrite submits while a submission is left.
Send ==
    /\ push.pc = "send"
    /\ IF push.sent < MaxSubmissions
       THEN /\ push' = [push EXCEPT !.pc = "network", !.sent = @ + 1]
            /\ UNCHANGED <<localVars, task, envVars, reviews>>
       ELSE Settle(Answer("unknown", Absent), FALSE)
    /\ UNCHANGED sharedVars

\* The request reaches the authority, which checks access before it runs it.
Arrive ==
    /\ push.pc = "network"
    /\ push' = IF access THEN [push EXCEPT !.pc = "admitted"]
               ELSE [push EXCEPT !.pc = "replied", !.answer = Answer("denied", Absent)]
    /\ UNCHANGED <<localVars, task, sharedVars, envVars, reviews>>

\* The authority's compare-and-swap, once per identity; a busy or content
\* refusal is recorded too.  Further deliveries of a recorded identity change
\* nothing and are dropped.
Execution(i, r, refuse) ==
    LET answer == IF refuse THEN Answer("refused", Absent)
                  ELSE IF r.base = head \/ (r.local = Absent /\ head = Absent)
                  THEN Answer("committed", Stored(r.local))
                  ELSE Answer("conflict", head)
    IN  IF recorded[i] # NoAnswer THEN ~refuse /\ UNCHANGED <<recorded, head, wire, faults>>
        ELSE /\ refuse => faults < MaxFaults
             /\ faults' = IF refuse THEN faults + 1 ELSE faults
             /\ recorded' = [recorded EXCEPT ![i] = answer]
             /\ head' = IF answer.kind = "committed" THEN answer.version ELSE head
             /\ wire' = {d \in wire : d.id # i}

Execute(refuse) ==
    /\ push.pc = "admitted"
    /\ Execution(Current, Intent, refuse)
    /\ push' = [push EXCEPT !.pc = "replied", !.answer = recorded'[Current]]
    /\ UNCHANGED <<localVars, task, access, flips, foreign, reviews>>

\* The sender stops waiting; its request may still be on its way.
Abandoned ==
    IF push.pc \notin {"network", "admitted"} \/ recorded[Current] # NoAnswer THEN wire
    ELSE wire \union {[id |-> Current, base |-> Intent.base,
                       local |-> Intent.local, stage |-> push.pc]}

\* The deadline passes or the answer is lost.
Lose ==
    /\ push.pc \in {"network", "admitted", "replied"} /\ faults < MaxFaults
    /\ faults' = faults + 1
    /\ push' = [push EXCEPT !.pc = "lookup", !.unclear = TRUE, !.answer = NoAnswer]
    /\ wire' = Abandoned
    /\ UNCHANGED <<localVars, task, head, recorded, access, flips, foreign, reviews>>

\* A denied resend says nothing of an unclear submission of the same call;
\* push does not pass earlierDeliveryUnclear for one of an earlier call.
Receive ==
    /\ push.pc = "replied"
    /\ LET denied == push.answer.kind = "denied"
       IN  Settle(IF push.unclear /\ denied THEN Answer("unknown", Absent) ELSE push.answer, denied)
    /\ UNCHANGED sharedVars

\* A lookup of the reference wire: the recorded answer, or never recorded.
Lookup ==
    /\ push.pc = "lookup" /\ access
    /\ IF recorded[Current] # NoAnswer THEN Settle(recorded[Current], FALSE)
       ELSE push' = [push EXCEPT !.pc = "send"] /\ UNCHANGED <<localVars, task, envVars, reviews>>
    /\ UNCHANGED sharedVars

LookupFails ==
    /\ push.pc = "lookup"
    /\ Settle(Answer("unknown", Absent), FALSE)
    /\ UNCHANGED sharedVars

\* The pushing page dies, which releases the role.
Crash ==
    /\ push.pc # "idle" /\ faults < MaxFaults
    /\ faults' = faults + 1
    /\ push' = IdlePush
    /\ wire' = Abandoned
    /\ UNCHANGED <<localVars, task, head, recorded, access, flips, foreign, reviews>>

-----------------------------------------------------------------------------
(* The rest of the world *)

\* An abandoned delivery arrives after all.
LateArrive(d) ==
    /\ d.stage = "network"
    /\ wire' = (wire \ {d}) \union (IF access THEN {[d EXCEPT !.stage = "admitted"]} ELSE {})
    /\ UNCHANGED <<localVars, task, push, head, recorded, envVars, reviews>>

LateExecute(d, refuse) ==
    /\ d.stage = "admitted"
    /\ Execution(d.id, d, refuse)
    /\ UNCHANGED <<localVars, task, push, access, flips, foreign, reviews>>

Foreign(v) ==
    /\ foreign < MaxForeign /\ v # head
    /\ foreign' = foreign + 1
    /\ head' = v
    /\ UNCHANGED <<localVars, task, push, recorded, wire, access, flips, faults, reviews>>

FlipAccess ==
    /\ flips < MaxAccessFlips
    /\ flips' = flips + 1 /\ access' = ~access
    /\ UNCHANGED <<localVars, task, push, sharedVars, foreign, faults, reviews>>

TaskStep(t) ==
    \/ Edit(t) \/ DeleteLocal(t) \/ Write(t) \/ Recompose(t) \/ GiveUp(t)
    \/ Review(t) \/ TakeRemote(t)
    \/ \E c \in Contents : Compose(t, c)
    \/ \E c \in Heads : KeepLocal(t, c)

PushStep ==
    \/ BeginPush \/ EndPush \/ Skip \/ Fold \/ ClaimIntent \/ Send \/ Arrive
    \/ Lose \/ Receive \/ Lookup \/ LookupFails \/ Crash
    \/ \E refuse \in BOOLEAN : Execute(refuse)

Next ==
    \/ \E t \in Tasks : TaskStep(t)
    \/ PushStep \/ Resume \/ ReclaimInFlight
    \/ \E d \in wire : LateArrive(d) \/ \E refuse \in BOOLEAN : LateExecute(d, refuse)
    \/ \E v \in Served : Foreign(v)
    \/ FlipAccess

Spec == Init /\ [][Next]_vars

-----------------------------------------------------------------------------
(* Properties *)

\* Intents by their identities, in the journal or as they were read.
Reading(f) == DOMAIN f \subseteq Ids /\ f \in [DOMAIN f -> Intents]

TaskOK(k) ==
    \/ k = Idle
    \/ k \in [pc : {"compose"}, seen : Heads, moved : BOOLEAN]
    \/ /\ k.pc = "write" /\ Reading(k.supersede)
       /\ k \in [pc : {"write"}, seen : Heads, moved : BOOLEAN, content : Heads, plan : Plans,
                 supersede : {k.supersede}]
    \/ /\ k.pc = "review" /\ Reading(k.rows)
       /\ k \in [pc : {"review"}, seen : Heads, moved : BOOLEAN, rows : {k.rows}, remote : Heads]

TypeOK ==
    /\ doc \in Heads /\ base \in Heads /\ Reading(journal)
    /\ paused \in BOOLEAN /\ overtaken \in BOOLEAN /\ minted \in 0 .. MaxIds
    /\ task = [t \in Tasks |-> task[t]] /\ \A t \in Tasks : TaskOK(task[t])
    /\ push \in [pc : {"idle", "next", "send", "network", "admitted", "replied", "lookup"},
                 queue : SUBSET Ids, sent : 0 .. MaxSubmissions, unclear : BOOLEAN, answer : Answers]
    /\ head \in Heads
    /\ recorded \in [Ids -> Answers]
    /\ wire \subseteq [id : Ids, base : Heads, local : Heads, stage : {"network", "admitted"}]
    /\ access \in BOOLEAN /\ flips \in Nat /\ foreign \in Nat
    /\ faults \in Nat /\ reviews \in Nat

\* No accepted edit is lost: the working document is the content of the last
\* unsettled intent, or, with none, what the authority holds for the base row.
EditAccounted ==
    ~overtaken => IF Unsettled = {} THEN Stored(doc) = base ELSE doc = journal[Latest].local

\* Nobody conflicts with themselves: while nobody else changes the shared
\* document or withdraws access, no edit of this working copy is answered with
\* a conflict.
NoSelfConflict ==
    foreign = 0 /\ flips = 0 /\ ~overtaken =>
        \A i \in DOMAIN journal : journal[i].state # "conflict"

\* Edits are delivered in the order they were made: only the first unsettled
\* intent has ever been claimed for delivery.
DeliveredInOrder ==
    ~overtaken => \A i, j \in Unsettled : i < j => journal[j].attempts = 0

\* An identity leaves the journal only when no delivery of it can take effect
\* any more: never sent, or answered with a conflict or a content refusal.
RetiredNeverCommits ==
    flips = 0 => \A i \in 1 .. minted : ~Has(i) => recorded[i].kind # "committed"

\* What composeIntent relies on to replace a refused intent: the authority did
\* not apply it.
RefusedIsNotApplied ==
    \A i \in DOMAIN journal :
        journal[i].state \in {"refused", "denied"} => recorded[i].kind # "committed"
=============================================================================
