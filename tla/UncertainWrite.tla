--------------------------- MODULE UncertainWrite ---------------------------
(***************************************************************************)
(* One shared document, the identified writes sent to it, and the answers   *)
(* recorded for them.                                                       *)
(*   client : performUncertainWrite (packages/core/src/uncertain-write.ts)  *)
(*   server : applyIdentified and handleOperationLookup (packages/server/   *)
(*            src/router.ts) over MemoryOperationOutcomeStore               *)
(*            (packages/server/src/operation-outcomes.ts)                   *)
(* A version is the hash of a content, so a version is its content here and *)
(* a document that returns to an earlier content has its old version again. *)
(***************************************************************************)
EXTENDS Naturals

CONSTANTS
    Writes,          \* the intents: method, document id, premise and content
    Keys,            \* request identities (Idempotency-Key)
    Key,             \* [Writes -> Keys]; a caller may reuse a key by mistake
    Contents,        \* versions of the document
    Absent,          \* no document
    Base,            \* [Writes -> Contents + Absent]: If-Match, or If-None-Match: *
    Local,           \* [Writes -> Contents + Absent]: Absent is a delete
    Invalid,         \* writes the engine refuses for their content
    TellsPending,    \* does a lookup tell a held identity from an absent one?
    ServerFaults,    \* may an application, or recording its answer, fail?
    MaxCalls,        \* calls of performUncertainWrite per write
    MaxSubmissions,  \* submissions permitted in one call
    MaxLookups,      \* lookups after an unknown submission
    MaxForgets,      \* answers lost: retention expiry, server restart
    MaxEdits,        \* writes by third parties
    MaxAuthFlips     \* access withdrawn or granted

ASSUME WriteAssumption ==
    /\ Key \in [Writes -> Keys]
    /\ Absent \notin Contents
    /\ Base \in [Writes -> Contents \union {Absent}]
    /\ Local \in [Writes -> Contents \union {Absent}]
    /\ Invalid \subseteq Writes
    /\ {TellsPending, ServerFaults} \subseteq BOOLEAN
    /\ {MaxCalls, MaxSubmissions, MaxLookups} \subseteq Nat \ {0}
    /\ {MaxForgets, MaxEdits, MaxAuthFlips} \subseteq Nat

Sends == 1 .. MaxCalls * MaxSubmissions
Heads == Contents \union {Absent}

\* Answers.  "auth" and "gate" refuse one attempt before it is executed and
\* are never recorded; "error" is a response without an answer.
Committed == [kind |-> "committed", actual |-> Absent]
Conflict(v) == [kind |-> "conflict", actual |-> v]
Refused(k) == [kind |-> k, actual |-> Absent]
Unknown == [kind |-> "unknown", actual |-> Absent]
NoAnswer == [kind |-> "none", actual |-> Absent]
Answers == [kind : {"committed", "conflict", "invalid", "usage", "auth", "gate",
                    "error", "unknown", "none"}, actual : Heads]

VARIABLES
    doc,         \* the shared head
    seen,        \* every head there has been
    recorded,    \* the recorded operation under each key: its write and answer
    claim,       \* the request that holds the in-progress claim of each key
    req,         \* each submission of each write, on the wire or in the router
    auth, gate,  \* is the caller authorized; does the gateway admit its bytes
    applied,     \* how often each write took effect
    forgets,     \* how often the outcome of each key was lost
    edits, flips,
    pc, calls, attempts, submissions, round, unclear, held, outcome

serverVars == <<doc, seen, recorded, claim, req, applied, forgets>>
envVars == <<auth, gate, edits, flips>>
clientVars == <<pc, calls, attempts, submissions, round, unclear, held, outcome>>
vars == <<serverVars, envVars, clientVars>>

NoRecord == [by |-> Absent, answer |-> NoAnswer]
NoClaim == [by |-> Absent, nr |-> 0]
ReqStates == {"unsent", "network", "claiming", "waiting", "applying", "applied", "replied", "gone"}

TypeOK ==
    /\ doc \in Heads /\ seen \subseteq Heads
    /\ recorded \in [Keys -> [by : Writes \union {Absent}, answer : Answers]]
    /\ claim \in [Keys -> [by : Writes \union {Absent}, nr : Nat]]
    /\ req \in [Writes -> [Sends -> [st : ReqStates, answer : Answers]]]
    /\ auth \in BOOLEAN /\ gate \in BOOLEAN
    /\ applied \in [Writes -> Nat] /\ forgets \in [Keys -> Nat]
    /\ edits \in Nat /\ flips \in Nat
    /\ pc \in [Writes -> {"idle", "submit", "await", "lookup"}]
    /\ calls \in [Writes -> Nat] /\ attempts \in [Writes -> Nat] /\ round \in [Writes -> Nat]
    /\ submissions \in [Writes -> 0 .. MaxSubmissions]
    /\ unclear \in [Writes -> BOOLEAN] /\ held \in [Writes -> BOOLEAN]
    /\ outcome \in [Writes -> Answers]

\* Every premise was the head when the intent was composed.
Init ==
    /\ doc \in {Base[w] : w \in Writes} /\ seen = {doc}
    /\ recorded = [k \in Keys |-> NoRecord]
    /\ claim = [k \in Keys |-> NoClaim]
    /\ req = [w \in Writes |-> [n \in Sends |-> [st |-> "unsent", answer |-> NoAnswer]]]
    /\ auth = TRUE /\ gate = TRUE
    /\ applied = [w \in Writes |-> 0]
    /\ forgets = [k \in Keys |-> 0]
    /\ edits = 0 /\ flips = 0
    /\ pc = [w \in Writes |-> "idle"]
    /\ calls = [w \in Writes |-> 0]
    /\ attempts = [w \in Writes |-> 0]
    /\ submissions = [w \in Writes |-> 0]
    /\ round = [w \in Writes |-> 0]
    /\ unclear = [w \in Writes |-> FALSE]
    /\ held = [w \in Writes |-> FALSE]
    /\ outcome = [w \in Writes |-> NoAnswer]

-----------------------------------------------------------------------------
(* Client: performUncertainWrite *)

\* Mutant: any conflict with an existing head counts as the intent's commit.
SettleAnyConflict(w, a) ==
    IF a.kind = "conflict" /\ a.actual # Absent THEN Committed ELSE a

\* settleAgainstIntent: a conflict at the intent's own content is its commit.
SettleAgainstIntent(w, a) ==
    IF a.kind = "conflict" /\ a.actual # Absent /\ a.actual = Local[w] THEN Committed ELSE a

Finish(w, a) ==
    /\ pc' = [pc EXCEPT ![w] = "idle"]
    /\ outcome' = [outcome EXCEPT ![w] = SettleAgainstIntent(w, a)]

\* May a later call take the intent up again?  An unknown one stays pending,
\* and one refused for lost access is requeued by resume.
Resumable(w) == outcome[w].kind \in {"none", "unknown", "auth"}

\* A call starts: an intent that was ever submitted starts at the lookup, and
\* earlierDeliveryUnclear is set for it (as the deliver of the hosted client does).
Call(w) ==
    /\ pc[w] = "idle" /\ Resumable(w) /\ calls[w] < MaxCalls
    /\ calls' = [calls EXCEPT ![w] = @ + 1]
    /\ pc' = [pc EXCEPT ![w] = IF attempts[w] = 0 THEN "submit" ELSE "lookup"]
    /\ submissions' = [submissions EXCEPT ![w] = 0]
    /\ round' = [round EXCEPT ![w] = 0]
    /\ unclear' = [unclear EXCEPT ![w] = attempts[w] > 0]
    /\ held' = [held EXCEPT ![w] = FALSE]
    /\ outcome' = [outcome EXCEPT ![w] = NoAnswer]
    /\ UNCHANGED <<serverVars, envVars, attempts>>

\* Mutant: one submission too many.
SubmitOneMore(w) ==
    /\ pc[w] = "submit"
    /\ IF submissions[w] > MaxSubmissions
       THEN Finish(w, Unknown) /\ UNCHANGED <<req, attempts, submissions>>
       ELSE /\ submissions' = [submissions EXCEPT ![w] = @ + 1]
            /\ attempts' = [attempts EXCEPT ![w] = @ + 1]
            /\ req' = [req EXCEPT ![w][attempts[w] + 1].st = "network"]
            /\ pc' = [pc EXCEPT ![w] = "await"]
            /\ UNCHANGED outcome
    /\ UNCHANGED <<doc, seen, recorded, claim, applied, forgets, envVars, calls, round, unclear, held>>

\* One submission leaves, if one is left.
Submit(w) ==
    /\ pc[w] = "submit"
    /\ IF submissions[w] >= MaxSubmissions
       THEN Finish(w, Unknown) /\ UNCHANGED <<req, attempts, submissions>>
       ELSE /\ submissions' = [submissions EXCEPT ![w] = @ + 1]
            /\ attempts' = [attempts EXCEPT ![w] = @ + 1]
            /\ req' = [req EXCEPT ![w][attempts[w] + 1].st = "network"]
            /\ pc' = [pc EXCEPT ![w] = "await"]
            /\ UNCHANGED outcome
    /\ UNCHANGED <<doc, seen, recorded, claim, applied, forgets, envVars, calls, round, unclear, held>>

\* Mutant: only a held delivery is protected, an authorization refusal settles.
RefusalSettles(w, a) == held[w] /\ a.kind = "gate"

\* The refusal of a resend that says nothing of an earlier delivery.
RefusalLeavesUnknown(w, a) ==
    a.kind = "auth" \/ (held[w] /\ a.kind = "gate")

\* The response of the current submission arrives.
Answer(w) ==
    /\ pc[w] = "await"
    /\ LET r == req[w][attempts[w]]
       IN  /\ r.st = "replied"
           /\ IF r.answer.kind = "error"
              THEN /\ unclear' = [unclear EXCEPT ![w] = TRUE]
                   /\ round' = [round EXCEPT ![w] = 0]
                   /\ pc' = [pc EXCEPT ![w] = "lookup"]
                   /\ UNCHANGED outcome
              ELSE /\ Finish(w, IF unclear[w] /\ RefusalLeavesUnknown(w, r.answer)
                                THEN Unknown ELSE r.answer)
                   /\ UNCHANGED <<unclear, round>>
    /\ UNCHANGED <<serverVars, envVars, calls, attempts, submissions, held>>

\* The deadline, or a transport failure: the request may have arrived.
Deadline(w) ==
    /\ pc[w] = "await"
    /\ unclear' = [unclear EXCEPT ![w] = TRUE]
    /\ round' = [round EXCEPT ![w] = 0]
    /\ pc' = [pc EXCEPT ![w] = "lookup"]
    /\ UNCHANGED <<serverVars, envVars, calls, attempts, submissions, held, outcome>>

\* GET /operations/{key}, answered by handleOperationLookup (router) for an
\* authorized caller: the recorded outcome, pending where the transport can
\* tell, or null.
Lookup(w) ==
    /\ pc[w] = "lookup" /\ auth
    /\ IF recorded[Key[w]] # NoRecord
       THEN Finish(w, recorded[Key[w]].answer) /\ UNCHANGED <<unclear, held>>
       ELSE /\ pc' = [pc EXCEPT ![w] = "submit"]
            /\ IF TellsPending /\ claim[Key[w]] # NoClaim
               THEN /\ unclear' = [unclear EXCEPT ![w] = TRUE]
                    /\ held' = [held EXCEPT ![w] = TRUE]
               ELSE UNCHANGED <<unclear, held>>
            /\ UNCHANGED outcome
    /\ UNCHANGED <<serverVars, envVars, calls, attempts, submissions, round>>

\* A lookup that fails is repeated, and leaves the outcome unknown at last.
LookupFails(w) ==
    /\ pc[w] = "lookup"
    /\ round' = [round EXCEPT ![w] = @ + 1]
    /\ IF round[w] + 1 < MaxLookups
       THEN UNCHANGED <<pc, outcome>>
       ELSE Finish(w, Unknown)
    /\ UNCHANGED <<serverVars, envVars, calls, attempts, submissions, unclear, held>>

\* options.signal: no further lookup or resubmission starts.
Abort(w) ==
    /\ pc[w] = "lookup" \/ (pc[w] = "submit" /\ submissions[w] > 0)
    /\ Finish(w, Unknown)
    /\ UNCHANGED <<serverVars, envVars, calls, attempts, submissions, round, unclear, held>>

-----------------------------------------------------------------------------
(* Server: applyIdentified over the outcome store *)

\* replayRecorded: a key is bound to the operation recorded under it.
Replay(w, op) == IF op.by = w THEN op.answer ELSE Refused("usage")

Respond(w, n, a) == [req EXCEPT ![w][n] = [st |-> "replied", answer |-> a]]

\* A request reaches the authority, which refuses it before dispatch when its
\* caller has no access or the gateway does not admit its bytes.
Arrive(w, n) ==
    /\ req[w][n].st = "network"
    /\ req' = IF ~auth THEN Respond(w, n, Refused("auth"))
              ELSE IF ~gate THEN Respond(w, n, Refused("gate"))
              ELSE [req EXCEPT ![w][n].st = "claiming"]
    /\ UNCHANGED <<doc, seen, recorded, claim, applied, forgets, envVars, clientVars>>

\* Mutant: the claim looks at the recorded answers only.
ClaimIgnoresClaimant(w, n) ==
    /\ req[w][n].st = "claiming"
    /\ LET k == Key[w]
       IN  IF recorded[k] # NoRecord
           THEN req' = Respond(w, n, Replay(w, recorded[k])) /\ UNCHANGED claim
           ELSE /\ req' = [req EXCEPT ![w][n].st = "applying"]
                /\ claim' = [claim EXCEPT ![k] = [by |-> w, nr |-> n]]
    /\ UNCHANGED <<doc, seen, recorded, applied, forgets, envVars, clientVars>>

\* Mutant: the claim looks at the requests in progress only.
ClaimIgnoresRecord(w, n) ==
    /\ req[w][n].st = "claiming"
    /\ LET k == Key[w]
       IN  IF claim[k] # NoClaim
           THEN req' = [req EXCEPT ![w][n].st = "waiting"] /\ UNCHANGED claim
           ELSE /\ req' = [req EXCEPT ![w][n].st = "applying"]
                /\ claim' = [claim EXCEPT ![k] = [by |-> w, nr |-> n]]
    /\ UNCHANGED <<doc, seen, recorded, applied, forgets, envVars, clientVars>>

\* store.claim: recorded, in progress, or handed out; one atomic step.
Claim(w, n) ==
    /\ req[w][n].st = "claiming"
    /\ LET k == Key[w]
       IN  IF recorded[k] # NoRecord
           THEN req' = Respond(w, n, Replay(w, recorded[k])) /\ UNCHANGED claim
           ELSE IF claim[k] # NoClaim
           THEN req' = [req EXCEPT ![w][n].st = "waiting"] /\ UNCHANGED claim
           ELSE /\ req' = [req EXCEPT ![w][n].st = "applying"]
                /\ claim' = [claim EXCEPT ![k] = [by |-> w, nr |-> n]]
    /\ UNCHANGED <<doc, seen, recorded, applied, forgets, envVars, clientVars>>

\* handleWriteDoc and handleDeleteDoc: the engine's compare-and-swap.  A
\* delete of an absent document succeeds.
Admits(w) == doc = Base[w] \/ (Local[w] = Absent /\ doc = Absent)

EngineAnswer(w) ==
    IF w \in Invalid THEN Refused("invalid")
    ELSE IF Admits(w) THEN Committed ELSE Conflict(doc)

Apply(w, n) ==
    /\ req[w][n].st = "applying"
    /\ req' = [req EXCEPT ![w][n] = [st |-> "applied", answer |-> EngineAnswer(w)]]
    /\ IF EngineAnswer(w) = Committed
       THEN /\ doc' = Local[w]
            /\ seen' = seen \union {Local[w]}
            /\ applied' = [applied EXCEPT ![w] = @ + 1]
       ELSE UNCHANGED <<doc, seen, applied>>
    /\ UNCHANGED <<recorded, claim, forgets, envVars, clientVars>>

\* Mutant: release does not resolve the promise its waiters hold.
FinishStrands(w, n, answer, op) ==
    /\ claim' = [claim EXCEPT ![Key[w]] = NoClaim]
    /\ req' = [v \in Writes |-> [m \in Sends |->
          IF v = w /\ m = n THEN [st |-> "replied", answer |-> answer]
          ELSE IF Key[v] = Key[w] /\ req[v][m].st = "waiting" /\ op # NoRecord
          THEN [st |-> "replied", answer |-> Replay(v, op)]
          ELSE req[v][m]]]

\* finish(value): the claim is given back, every waiter on it resolves with
\* the recorded operation, or claims again when there is none.
FinishClaim(w, n, answer, op) ==
    /\ claim' = [claim EXCEPT ![Key[w]] = NoClaim]
    /\ req' = [v \in Writes |-> [m \in Sends |->
          IF v = w /\ m = n THEN [st |-> "replied", answer |-> answer]
          ELSE IF Key[v] = Key[w] /\ req[v][m].st = "waiting"
          THEN IF op = NoRecord THEN [req[v][m] EXCEPT !.st = "claiming"]
               ELSE [st |-> "replied", answer |-> Replay(v, op)]
          ELSE req[v][m]]]

\* claim.record, then the response.
Record(w, n) ==
    /\ req[w][n].st = "applied"
    /\ LET op == [by |-> w, answer |-> req[w][n].answer]
       IN  /\ recorded' = [recorded EXCEPT ![Key[w]] = op]
           /\ FinishClaim(w, n, req[w][n].answer, op)
    /\ UNCHANGED <<doc, seen, applied, forgets, envVars, clientVars>>

\* A runtime failure of the engine: claim.release, nothing recorded.
ApplyFails(w, n) ==
    /\ ServerFaults /\ req[w][n].st = "applying"
    /\ FinishClaim(w, n, Refused("error"), NoRecord)
    /\ UNCHANGED <<doc, seen, recorded, applied, forgets, envVars, clientVars>>

\* record throws (its clock does): the key is given back without an answer,
\* although the write may have taken effect.
RecordFails(w, n) ==
    /\ ServerFaults /\ req[w][n].st = "applied"
    /\ forgets[Key[w]] < MaxForgets
    /\ forgets' = [forgets EXCEPT ![Key[w]] = @ + 1]
    /\ FinishClaim(w, n, Refused("error"), NoRecord)
    /\ UNCHANGED <<doc, seen, recorded, applied, envVars, clientVars>>

\* live() and prune(): a record older than the retention window is dropped.
Expire(k) ==
    /\ recorded[k] # NoRecord
    /\ forgets[k] < MaxForgets
    /\ recorded' = [recorded EXCEPT ![k] = NoRecord]
    /\ forgets' = [forgets EXCEPT ![k] = @ + 1]
    /\ UNCHANGED <<doc, seen, claim, req, applied, envVars, clientVars>>

\* The process restarts: its maps are empty and its requests are gone.
Restart ==
    /\ \A k \in Keys : forgets[k] < MaxForgets
    /\ recorded' = [k \in Keys |-> NoRecord]
    /\ claim' = [k \in Keys |-> NoClaim]
    /\ forgets' = [k \in Keys |-> forgets[k] + 1]
    /\ req' = [w \in Writes |-> [n \in Sends |->
          IF req[w][n].st \in {"claiming", "waiting", "applying", "applied"}
          THEN [st |-> "gone", answer |-> NoAnswer] ELSE req[w][n]]]
    /\ UNCHANGED <<doc, seen, applied, envVars, clientVars>>

-----------------------------------------------------------------------------
(* The rest of the world *)

\* Another author sets the head to any content.
Edit(v) ==
    /\ edits < MaxEdits /\ v # doc
    /\ doc' = v /\ seen' = seen \union {v}
    /\ edits' = edits + 1
    /\ UNCHANGED <<recorded, claim, req, applied, forgets, auth, gate, flips, clientVars>>

FlipAuth ==
    /\ flips < MaxAuthFlips
    /\ auth' = ~auth /\ flips' = flips + 1
    /\ UNCHANGED <<serverVars, gate, edits, clientVars>>

\* The hosted gateway stops admitting these bytes (a schema check, a hold).
CloseGate ==
    /\ gate /\ TellsPending
    /\ gate' = FALSE
    /\ UNCHANGED <<serverVars, auth, edits, flips, clientVars>>

-----------------------------------------------------------------------------
ClientStep(w) ==
    Submit(w) \/ Answer(w) \/ Deadline(w) \/ Lookup(w) \/ LookupFails(w) \/ Abort(w)

ServerStep(w, n) ==
    Arrive(w, n) \/ Claim(w, n) \/ Apply(w, n) \/ Record(w, n) \/ ApplyFails(w, n) \/ RecordFails(w, n)

Next ==
    \/ \E w \in Writes : Call(w) \/ ClientStep(w)
    \/ \E w \in Writes, n \in Sends : ServerStep(w, n)
    \/ \E k \in Keys : Expire(k)
    \/ \E v \in Heads : Edit(v)
    \/ Restart \/ FlipAuth \/ CloseGate

Spec == Init /\ [][Next]_vars

\* An admitted request keeps running while its process lives; nothing forces
\* the wire to deliver or a client to call.
Fairness ==
    \A w \in Writes, n \in Sends : WF_vars(Claim(w, n) \/ Apply(w, n) \/ Record(w, n))

FairSpec == Spec /\ Fairness

-----------------------------------------------------------------------------
(* Properties *)

\* applyIdentified applies a write at most once for as long as its answer is
\* kept: every further effect of the same write takes one lost answer first.
AppliedOncePerRecord ==
    \A w \in Writes : applied[w] <= 1 + forgets[Key[w]]

\* The answers of the engine to one write, replayed or not.
EngineAnswers(w) ==
    {req[w][n].answer : n \in {m \in Sends :
        req[w][m].st = "replied" /\ req[w][m].answer.kind \in {"committed", "conflict", "invalid", "usage"}}}

\* Every submission of a write, however many run at once, gets one answer
\* while it is kept, and it is the answer a lookup gives its own caller.
OneAnswer ==
    \A w \in Writes : forgets[Key[w]] = 0 =>
        /\ \A a, b \in EngineAnswers(w) : a = b
        /\ recorded[Key[w]].by = w => EngineAnswers(w) \subseteq {recorded[Key[w]].answer}

\* A request that waits on a claim waits on one that is being worked on, so
\* no failure path of record or release strands it.
WaitersHaveClaimant ==
    \A w \in Writes, n \in Sends :
        req[w][n].st = "waiting" =>
            \E v \in Writes, m \in Sends :
                /\ claim[Key[w]] = [by |-> v, nr |-> m]
                /\ req[v][m].st \in {"applying", "applied"}

\* A call of performUncertainWrite reports a commit only if the document has
\* held the written content (or, for a delete, has been absent).
CommittedIsReal ==
    \A w \in Writes : outcome[w].kind = "committed" => Local[w] \in seen

\* A refusal or conflict that ends a call ends the write: no delivery of it,
\* delayed in the network or held by the authority, takes effect any more
\* (while answers are kept).  This is what refusalLeavesUnknown is for.  A
\* gateway's refusal counts once a lookup has said that a delivery is held;
\* before that the code trusts the gateway to refuse a delayed delivery too.
SettledStaysSettled ==
    \A w \in Writes :
        /\ forgets[Key[w]] = 0 /\ pc[w] = "idle"
        /\ \/ outcome[w].kind \in {"conflict", "invalid", "usage", "auth"}
           \/ outcome[w].kind = "gate" /\ held[w]
        => applied[w] = 0

\* A waiting request is answered, unless its process restarts.
WaiterAnswered ==
    \A w \in Writes, n \in Sends :
        req[w][n].st = "waiting" ~> req[w][n].st \in {"replied", "gone"}

-----------------------------------------------------------------------------
(* The inductive invariant behind the safety properties *)

EngineKinds == {"committed", "conflict", "invalid"}
Working == {"applying", "applied"}

\* A call counts its submissions, and a submission that was not counted yet
\* has not left.
CountsAgree ==
    \A w \in Writes :
        /\ calls[w] <= MaxCalls
        /\ attempts[w] <= calls[w] * MaxSubmissions
        /\ pc[w] # "idle" =>
              attempts[w] + MaxSubmissions <= calls[w] * MaxSubmissions + submissions[w]
        /\ pc[w] = "await" => attempts[w] > 0
        /\ \A n \in Sends : n > attempts[w] => req[w][n].st = "unsent"

\* The claim of a key and the one request that works under it determine each
\* other; there is none once an answer is recorded, and none waits without it.
ClaimsAgree ==
    /\ \A k \in Keys : claim[k] # NoClaim =>
          /\ recorded[k] = NoRecord
          /\ \E w \in Writes, n \in Sends :
                /\ Key[w] = k /\ claim[k] = [by |-> w, nr |-> n]
                /\ req[w][n].st \in Working
    /\ \A w \in Writes, n \in Sends :
          /\ req[w][n].st \in Working => claim[Key[w]] = [by |-> w, nr |-> n]
          /\ req[w][n].st = "waiting" => claim[Key[w]] # NoClaim
          /\ req[w][n].st = "applied" => req[w][n].answer.kind \in EngineKinds
    /\ \A k \in Keys : recorded[k] # NoRecord =>
          /\ recorded[k].by \in Writes /\ Key[recorded[k].by] = k
          /\ recorded[k].answer.kind \in EngineKinds

\* An effect of a write that no lost answer accounts for is on record, or is
\* about to be recorded by the request that had it.
CommitKept(w) ==
    \/ recorded[Key[w]] = [by |-> w, answer |-> Committed]
    \/ \E n \in Sends : req[w][n].st = "applied" /\ req[w][n].answer = Committed

EffectsKept ==
    \A w \in Writes :
        \/ applied[w] <= forgets[Key[w]]
        \/ applied[w] = 1 + forgets[Key[w]] /\ CommitKept(w)

\* The engine's answers to a write replay its record while that is kept.
AnswersReplay ==
    \A w \in Writes, n \in Sends :
        /\ forgets[Key[w]] = 0 /\ req[w][n].st = "replied"
        /\ req[w][n].answer.kind \in EngineKinds \union {"usage"}
        => /\ recorded[Key[w]] # NoRecord
           /\ req[w][n].answer = Replay(w, recorded[Key[w]])

\* Did the request reach the engine, or may it have?
Executed(w, n) ==
    \/ req[w][n].st \in {"applied", "gone"}
    \/ req[w][n].st = "replied" /\ req[w][n].answer.kind \notin {"auth", "gate"}

\* What a client may conclude: unless it is unclear whether an earlier
\* delivery arrived, there was none, and a reported refusal is the engine's
\* kept one or was given to the only submission.
ClientKnows ==
    \A w \in Writes :
        /\ applied[w] > 0 => \E n \in Sends : Executed(w, n)
        /\ held[w] => unclear[w]
        /\ pc[w] = "lookup" => unclear[w]
        /\ pc[w] = "submit" /\ ~unclear[w] => attempts[w] = 0
        /\ pc[w] = "await" /\ ~unclear[w] => attempts[w] = 1
        /\ pc[w] = "idle" /\ outcome[w].kind = "gate" => ~held[w]
        /\ pc[w] = "idle" /\ outcome[w].kind = "auth" =>
              /\ attempts[w] = 1
              /\ req[w][1].st = "replied" /\ req[w][1].answer.kind = "auth"
        /\ outcome[w].kind \in {"conflict", "invalid", "usage"} /\ forgets[Key[w]] = 0 =>
              /\ recorded[Key[w]] # NoRecord
              /\ recorded[Key[w]] # [by |-> w, answer |-> Committed]

WriteInv ==
    /\ TypeOK /\ CountsAgree /\ ClaimsAgree
    /\ EffectsKept /\ AnswersReplay /\ ClientKnows

\* What an answer to a write says of the document's history.
Truthful(w, a) ==
    /\ a.kind = "committed" => Local[w] \in seen
    /\ a.kind = "conflict" => a.actual \in seen

\* Every intent has a request identity of its own.
OwnKeys == \A v, w \in Writes : Key[v] = Key[w] => v = w

\* Under OwnKeys all answers, recorded or not, are truthful.
AnswersTruthful ==
    /\ \A w \in Writes, n \in Sends : Truthful(w, req[w][n].answer)
    /\ \A k \in Keys : recorded[k] # NoRecord => Truthful(recorded[k].by, recorded[k].answer)
    /\ doc \in seen /\ CommittedIsReal
=============================================================================
