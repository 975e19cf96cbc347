------------------------- MODULE UncertainWriteProofs -------------------------
(* Machine-checked proofs about UncertainWrite, for every set of writes, keys  *)
(* and contents and for every bound                                            *)
EXTENDS UncertainWrite, TLAPS

Req == [st : ReqStates, answer : Answers]

-----------------------------------------------------------------------------
(* Facts about the operators of the model *)

\* The constant answers are answers, and refusals of any kind are.
LEMMA AnswerTypes ==
    /\ Committed \in Answers /\ Unknown \in Answers /\ NoAnswer \in Answers
    /\ \A v \in Heads : Conflict(v) \in Answers
    /\ \A k \in {"invalid", "usage", "auth", "gate", "error"} : Refused(k) \in Answers
BY DEF Answers, Heads, Committed, Unknown, NoAnswer, Conflict, Refused

\* The initial request and those the server leaves behind.
LEMMA ReqTypes ==
    /\ [st |-> "unsent", answer |-> NoAnswer] \in Req
    /\ [st |-> "gone", answer |-> NoAnswer] \in Req
    /\ \A a \in Answers, s \in ReqStates : [st |-> s, answer |-> a] \in Req
BY AnswerTypes DEF Req, ReqStates

\* One call more is worth its submissions.
LEMMA CallBound ==
    ASSUME NEW c \in Nat, NEW d \in Nat, c <= d
    PROVE  /\ (c + 1) * MaxSubmissions = c * MaxSubmissions + MaxSubmissions
           /\ c * MaxSubmissions <= d * MaxSubmissions
           /\ c * MaxSubmissions \in Nat
<1>1. MaxSubmissions \in Nat
  BY WriteAssumption
<1>2. \A m \in Nat : (c + 1) * m = c * m + m /\ c * m <= d * m /\ c * m \in Nat
  OBVIOUS
<1>3. QED
  BY <1>1, <1>2

\* The submissions of a write stay within their numbers.
LEMMA NumberOfSend ==
    ASSUME CountsAgree, TypeOK, NEW w \in Writes, attempts[w] > 0
    PROVE  attempts[w] \in Sends
<1>1. attempts[w] <= calls[w] * MaxSubmissions /\ calls[w] <= MaxCalls
  BY DEF CountsAgree
<1>2. calls[w] \in Nat /\ attempts[w] \in Nat /\ MaxCalls \in Nat
  BY WriteAssumption DEF TypeOK
<1>3. calls[w] * MaxSubmissions <= MaxCalls * MaxSubmissions /\ calls[w] * MaxSubmissions \in Nat /\ MaxCalls * MaxSubmissions \in Nat
  BY <1>1, <1>2, CallBound
<1>4. QED
  BY <1>1, <1>2, <1>3 DEF Sends

\* The requests after one of them was replaced.
LEMMA ReqSet ==
    ASSUME TypeOK, NEW w \in Writes, NEW n, NEW r \in Req,
           req' = [req EXCEPT ![w][n] = r]
    PROVE  /\ req' \in [Writes -> [Sends -> Req]]
           /\ \A v \in Writes, m \in Sends :
                 req'[v][m] = IF v = w /\ m = n THEN r ELSE req[v][m]
<1>1. req \in [Writes -> [Sends -> Req]]
  BY DEF TypeOK, Req
<1>2. QED
  BY <1>1

\* The requests after the state of one of them changed.
LEMMA ReqMove ==
    ASSUME TypeOK, NEW w \in Writes, NEW n, NEW s \in ReqStates,
           req' = [req EXCEPT ![w][n].st = s]
    PROVE  /\ req' \in [Writes -> [Sends -> Req]]
           /\ \A v \in Writes, m \in Sends :
                 /\ req'[v][m].st = IF v = w /\ m = n THEN s ELSE req[v][m].st
                 /\ req'[v][m].answer = req[v][m].answer
<1> DEFINE row == [req[w] EXCEPT ![n].st = s]
<1>1. req \in [Writes -> [Sends -> Req]] /\ req[w] \in [Sends -> Req]
  BY DEF TypeOK, Req
<1>2. \A r \in Req : LET q == [r EXCEPT !.st = s] IN q \in Req /\ q.st = s /\ q.answer = r.answer
  BY DEF Req
<1>3. /\ row \in [Sends -> Req]
      /\ \A m \in Sends : /\ row[m].st = IF m = n THEN s ELSE req[w][m].st
                         /\ row[m].answer = req[w][m].answer
  <2> HIDE DEF Req
  <2> QED
    BY <1>1, <1>2
<1>4. req' = [req EXCEPT ![w] = row]
  OBVIOUS
<1> HIDE DEF row
<1>5. QED
  BY <1>1, <1>3, <1>4

\* Finish ends the call with an answer.
LEMMA FinishTypes ==
    ASSUME TypeOK, NEW w \in Writes, NEW a \in Answers, Finish(w, a)
    PROVE  /\ pc' \in [Writes -> {"idle", "submit", "await", "lookup"}]
           /\ outcome' \in [Writes -> Answers]
           /\ pc' = [pc EXCEPT ![w] = "idle"]
           /\ \A v \in Writes : outcome'[v] =
                 IF v = w THEN SettleAgainstIntent(w, a) ELSE outcome[v]
           /\ SettleAgainstIntent(w, a) \in {a, Committed}
<1>1. SettleAgainstIntent(w, a) \in {a, Committed}
  BY DEF SettleAgainstIntent
<1>2. SettleAgainstIntent(w, a) \in Answers
  BY <1>1, AnswerTypes
<1>3. QED
  BY <1>1, <1>2 DEF Finish, TypeOK

\* Finish settles a claim: the typing of what it leaves behind.
LEMMA FinishClaimTypes ==
    ASSUME TypeOK, NEW w \in Writes, NEW n \in Sends, NEW a \in Answers,
           NEW op \in [by : Writes \union {Absent}, answer : Answers],
           FinishClaim(w, n, a, op)
    PROVE  /\ req' \in [Writes -> [Sends -> Req]]
           /\ claim' \in [Keys -> [by : Writes \union {Absent}, nr : Nat]]
<1>1. claim' \in [Keys -> [by : Writes \union {Absent}, nr : Nat]]
  <2>1. NoClaim \in [by : Writes \union {Absent}, nr : Nat]
    BY DEF NoClaim
  <2>2. QED
    BY <2>1 DEF FinishClaim, TypeOK
<1>2. \A v \in Writes, m \in Sends :
        /\ [st |-> "replied", answer |-> a] \in Req
        /\ [st |-> "replied", answer |-> Replay(v, op)] \in Req
        /\ [req[v][m] EXCEPT !.st = "claiming"] \in Req
        /\ req[v][m] \in Req
  <2> SUFFICES ASSUME NEW v \in Writes, NEW m \in Sends
               PROVE  /\ [st |-> "replied", answer |-> Replay(v, op)] \in Req
                      /\ [st |-> "replied", answer |-> a] \in Req
                      /\ [req[v][m] EXCEPT !.st = "claiming"] \in Req
                      /\ req[v][m] \in Req
    OBVIOUS
  <2>1. Replay(v, op) \in Answers
    BY AnswerTypes DEF Replay
  <2>2. req[v][m] \in Req
    BY DEF TypeOK, Req
  <2>3. [req[v][m] EXCEPT !.st = "claiming"] \in Req
    BY <2>2 DEF Req, ReqStates
  <2>4. QED
    BY <2>1, <2>2, <2>3, ReqTypes DEF ReqStates
<1>3. req' \in [Writes -> [Sends -> Req]]
  <2> HIDE DEF Req
  <2> QED
    BY <1>2 DEF FinishClaim
<1>4. QED
  BY <1>1, <1>3

-----------------------------------------------------------------------------
(* Typing *)

\* Types hold initially.
LEMMA TypeInit == Init => TypeOK
<1> SUFFICES ASSUME Init PROVE TypeOK
  OBVIOUS
<1> USE WriteAssumption DEF Init
<1>1. doc \in Heads /\ seen \subseteq Heads
  BY DEF Heads
<1>2. recorded \in [Keys -> [by : Writes \union {Absent}, answer : Answers]]
  BY AnswerTypes DEF NoRecord
<1>3. claim \in [Keys -> [by : Writes \union {Absent}, nr : Nat]]
  BY DEF NoClaim
<1>4. req \in [Writes -> [Sends -> [st : ReqStates, answer : Answers]]]
  BY ReqTypes DEF Req
<1>5. outcome \in [Writes -> Answers]
  BY AnswerTypes
<1>6. QED
  BY <1>1, <1>2, <1>3, <1>4, <1>5 DEF TypeOK

\* A step of the client preserves the types.
LEMMA TypeClient ==
    ASSUME TypeOK, CountsAgree, ClaimsAgree, NEW w \in Writes, Call(w) \/ ClientStep(w)
    PROVE  TypeOK'
<1> USE DEF serverVars, envVars, clientVars
<1>0. MaxSubmissions \in Nat
  BY WriteAssumption
<1>1. CASE Call(w)
  BY <1>0, <1>1, AnswerTypes DEF Call, TypeOK
<1>2. CASE Submit(w)
  <2>1. CASE submissions[w] >= MaxSubmissions
    <3>1. Finish(w, Unknown)
      BY <1>2, <2>1 DEF Submit
    <3>2. QED
      BY <1>2, <2>1, <3>1, FinishTypes, AnswerTypes DEF Submit, TypeOK
  <2>2. CASE ~(submissions[w] >= MaxSubmissions)
    <3>1. req' = [req EXCEPT ![w][attempts[w] + 1].st = "network"]
      BY <1>2, <2>2 DEF Submit
    <3>2. req' \in [Writes -> [Sends -> Req]]
      BY <3>1, ReqMove DEF ReqStates
    <3>3. submissions' \in [Writes -> 0 .. MaxSubmissions]
      <4>1. submissions' = [submissions EXCEPT ![w] = @ + 1]
        BY <1>2, <2>2 DEF Submit
      <4>2. submissions \in [Writes -> 0 .. MaxSubmissions] /\ MaxSubmissions \in Nat
        BY WriteAssumption DEF TypeOK
      <4>3. submissions[w] + 1 \in 0 .. MaxSubmissions
        BY <2>2, <4>2
      <4>4. QED
        BY <4>1, <4>2, <4>3
    <3>4. attempts' \in [Writes -> Nat]
      <4>1. attempts' = [attempts EXCEPT ![w] = @ + 1]
        BY <1>2, <2>2 DEF Submit
      <4>2. attempts[w] + 1 \in Nat /\ attempts \in [Writes -> Nat]
        BY DEF TypeOK
      <4>3. QED
        BY <4>1, <4>2
    <3>5. pc' \in [Writes -> {"idle", "submit", "await", "lookup"}]
      BY <1>2, <2>2 DEF Submit, TypeOK
    <3>6. QED
      BY <1>2, <2>2, <3>2, <3>3, <3>4, <3>5 DEF Submit, TypeOK, Req
  <2>3. QED
    BY <2>1, <2>2
<1>3. CASE Answer(w)
  <2> DEFINE r == req[w][attempts[w]]
  <2>1. r \in Req
    <3>1. attempts[w] \in Sends
      BY <1>3, NumberOfSend DEF Answer, CountsAgree
    <3>2. QED
      BY <3>1 DEF TypeOK, Req
  <2>2. CASE r.answer.kind = "error"
    <3>1. /\ unclear' = [unclear EXCEPT ![w] = TRUE]
          /\ round' = [round EXCEPT ![w] = 0]
          /\ pc' = [pc EXCEPT ![w] = "lookup"]
          /\ UNCHANGED <<serverVars, envVars, calls, attempts, submissions, held, outcome>>
      BY <1>3, <2>2 DEF Answer
    <3>2. QED
      BY <3>1 DEF TypeOK
  <2>3. CASE r.answer.kind # "error"
    <3>1. PICK a \in {Unknown, r.answer} : Finish(w, a)
      BY <1>3, <2>3 DEF Answer
    <3>2. a \in Answers
      BY <2>1, AnswerTypes DEF Req
    <3>3. QED
      BY <1>3, <2>3, <3>1, <3>2, FinishTypes DEF Answer, TypeOK
  <2>4. QED
    BY <2>2, <2>3
<1>4. CASE Deadline(w)
  BY <1>4 DEF Deadline, TypeOK
<1>5. CASE Lookup(w)
  <2>1. recorded[Key[w]].answer \in Answers
    BY WriteAssumption DEF TypeOK
  <2>2. CASE recorded[Key[w]] # NoRecord
    BY <1>5, <2>1, <2>2, FinishTypes DEF Lookup, TypeOK
  <2>3. CASE recorded[Key[w]] = NoRecord
    BY <1>5, <2>3 DEF Lookup, TypeOK
  <2>4. QED
    BY <2>2, <2>3
<1>6. CASE LookupFails(w)
  <2>1. CASE round[w] + 1 < MaxLookups
    BY <1>6, <2>1 DEF LookupFails, TypeOK
  <2>2. CASE ~(round[w] + 1 < MaxLookups)
    BY <1>6, <2>2, FinishTypes, AnswerTypes DEF LookupFails, TypeOK
  <2>3. QED
    BY <2>1, <2>2
<1>7. CASE Abort(w)
  BY <1>7, FinishTypes, AnswerTypes DEF Abort, TypeOK
<1>8. QED
  BY <1>1, <1>2, <1>3, <1>4, <1>5, <1>6, <1>7 DEF ClientStep

\* The engine answers with an answer, and with one it may give.
LEMMA EngineTypes ==
    ASSUME TypeOK, NEW w \in Writes
    PROVE  /\ EngineAnswer(w) \in Answers
           /\ EngineAnswer(w).kind \in EngineKinds
           /\ EngineAnswer(w).kind = "conflict" => EngineAnswer(w).actual = doc
           /\ EngineAnswer(w).kind = "committed" <=> EngineAnswer(w) = Committed
BY AnswerTypes DEF EngineAnswer, EngineKinds, Committed, Conflict, Refused, TypeOK

\* A step of the server preserves the types.
LEMMA TypeServer ==
    ASSUME TypeOK, NEW w \in Writes, NEW n \in Sends, ServerStep(w, n)
    PROVE  TypeOK'
<1> USE DEF envVars, clientVars
<1>0. Key[w] \in Keys /\ req[w][n] \in Req /\ req[w][n].answer \in Answers /\ Local[w] \in Heads
  BY WriteAssumption DEF TypeOK, Req, Heads
<1>1. CASE Arrive(w, n)
  <2>1. req' \in [Writes -> [Sends -> Req]]
    <3>1. \/ \E k \in {"auth", "gate"} : req' = [req EXCEPT ![w][n] = [st |-> "replied", answer |-> Refused(k)]]
          \/ req' = [req EXCEPT ![w][n].st = "claiming"]
      BY <1>1 DEF Arrive, Respond
    <3>2. \A k \in {"auth", "gate"} : [st |-> "replied", answer |-> Refused(k)] \in Req
      BY ReqTypes, AnswerTypes DEF ReqStates
    <3>3. "claiming" \in ReqStates
      BY DEF ReqStates
    <3>4. QED
      BY <3>1, <3>2, <3>3, ReqSet, ReqMove
  <2>2. QED
    BY <1>1, <2>1 DEF Arrive, TypeOK, Req
<1>2. CASE Claim(w, n)
  <2>1. req' \in [Writes -> [Sends -> Req]]
    <3>1. \/ req' = [req EXCEPT ![w][n] = [st |-> "replied", answer |-> Replay(w, recorded[Key[w]])]]
          \/ \E t \in {"waiting", "applying"} : req' = [req EXCEPT ![w][n].st = t]
      BY <1>2 DEF Claim, Respond
    <3>2. Replay(w, recorded[Key[w]]) \in Answers
      BY <1>0, AnswerTypes DEF Replay, TypeOK
    <3>3. [st |-> "replied", answer |-> Replay(w, recorded[Key[w]])] \in Req
      BY <3>2, ReqTypes DEF ReqStates
    <3>4. {"waiting", "applying"} \subseteq ReqStates
      BY DEF ReqStates
    <3>5. QED
      BY <3>1, <3>3, <3>4, ReqSet, ReqMove
  <2>2. claim' \in [Keys -> [by : Writes \union {Absent}, nr : Nat]]
    <3>1. [by |-> w, nr |-> n] \in [by : Writes \union {Absent}, nr : Nat]
      BY DEF Sends
    <3>2. claim' = claim \/ claim' = [claim EXCEPT ![Key[w]] = [by |-> w, nr |-> n]]
      BY <1>2 DEF Claim
    <3>3. QED
      BY <3>1, <3>2 DEF TypeOK
  <2>3. QED
    BY <1>2, <2>1, <2>2 DEF Claim, TypeOK, Req
<1>3. CASE Apply(w, n)
  <2>1. req' \in [Writes -> [Sends -> Req]]
    BY <1>3, EngineTypes, ReqTypes, ReqSet DEF Apply, ReqStates
  <2>2. /\ doc' = doc \/ doc' = Local[w]
        /\ seen' = seen \/ seen' = seen \union {Local[w]}
        /\ applied' = applied \/ applied' = [applied EXCEPT ![w] = @ + 1]
    BY <1>3 DEF Apply
  <2>3. doc' \in Heads /\ seen' \subseteq Heads /\ applied' \in [Writes -> Nat]
    BY <1>0, <2>2 DEF TypeOK
  <2>4. QED
    BY <1>3, <2>1, <2>3 DEF Apply, TypeOK, Req
<1>4. CASE Record(w, n)
  <2> DEFINE op == [by |-> w, answer |-> req[w][n].answer]
  <2>1. op \in [by : Writes \union {Absent}, answer : Answers]
    BY <1>0
  <2>2. FinishClaim(w, n, req[w][n].answer, op) /\ recorded' = [recorded EXCEPT ![Key[w]] = op]
    BY <1>4 DEF Record
  <2> HIDE DEF op
  <2>3. recorded' \in [Keys -> [by : Writes \union {Absent}, answer : Answers]]
    BY <2>1, <2>2 DEF TypeOK
  <2>4. QED
    BY <1>0, <1>4, <2>1, <2>2, <2>3, FinishClaimTypes DEF Record, TypeOK, Req
<1>5. CASE ApplyFails(w, n) \/ RecordFails(w, n)
  <2>1. FinishClaim(w, n, Refused("error"), NoRecord)
    BY <1>5 DEF ApplyFails, RecordFails
  <2>2. NoRecord \in [by : Writes \union {Absent}, answer : Answers]
    BY AnswerTypes DEF NoRecord
  <2>3. req' \in [Writes -> [Sends -> Req]] /\ claim' \in [Keys -> [by : Writes \union {Absent}, nr : Nat]]
    BY <2>1, <2>2, FinishClaimTypes, AnswerTypes
  <2>4. forgets' \in [Keys -> Nat]
    <3>1. forgets' = forgets \/ forgets' = [forgets EXCEPT ![Key[w]] = @ + 1]
      BY <1>5 DEF ApplyFails, RecordFails
    <3>2. forgets \in [Keys -> Nat]
      BY DEF TypeOK
    <3>3. QED
      BY <3>1, <3>2
  <2>5. UNCHANGED <<doc, seen, recorded, applied, envVars, clientVars>>
    <3>1. CASE ApplyFails(w, n)
      BY <3>1 DEF ApplyFails
    <3>2. CASE RecordFails(w, n)
      BY <3>2 DEF RecordFails
    <3>3. QED
      BY <1>5, <3>1, <3>2
  <2> HIDE <1>5, <2>1
  <2>6. QED
    BY <2>3, <2>4, <2>5 DEF TypeOK, Req, envVars, clientVars
<1>6. QED
  BY <1>1, <1>2, <1>3, <1>4, <1>5 DEF ServerStep

\* So does a step of the world around them.
LEMMA TypeRest ==
    ASSUME TypeOK,
           \/ \E k \in Keys : Expire(k)
           \/ \E v \in Heads : Edit(v)
           \/ Restart \/ FlipAuth \/ CloseGate \/ UNCHANGED vars
    PROVE  TypeOK'
<1> USE DEF serverVars, envVars, clientVars
<1>1. ASSUME NEW k \in Keys, Expire(k) PROVE TypeOK'
  <2>1. NoRecord \in [by : Writes \union {Absent}, answer : Answers]
    BY AnswerTypes DEF NoRecord
  <2>2. QED
    BY <1>1, <2>1 DEF Expire, TypeOK
<1>2. ASSUME NEW v \in Heads, Edit(v) PROVE TypeOK'
  BY <1>2 DEF Edit, TypeOK
<1>3. CASE Restart
  <2>1. recorded' \in [Keys -> [by : Writes \union {Absent}, answer : Answers]]
    BY <1>3, AnswerTypes DEF Restart, NoRecord
  <2>2. claim' \in [Keys -> [by : Writes \union {Absent}, nr : Nat]]
    BY <1>3 DEF Restart, NoClaim
  <2>3. req' \in [Writes -> [Sends -> Req]]
    BY <1>3, ReqTypes DEF Restart, TypeOK, Req
  <2>4. QED
    BY <1>3, <2>1, <2>2, <2>3 DEF Restart, TypeOK, Req
<1>4. CASE FlipAuth
  BY <1>4 DEF FlipAuth, TypeOK
<1>5. CASE CloseGate
  BY <1>5 DEF CloseGate, TypeOK
<1>6. CASE UNCHANGED vars
  BY <1>6 DEF vars, TypeOK
<1>7. QED
  BY <1>1, <1>2, <1>3, <1>4, <1>5, <1>6

-----------------------------------------------------------------------------
(* What each step does to the requests and the claims, one by one *)

\* A claim names a number of a request, and a record holds an engine's answer.
LEMMA Distinct ==
    /\ \A w \in Writes, n \in Sends : [by |-> w, nr |-> n] # NoClaim
    /\ \A w \in Writes, a \in Answers :
          a.kind \in EngineKinds => [by |-> w, answer |-> a] # NoRecord
    /\ NoRecord.answer.kind = "none" /\ Committed.kind = "committed"
BY DEF NoClaim, NoRecord, NoAnswer, Sends, EngineKinds, Committed

Same(v, m) == req'[v][m].st = req[v][m].st /\ req'[v][m].answer = req[v][m].answer

\* One submission more is on the wire.
LEMMA SubmitAt ==
    ASSUME TypeOK, CountsAgree, NEW w \in Writes, Submit(w)
    PROVE  \/ Finish(w, Unknown) /\ UNCHANGED <<req, attempts, submissions>>
           \/ /\ submissions[w] < MaxSubmissions
              /\ attempts[w] + 1 \in Sends
              /\ pc' = [pc EXCEPT ![w] = "await"] /\ outcome' = outcome
              /\ submissions' = [submissions EXCEPT ![w] = @ + 1]
              /\ attempts' = [attempts EXCEPT ![w] = @ + 1]
              /\ req[w][attempts[w] + 1].st = "unsent"
              /\ req'[w][attempts[w] + 1].st = "network"
              /\ \A v \in Writes, m \in Sends : req'[v][m].answer = req[v][m].answer
              /\ \A v \in Writes, m \in Sends :
                    ~(v = w /\ m = attempts[w] + 1) => Same(v, m)
<1>1. CASE submissions[w] >= MaxSubmissions
  BY <1>1 DEF Submit
<1>2. CASE ~(submissions[w] >= MaxSubmissions)
  <2>1. /\ MaxSubmissions \in Nat /\ submissions[w] \in Nat /\ attempts[w] \in Nat
        /\ calls[w] \in Nat /\ MaxCalls \in Nat /\ calls[w] <= MaxCalls
    BY WriteAssumption DEF TypeOK, CountsAgree
  <2>2. /\ calls[w] * MaxSubmissions \in Nat /\ MaxCalls * MaxSubmissions \in Nat
        /\ calls[w] * MaxSubmissions <= MaxCalls * MaxSubmissions
    BY <2>1, CallBound
  <2>3. pc[w] = "submit"
    BY DEF Submit
  <2>4. attempts[w] + MaxSubmissions <= calls[w] * MaxSubmissions + submissions[w]
    BY <2>3 DEF CountsAgree
  <2>5. attempts[w] + 1 \in Sends
    BY <1>2, <2>1, <2>2, <2>4 DEF Sends
  <2>6. req[w][attempts[w] + 1].st = "unsent"
    BY <2>1, <2>5 DEF CountsAgree
  <2>7. req' = [req EXCEPT ![w][attempts[w] + 1].st = "network"]
    BY <1>2 DEF Submit
  <2>8. "network" \in ReqStates
    BY DEF ReqStates
  <2>9. \A v \in Writes, m \in Sends :
          /\ req'[v][m].st = IF v = w /\ m = attempts[w] + 1 THEN "network" ELSE req[v][m].st
          /\ req'[v][m].answer = req[v][m].answer
    BY <2>7, <2>8, ReqMove
  <2>10. QED
    BY <1>2, <2>1, <2>5, <2>6, <2>9 DEF Submit, Same
<1>3. QED
  BY <1>1, <1>2

\* Every other step of a client leaves the requests alone.
LEMMA ClientLeavesReq ==
    ASSUME NEW w \in Writes, Call(w) \/ ClientStep(w), ~Submit(w)
    PROVE  UNCHANGED serverVars
BY DEF ClientStep, Call, Answer, Deadline, Lookup, LookupFails, Abort, serverVars

\* A request is refused at the door or goes on to its claim.
LEMMA ArriveAt ==
    ASSUME TypeOK, NEW w \in Writes, NEW n \in Sends, Arrive(w, n)
    PROVE  /\ req[w][n].st = "network"
           /\ \/ req'[w][n].st = "claiming" /\ req'[w][n].answer = req[w][n].answer
              \/ req'[w][n].st = "replied" /\ req'[w][n].answer.kind \in {"auth", "gate"}
           /\ \A v \in Writes, m \in Sends : ~(v = w /\ m = n) => Same(v, m)
<1>1. CASE req' = [req EXCEPT ![w][n].st = "claiming"]
  <2>1. "claiming" \in ReqStates
    BY DEF ReqStates
  <2>2. \A v \in Writes, m \in Sends :
          /\ req'[v][m].st = IF v = w /\ m = n THEN "claiming" ELSE req[v][m].st
          /\ req'[v][m].answer = req[v][m].answer
    BY <1>1, <2>1, ReqMove
  <2>3. QED
    BY <2>2 DEF Arrive, Same
<1>2. ASSUME NEW k \in {"auth", "gate"}, req' = Respond(w, n, Refused(k))
      PROVE  /\ req'[w][n].st = "replied" /\ req'[w][n].answer.kind \in {"auth", "gate"}
             /\ \A v \in Writes, m \in Sends : ~(v = w /\ m = n) => Same(v, m)
  <2>1. [st |-> "replied", answer |-> Refused(k)] \in Req
    BY ReqTypes, AnswerTypes DEF ReqStates
  <2>2. req'[w][n] = [st |-> "replied", answer |-> Refused(k)]
    BY <1>2, <2>1, ReqSet DEF Respond
  <2>3. \A v \in Writes, m \in Sends : ~(v = w /\ m = n) => req'[v][m] = req[v][m]
    BY <1>2, <2>1, ReqSet DEF Respond
  <2>4. QED
    BY <2>2, <2>3 DEF Refused, Same
<1>3. QED
  BY <1>1, <1>2 DEF Arrive

\* A claim moves one request.
LEMMA ClaimMoves ==
    ASSUME TypeOK, NEW w \in Writes, NEW n \in Sends, Claim(w, n)
    PROVE  /\ req[w][n].st = "claiming"
           /\ \A v \in Writes, m \in Sends : ~(v = w /\ m = n) => Same(v, m)
<1>1. CASE recorded[Key[w]] # NoRecord
  <2>1. Replay(w, recorded[Key[w]]) \in Answers
    BY WriteAssumption, AnswerTypes DEF Replay, TypeOK
  <2>2. [st |-> "replied", answer |-> Replay(w, recorded[Key[w]])] \in Req
    BY <2>1, ReqTypes DEF ReqStates
  <2>3. req' = [req EXCEPT ![w][n] = [st |-> "replied", answer |-> Replay(w, recorded[Key[w]])]]
    BY <1>1 DEF Claim, Respond
  <2>4. \A v \in Writes, m \in Sends : ~(v = w /\ m = n) => req'[v][m] = req[v][m]
    BY <2>2, <2>3, ReqSet
  <2>5. QED
    BY <2>4 DEF Claim, Same
<1>2. CASE recorded[Key[w]] = NoRecord
  <2>1. PICK s \in {"waiting", "applying"} : req' = [req EXCEPT ![w][n].st = s]
    BY <1>2 DEF Claim
  <2>2. s \in ReqStates
    BY DEF ReqStates
  <2>3. QED
    BY <2>1, <2>2, ReqMove DEF Claim, Same
<1>3. QED
  BY <1>1, <1>2

\* A claiming request gets the recorded answer, waits, or takes the claim.
LEMMA ClaimAt ==
    ASSUME TypeOK, NEW w \in Writes, NEW n \in Sends, Claim(w, n)
    PROVE  \/ /\ recorded[Key[w]] # NoRecord /\ claim' = claim
              /\ req'[w][n].st = "replied"
              /\ req'[w][n].answer = Replay(w, recorded[Key[w]])
           \/ /\ recorded[Key[w]] = NoRecord /\ claim[Key[w]] # NoClaim
              /\ claim' = claim
              /\ req'[w][n].st = "waiting" /\ req'[w][n].answer = req[w][n].answer
           \/ /\ recorded[Key[w]] = NoRecord /\ claim[Key[w]] = NoClaim
              /\ claim'[Key[w]] = [by |-> w, nr |-> n]
              /\ \A k \in Keys : k # Key[w] => claim'[k] = claim[k]
              /\ req'[w][n].st = "applying" /\ req'[w][n].answer = req[w][n].answer
<1>1. CASE recorded[Key[w]] # NoRecord
  <2>1. Replay(w, recorded[Key[w]]) \in Answers
    BY WriteAssumption, AnswerTypes DEF Replay, TypeOK
  <2>2. [st |-> "replied", answer |-> Replay(w, recorded[Key[w]])] \in Req
    BY <2>1, ReqTypes DEF ReqStates
  <2>3. req' = [req EXCEPT ![w][n] = [st |-> "replied", answer |-> Replay(w, recorded[Key[w]])]]
    BY <1>1 DEF Claim, Respond
  <2>4. \A v \in Writes, m \in Sends : req'[v][m] =
          IF v = w /\ m = n THEN [st |-> "replied", answer |-> Replay(w, recorded[Key[w]])]
          ELSE req[v][m]
    BY <2>2, <2>3, ReqSet
  <2>5. QED
    BY <1>1, <2>4 DEF Claim
<1>2. CASE recorded[Key[w]] = NoRecord
  <2>1. \E s \in {"waiting", "applying"} : req' = [req EXCEPT ![w][n].st = s]
    BY <1>2 DEF Claim
  <2>2. {"waiting", "applying"} \subseteq ReqStates
    BY DEF ReqStates
  <2>3. CASE claim[Key[w]] # NoClaim
    <3>1. req' = [req EXCEPT ![w][n].st = "waiting"] /\ claim' = claim
      BY <1>2, <2>3 DEF Claim
    <3>2. \A v \in Writes, m \in Sends :
            /\ req'[v][m].st = IF v = w /\ m = n THEN "waiting" ELSE req[v][m].st
            /\ req'[v][m].answer = req[v][m].answer
      BY <2>2, <3>1, ReqMove
    <3>3. QED
      BY <1>2, <2>3, <3>1, <3>2 DEF Claim
  <2>4. CASE claim[Key[w]] = NoClaim
    <3>1. /\ req' = [req EXCEPT ![w][n].st = "applying"]
          /\ claim' = [claim EXCEPT ![Key[w]] = [by |-> w, nr |-> n]]
      BY <1>2, <2>4 DEF Claim
    <3>2. /\ claim'[Key[w]] = [by |-> w, nr |-> n]
          /\ \A k \in Keys : k # Key[w] => claim'[k] = claim[k]
      BY <3>1, WriteAssumption DEF TypeOK
    <3>3. \A v \in Writes, m \in Sends :
            /\ req'[v][m].st = IF v = w /\ m = n THEN "applying" ELSE req[v][m].st
            /\ req'[v][m].answer = req[v][m].answer
      BY <2>2, <3>1, ReqMove
    <3>4. QED
      BY <1>2, <2>4, <3>2, <3>3 DEF Claim
  <2>5. QED
    BY <2>3, <2>4
<1>3. QED
  BY <1>1, <1>2

\* The engine answers the request that holds the claim.
LEMMA ApplyAt ==
    ASSUME TypeOK, NEW w \in Writes, NEW n \in Sends, Apply(w, n)
    PROVE  /\ req[w][n].st = "applying"
           /\ req'[w][n].st = "applied" /\ req'[w][n].answer = EngineAnswer(w)
           /\ EngineAnswer(w).kind \in EngineKinds
           /\ \/ EngineAnswer(w) = Committed /\ doc' = Local[w]
                 /\ seen' = seen \union {Local[w]}
                 /\ applied'[w] = applied[w] + 1
                 /\ \A v \in Writes : v # w => applied'[v] = applied[v]
              \/ EngineAnswer(w) # Committed /\ UNCHANGED <<doc, seen, applied>>
           /\ \A v \in Writes, m \in Sends : ~(v = w /\ m = n) => Same(v, m)
<1>1. [st |-> "applied", answer |-> EngineAnswer(w)] \in Req
  BY EngineTypes, ReqTypes DEF ReqStates
<1>2. \A v \in Writes, m \in Sends : req'[v][m] =
        IF v = w /\ m = n THEN [st |-> "applied", answer |-> EngineAnswer(w)] ELSE req[v][m]
  BY <1>1, ReqSet DEF Apply
<1>3. CASE EngineAnswer(w) = Committed
  <2>1. applied' = [applied EXCEPT ![w] = @ + 1] /\ applied \in [Writes -> Nat]
    BY <1>3 DEF Apply, TypeOK
  <2>2. applied'[w] = applied[w] + 1 /\ \A v \in Writes : v # w => applied'[v] = applied[v]
    BY <2>1
  <2>3. QED
    BY <1>2, <1>3, <2>2, EngineTypes DEF Apply, Same
<1>4. CASE EngineAnswer(w) # Committed
  BY <1>2, <1>4, EngineTypes DEF Apply, Same
<1>5. QED
  BY <1>3, <1>4

\* Finish settles the claim and every request that waits on it.
LEMMA FinishClaimAt ==
    ASSUME TypeOK, NEW w \in Writes, NEW n \in Sends, NEW a, NEW op, FinishClaim(w, n, a, op)
    PROVE  /\ \A k \in Keys : claim'[k] = IF k = Key[w] THEN NoClaim ELSE claim[k]
           /\ req'[w][n].st = "replied" /\ req'[w][n].answer = a
           /\ \A v \in Writes, m \in Sends : ~(v = w /\ m = n) =>
                 \/ /\ Key[v] = Key[w] /\ req[v][m].st = "waiting"
                    /\ \/ /\ op = NoRecord /\ req'[v][m].st = "claiming"
                          /\ req'[v][m].answer = req[v][m].answer
                       \/ /\ op # NoRecord /\ req'[v][m].st = "replied"
                          /\ req'[v][m].answer = Replay(v, op)
                 \/ ~(Key[v] = Key[w] /\ req[v][m].st = "waiting") /\ Same(v, m)
<1>1. claim \in [Keys -> [by : Writes \union {Absent}, nr : Nat]]
  BY DEF TypeOK
<1>2. \A v \in Writes, m \in Sends : req[v][m] \in Req
  BY DEF TypeOK, Req
<1> DEFINE Settled(v, m) ==
       IF v = w /\ m = n THEN [st |-> "replied", answer |-> a]
       ELSE IF Key[v] = Key[w] /\ req[v][m].st = "waiting"
       THEN IF op = NoRecord THEN [req[v][m] EXCEPT !.st = "claiming"]
            ELSE [st |-> "replied", answer |-> Replay(v, op)]
       ELSE req[v][m]
<1>3. \A v \in Writes, m \in Sends : req'[v][m] = Settled(v, m)
  BY DEF FinishClaim
<1>4. \A r \in Req : [r EXCEPT !.st = "claiming"].st = "claiming"
                    /\ [r EXCEPT !.st = "claiming"].answer = r.answer
  BY DEF Req
<1>5. \A k \in Keys : claim'[k] = IF k = Key[w] THEN NoClaim ELSE claim[k]
  BY <1>1 DEF FinishClaim
<1>6. req'[w][n].st = "replied" /\ req'[w][n].answer = a
  <2>1. Settled(w, n) = [st |-> "replied", answer |-> a]
    OBVIOUS
  <2> HIDE DEF Settled
  <2>2. req'[w][n] = [st |-> "replied", answer |-> a]
    BY <1>3, <2>1
  <2>3. QED
    BY <2>2
<1>7. ASSUME NEW v \in Writes, NEW m \in Sends, ~(v = w /\ m = n)
      PROVE  \/ /\ Key[v] = Key[w] /\ req[v][m].st = "waiting"
                /\ \/ /\ op = NoRecord /\ req'[v][m].st = "claiming"
                      /\ req'[v][m].answer = req[v][m].answer
                   \/ /\ op # NoRecord /\ req'[v][m].st = "replied"
                      /\ req'[v][m].answer = Replay(v, op)
             \/ ~(Key[v] = Key[w] /\ req[v][m].st = "waiting") /\ Same(v, m)
  <2>1. CASE Key[v] = Key[w] /\ req[v][m].st = "waiting" /\ op = NoRecord
    <3>1. Settled(v, m) = [req[v][m] EXCEPT !.st = "claiming"]
      BY <1>7, <2>1
    <3> HIDE DEF Settled
    <3>2. req'[v][m] = [req[v][m] EXCEPT !.st = "claiming"] /\ req[v][m] \in Req
      BY <1>2, <1>3, <3>1
    <3>3. QED
      BY <1>4, <2>1, <3>2
  <2>2. CASE Key[v] = Key[w] /\ req[v][m].st = "waiting" /\ op # NoRecord
    <3>1. Settled(v, m) = [st |-> "replied", answer |-> Replay(v, op)]
      BY <1>7, <2>2
    <3> HIDE DEF Settled
    <3>2. req'[v][m] = [st |-> "replied", answer |-> Replay(v, op)]
      BY <1>3, <3>1
    <3>3. QED
      BY <2>2, <3>2
  <2>3. CASE ~(Key[v] = Key[w] /\ req[v][m].st = "waiting")
    <3>1. Settled(v, m) = req[v][m]
      BY <1>7, <2>3
    <3> HIDE DEF Settled
    <3>2. req'[v][m] = req[v][m]
      BY <1>3, <3>1
    <3>3. QED
      BY <2>3, <3>2 DEF Same
  <2>4. QED
    BY <2>1, <2>2, <2>3
<1>8. QED
  BY <1>5, <1>6, <1>7

\* The process is gone, and with it every request it was working on.
LEMMA RestartAt ==
    ASSUME TypeOK, Restart
    PROVE  \A v \in Writes, m \in Sends :
              \/ req'[v][m].st = "gone" /\ req'[v][m].answer = NoAnswer
                 /\ req[v][m].st \in {"claiming", "waiting", "applying", "applied"}
              \/ req[v][m].st \notin {"claiming", "waiting", "applying", "applied"} /\ Same(v, m)
BY DEF Restart, Same

\* The steps that are nobody's own.
WorldStep ==
    \/ \E k \in Keys : Expire(k)
    \/ \E v \in Heads : Edit(v)
    \/ Restart \/ FlipAuth \/ CloseGate \/ UNCHANGED vars

\* The three kinds of steps there are.
LEMMA StepKinds ==
    ASSUME [Next]_vars
    PROVE  \/ \E w \in Writes : Call(w) \/ ClientStep(w)
           \/ \E w \in Writes, n \in Sends : ServerStep(w, n)
           \/ WorldStep
BY DEF Next, WorldStep

\* Only the client sends: what did not leave stays so, and the counts stand.
LEMMA ServerSendsNothing ==
    ASSUME TypeOK, (\E w \in Writes, n \in Sends : ServerStep(w, n)) \/ WorldStep
    PROVE  /\ UNCHANGED clientVars
           /\ \A v \in Writes, m \in Sends :
                 req[v][m].st = "unsent" => req'[v][m].st = "unsent"
<1>1. ASSUME NEW w \in Writes, NEW n \in Sends, ServerStep(w, n)
      PROVE  \A v \in Writes, m \in Sends :
                 req[v][m].st = "unsent" => req'[v][m].st = "unsent"
  <2>1. CASE Arrive(w, n)
    BY <2>1, ArriveAt DEF Same
  <2>2. CASE Claim(w, n)
    <3>1. /\ req[w][n].st = "claiming"
          /\ \A v \in Writes, m \in Sends : ~(v = w /\ m = n) => Same(v, m)
      BY <2>2, ClaimMoves
    <3>2. QED
      BY <3>1 DEF Same
  <2>3. CASE Apply(w, n)
    BY <2>3, ApplyAt DEF Same
  <2>4. ASSUME NEW a, NEW op, FinishClaim(w, n, a, op), req[w][n].st \in Working
        PROVE  \A v \in Writes, m \in Sends :
                   req[v][m].st = "unsent" => req'[v][m].st = "unsent"
    BY <2>4, FinishClaimAt DEF Same, Working
  <2>5. CASE Record(w, n) \/ ApplyFails(w, n) \/ RecordFails(w, n)
    BY <2>4, <2>5 DEF Record, ApplyFails, RecordFails, Working
  <2>6. QED
    BY <1>1, <2>1, <2>2, <2>3, <2>5 DEF ServerStep
<1>2. ASSUME NEW w \in Writes, NEW n \in Sends, ServerStep(w, n) PROVE UNCHANGED clientVars
  BY <1>2 DEF ServerStep, Arrive, Claim, Apply, Record, ApplyFails, RecordFails
<1>3. CASE WorldStep
  <2>1. UNCHANGED clientVars
    BY <1>3 DEF WorldStep, Expire, Edit, Restart, FlipAuth, CloseGate, vars
  <2>2. req' = req \/ Restart
    BY <1>3 DEF WorldStep, Expire, Edit, FlipAuth, CloseGate, vars, serverVars
  <2>3. QED
    BY <2>1, <2>2, RestartAt DEF Same
<1>4. QED
  BY <1>1, <1>2, <1>3

-----------------------------------------------------------------------------
(* The parts of the invariant, step by step *)

\* Everything a client's step leaves alone belongs to another write.
LEMMA ClientMovesOne ==
    ASSUME TypeOK, CountsAgree, NEW w \in Writes, Call(w) \/ ClientStep(w),
           NEW v \in Writes, v # w
    PROVE  /\ pc'[v] = pc[v] /\ calls'[v] = calls[v] /\ attempts'[v] = attempts[v]
           /\ submissions'[v] = submissions[v] /\ unclear'[v] = unclear[v]
           /\ held'[v] = held[v] /\ outcome'[v] = outcome[v]
           /\ \A m \in Sends : Same(v, m)
<1>1. \A m \in Sends : Same(v, m)
  BY SubmitAt, ClientLeavesReq DEF Same, serverVars
<1>2. CASE Call(w)
  BY <1>1, <1>2 DEF Call, TypeOK
<1>3. CASE Submit(w)
  BY <1>1, <1>3 DEF Submit, Finish, TypeOK
<1>4. CASE Answer(w)
  BY <1>1, <1>4 DEF Answer, Finish, TypeOK
<1>5. CASE Deadline(w)
  BY <1>1, <1>5 DEF Deadline, TypeOK
<1>6. CASE Lookup(w)
  BY <1>1, <1>6 DEF Lookup, Finish, TypeOK
<1>7. CASE LookupFails(w)
  BY <1>1, <1>7 DEF LookupFails, Finish, TypeOK
<1>8. CASE Abort(w)
  BY <1>1, <1>8 DEF Abort, Finish, TypeOK
<1>9. QED
  BY <1>2, <1>3, <1>4, <1>5, <1>6, <1>7, <1>8 DEF ClientStep

\* The counts of a call agree after every step of a client.
LEMMA CountsClient ==
    ASSUME TypeOK, CountsAgree, NEW w \in Writes, Call(w) \/ ClientStep(w)
    PROVE  CountsAgree'
<1> DEFINE Agree(v) ==
        /\ calls[v] <= MaxCalls
        /\ attempts[v] <= calls[v] * MaxSubmissions
        /\ pc[v] # "idle" =>
              attempts[v] + MaxSubmissions <= calls[v] * MaxSubmissions + submissions[v]
        /\ pc[v] = "await" => attempts[v] > 0
        /\ \A n \in Sends : n > attempts[v] => req[v][n].st = "unsent"
<1>0. /\ calls[w] \in Nat /\ attempts[w] \in Nat /\ submissions[w] \in 0 .. MaxSubmissions
      /\ MaxSubmissions \in Nat /\ MaxCalls \in Nat /\ Agree(w)
  BY WriteAssumption DEF TypeOK, CountsAgree
<1>1. ASSUME NEW v \in Writes, v # w PROVE Agree(v)'
  <2>1. Agree(v)
    BY DEF CountsAgree
  <2>2. QED
    BY <1>1, <2>1, ClientMovesOne DEF Same
<1>2. Agree(w)'
  <2>1. CASE Call(w)
    <3>1. /\ calls[w] + 1 <= MaxCalls /\ calls'[w] = calls[w] + 1
          /\ attempts'[w] = attempts[w] /\ submissions'[w] = 0 /\ req' = req
          /\ pc'[w] # "await"
      BY <1>0, <2>1 DEF Call, TypeOK, serverVars
    <3>2. /\ (calls[w] + 1) * MaxSubmissions = calls[w] * MaxSubmissions + MaxSubmissions
          /\ calls[w] * MaxSubmissions \in Nat
      BY <1>0, CallBound
    <3> HIDE DEF CountsAgree, TypeOK
    <3>3. calls'[w] * MaxSubmissions = calls[w] * MaxSubmissions + MaxSubmissions
      BY <3>1, <3>2
    <3>4. QED
      BY <1>0, <3>1, <3>2, <3>3
  <2>2. CASE Submit(w)
    <3>1. calls' = calls /\ pc[w] = "submit"
      BY <2>2 DEF Submit
    <3>2. calls[w] * MaxSubmissions \in Nat
      BY <1>0, CallBound
    <3>3. CASE Finish(w, Unknown) /\ UNCHANGED <<req, attempts, submissions>>
      BY <1>0, <3>1, <3>3 DEF Finish, TypeOK
    <3>4. CASE ~(Finish(w, Unknown) /\ UNCHANGED <<req, attempts, submissions>>)
      <4>1. /\ submissions[w] < MaxSubmissions
            /\ pc'[w] = "await" /\ submissions'[w] = submissions[w] + 1
            /\ attempts'[w] = attempts[w] + 1
        BY <2>2, <3>4, SubmitAt DEF TypeOK
      <4>2. \A m \in Sends : m # attempts[w] + 1 => req'[w][m].st = req[w][m].st
        BY <2>2, <3>4, SubmitAt DEF Same
      <4>3. \A m \in Sends : m \in Nat
        BY DEF Sends
      <4>4. \A m \in Sends : m > attempts'[w] => req'[w][m].st = "unsent"
        BY <1>0, <4>1, <4>2, <4>3
      <4>5. QED
        BY <1>0, <3>1, <3>2, <4>1, <4>4
    <3>5. QED
      BY <3>3, <3>4
  <2>3. CASE ~Call(w) /\ ~Submit(w)
    <3>1. UNCHANGED serverVars
      BY <2>3, ClientLeavesReq
    <3>2. calls' = calls /\ attempts' = attempts /\ submissions' = submissions
      BY <2>3 DEF ClientStep, Answer, Deadline, Lookup, LookupFails, Abort
    <3>3. pc[w] # "idle" /\ pc'[w] # "await"
      BY <2>3 DEF ClientStep, Answer, Deadline, Lookup, LookupFails, Abort, Finish, TypeOK
    <3>4. QED
      BY <1>0, <3>1, <3>2, <3>3 DEF serverVars
  <2>4. QED
    BY <2>1, <2>2, <2>3
<1>3. \A v \in Writes : Agree(v)'
  BY <1>1, <1>2
<1>4. QED
  BY <1>3 DEF CountsAgree

\* They agree after every other step, which sends nothing.
LEMMA CountsRest ==
    ASSUME TypeOK, CountsAgree,
           (\E w \in Writes, n \in Sends : ServerStep(w, n)) \/ WorldStep
    PROVE  CountsAgree'
BY ServerSendsNothing DEF CountsAgree, clientVars

\* The keys' part and the requests' part of ClaimsAgree.
ClaimHeld(k) ==
    claim[k] # NoClaim =>
        /\ recorded[k] = NoRecord
        /\ \E w \in Writes, n \in Sends :
              /\ Key[w] = k /\ claim[k] = [by |-> w, nr |-> n]
              /\ req[w][n].st \in Working

ClaimNamed(w, n) ==
    /\ req[w][n].st \in Working => claim[Key[w]] = [by |-> w, nr |-> n]
    /\ req[w][n].st = "waiting" => claim[Key[w]] # NoClaim
    /\ req[w][n].st = "applied" => req[w][n].answer.kind \in EngineKinds

Recorded(k) ==
    recorded[k] # NoRecord =>
        /\ recorded[k].by \in Writes /\ Key[recorded[k].by] = k
        /\ recorded[k].answer.kind \in EngineKinds

\* The claim invariant, key by key and request by request.
LEMMA ClaimsParts ==
    ClaimsAgree <=> /\ \A k \in Keys : ClaimHeld(k) /\ Recorded(k)
                    /\ \A w \in Writes, n \in Sends : ClaimNamed(w, n)
BY DEF ClaimsAgree, ClaimHeld, Recorded, ClaimNamed

\* Two requests that work under one claim are one.
LEMMA OneWorks ==
    ASSUME ClaimsAgree, NEW w \in Writes, NEW n \in Sends, req[w][n].st \in Working
    PROVE  /\ claim[Key[w]] = [by |-> w, nr |-> n] /\ claim[Key[w]] # NoClaim
           /\ recorded[Key[w]] = NoRecord
           /\ \A v \in Writes, m \in Sends :
                 Key[v] = Key[w] /\ req[v][m].st \in Working => v = w /\ m = n
<1>1. claim[Key[w]] = [by |-> w, nr |-> n] /\ Key[w] \in Keys
  BY WriteAssumption DEF ClaimsAgree
<1>2. claim[Key[w]] # NoClaim
  BY <1>1, Distinct
<1>3. recorded[Key[w]] = NoRecord
  BY <1>1, <1>2 DEF ClaimsAgree
<1>4. ASSUME NEW v \in Writes, NEW m \in Sends, Key[v] = Key[w], req[v][m].st \in Working
      PROVE  v = w /\ m = n
  <2>1. claim[Key[w]] = [by |-> v, nr |-> m]
    BY <1>4 DEF ClaimsAgree
  <2>2. QED
    BY <1>1, <2>1
<1>5. QED
  BY <1>1, <1>2, <1>3, <1>4

\* Steps of requests that neither work nor wait do not touch the claims.
LEMMA ClaimsFrame ==
    ASSUME ClaimsAgree, claim' = claim, recorded' = recorded,
           \A v \in Writes, m \in Sends :
              \/ Same(v, m)
              \/ /\ req[v][m].st \notin {"applying", "applied", "waiting"}
                 /\ req'[v][m].st \notin {"applying", "applied", "waiting"}
    PROVE  ClaimsAgree'
<1>1. ASSUME NEW k \in Keys PROVE ClaimHeld(k)' /\ Recorded(k)'
  <2>1. ClaimHeld(k) /\ Recorded(k)
    BY ClaimsParts
  <2>2. ASSUME claim[k] # NoClaim
        PROVE  \E w \in Writes, n \in Sends :
                  /\ Key[w] = k /\ claim[k] = [by |-> w, nr |-> n]
                  /\ req'[w][n].st \in Working
    <3>1. PICK w \in Writes, n \in Sends : /\ Key[w] = k /\ claim[k] = [by |-> w, nr |-> n]
                                         /\ req[w][n].st \in Working
      BY <2>1, <2>2 DEF ClaimHeld
    <3>2. req'[w][n].st \in Working
      BY <3>1 DEF Working, Same
    <3>3. QED
      BY <3>1, <3>2
  <2>3. QED
    BY <2>1, <2>2 DEF ClaimHeld, Recorded
<1>2. ASSUME NEW w \in Writes, NEW n \in Sends PROVE ClaimNamed(w, n)'
  BY ClaimsParts DEF ClaimNamed, Same, Working
<1>3. QED
  BY <1>1, <1>2 DEF ClaimsAgree, ClaimHeld, Recorded, ClaimNamed

\* The three invariant parts that speak of keys survive a client's step.
LEMMA ClaimsClient ==
    ASSUME TypeOK, CountsAgree, ClaimsAgree, NEW w \in Writes, Call(w) \/ ClientStep(w)
    PROVE  ClaimsAgree'
<1>1. CASE Submit(w)
  <2>1. claim' = claim /\ recorded' = recorded
    BY <1>1 DEF Submit
  <2>2. \/ req' = req
        \/ /\ req[w][attempts[w] + 1].st = "unsent" /\ req'[w][attempts[w] + 1].st = "network"
           /\ \A v \in Writes, m \in Sends : ~(v = w /\ m = attempts[w] + 1) => Same(v, m)
    BY <1>1, SubmitAt
  <2>3. ASSUME NEW v \in Writes, NEW m \in Sends
        PROVE  \/ Same(v, m)
               \/ /\ req[v][m].st \notin {"applying", "applied", "waiting"}
                  /\ req'[v][m].st \notin {"applying", "applied", "waiting"}
    <3>1. CASE req' = req
      BY <3>1 DEF Same
    <3>2. CASE v = w /\ m = attempts[w] + 1
      BY <2>2, <3>2 DEF Same
    <3>3. CASE ~(v = w /\ m = attempts[w] + 1) /\ req' # req
      BY <2>2, <3>3
    <3>4. QED
      BY <3>1, <3>2, <3>3
  <2>4. QED
    BY <2>1, <2>3, ClaimsFrame
<1>2. CASE ~Submit(w)
  <2>1. UNCHANGED <<claim, recorded, req>>
    BY <1>2, ClientLeavesReq DEF serverVars
  <2>2. QED
    BY <2>1, ClaimsFrame DEF Same
<1>3. QED
  BY <1>1, <1>2

\* An arriving request does not work under a claim yet.
LEMMA ClaimsArrive ==
    ASSUME TypeOK, ClaimsAgree, NEW w \in Writes, NEW n \in Sends, Arrive(w, n)
    PROVE  ClaimsAgree'
<1>1. claim' = claim /\ recorded' = recorded
  BY DEF Arrive
<1>2. /\ req[w][n].st = "network" /\ req'[w][n].st \in {"claiming", "replied"}
      /\ \A v \in Writes, m \in Sends : ~(v = w /\ m = n) => Same(v, m)
  BY ArriveAt
<1>3. \A v \in Writes, m \in Sends :
              \/ Same(v, m)
              \/ /\ req[v][m].st \notin {"applying", "applied", "waiting"}
                 /\ req'[v][m].st \notin {"applying", "applied", "waiting"}
  BY <1>2
<1>4. QED
  BY <1>1, <1>3, ClaimsFrame

\* A claim is handed out only where there is neither a record nor a claim.
LEMMA ClaimsClaim ==
    ASSUME TypeOK, ClaimsAgree, NEW w \in Writes, NEW n \in Sends, Claim(w, n)
    PROVE  ClaimsAgree'
<1>0. /\ recorded' = recorded /\ Key[w] \in Keys
      /\ req[w][n].st = "claiming"
      /\ \A v \in Writes, m \in Sends : ~(v = w /\ m = n) => Same(v, m)
  BY WriteAssumption, ClaimMoves DEF Claim
<1>1. CASE recorded[Key[w]] # NoRecord
  <2>1. claim' = claim /\ req'[w][n].st = "replied"
    BY <1>1, ClaimAt
  <2>2. \A v \in Writes, m \in Sends :
              \/ Same(v, m)
              \/ /\ req[v][m].st \notin {"applying", "applied", "waiting"}
                 /\ req'[v][m].st \notin {"applying", "applied", "waiting"}
    BY <1>0, <2>1
  <2>3. QED
    BY <1>0, <2>1, <2>2, ClaimsFrame
<1>2. CASE recorded[Key[w]] = NoRecord /\ claim[Key[w]] # NoClaim
  <2>1. claim' = claim /\ req'[w][n].st = "waiting"
    BY <1>2, ClaimAt
  <2>2. ASSUME NEW k \in Keys PROVE ClaimHeld(k)' /\ Recorded(k)'
    <3>1. ClaimHeld(k) /\ Recorded(k)
      BY ClaimsParts
    <3>2. \A v \in Writes, m \in Sends : req[v][m].st \in Working => req'[v][m].st \in Working
      BY <1>0 DEF Same, Working
    <3>3. QED
      BY <1>0, <2>1, <3>1, <3>2 DEF ClaimHeld, Recorded
  <2>3. ASSUME NEW v \in Writes, NEW m \in Sends PROVE ClaimNamed(v, m)'
    <3>1. ClaimNamed(v, m)
      BY ClaimsParts
    <3>2. CASE v = w /\ m = n
      BY <1>2, <2>1, <3>2 DEF ClaimNamed, Working
    <3>3. CASE ~(v = w /\ m = n)
      BY <1>0, <2>1, <3>1, <3>3 DEF ClaimNamed, Same
    <3>4. QED
      BY <3>2, <3>3
  <2>4. QED
    BY <2>2, <2>3 DEF ClaimsAgree, ClaimHeld, Recorded, ClaimNamed
<1>3. CASE recorded[Key[w]] = NoRecord /\ claim[Key[w]] = NoClaim
  <2>1. /\ claim'[Key[w]] = [by |-> w, nr |-> n]
        /\ \A k \in Keys : k # Key[w] => claim'[k] = claim[k]
        /\ req'[w][n].st = "applying"
    BY <1>3, ClaimAt
  <2>2. ASSUME NEW k \in Keys PROVE ClaimHeld(k)' /\ Recorded(k)'
    <3>1. ClaimHeld(k) /\ Recorded(k)
      BY ClaimsParts
    <3>2. CASE k = Key[w]
      BY <1>0, <1>3, <2>1, <3>2 DEF ClaimHeld, Recorded, Working
    <3>3. CASE k # Key[w]
      <4>1. \A v \in Writes, m \in Sends : req[v][m].st \in Working => req'[v][m].st \in Working
        BY <1>0 DEF Same, Working
      <4>2. claim'[k] = claim[k] /\ recorded'[k] = recorded[k]
        BY <1>0, <2>1, <3>3
      <4>3. QED
        BY <3>1, <4>1, <4>2 DEF ClaimHeld, Recorded
    <3>4. QED
      BY <3>2, <3>3
  <2>3. ASSUME NEW v \in Writes, NEW m \in Sends PROVE ClaimNamed(v, m)'
    <3>0. Key[v] \in Keys
      BY WriteAssumption
    <3>1. ClaimNamed(v, m)
      BY ClaimsParts
    <3>2. CASE v = w /\ m = n
      BY <2>1, <3>2 DEF ClaimNamed
    <3>3. CASE ~(v = w /\ m = n) /\ Key[v] = Key[w]
      <4>1. req[v][m].st \notin Working /\ req[v][m].st # "waiting"
        BY <1>3, <3>1, <3>3, Distinct DEF ClaimNamed
      <4>2. QED
        BY <1>0, <3>3, <4>1 DEF ClaimNamed, Same, Working
    <3>4. CASE Key[v] # Key[w]
      BY <1>0, <2>1, <3>0, <3>1, <3>4 DEF ClaimNamed, Same
    <3>5. QED
      BY <3>2, <3>3, <3>4
  <2>4. QED
    BY <2>2, <2>3 DEF ClaimsAgree, ClaimHeld, Recorded, ClaimNamed
<1>4. QED
  BY <1>1, <1>2, <1>3

\* The engine's answer does not end the claim.
LEMMA ClaimsApply ==
    ASSUME TypeOK, ClaimsAgree, NEW w \in Writes, NEW n \in Sends, Apply(w, n)
    PROVE  ClaimsAgree'
<1>0. /\ recorded' = recorded /\ claim' = claim
      /\ req[w][n].st = "applying" /\ req'[w][n].st = "applied"
      /\ req'[w][n].answer.kind \in EngineKinds
      /\ \A v \in Writes, m \in Sends : ~(v = w /\ m = n) => Same(v, m)
  BY ApplyAt DEF Apply
<1>1. ASSUME NEW k \in Keys PROVE ClaimHeld(k)' /\ Recorded(k)'
  <2>1. ClaimHeld(k) /\ Recorded(k)
    BY ClaimsParts
  <2>2. \A v \in Writes, m \in Sends : req[v][m].st \in Working => req'[v][m].st \in Working
    BY <1>0 DEF Same, Working
  <2>3. QED
    BY <1>0, <2>1, <2>2 DEF ClaimHeld, Recorded
<1>2. ASSUME NEW v \in Writes, NEW m \in Sends PROVE ClaimNamed(v, m)'
  <2>1. ClaimNamed(v, m)
    BY ClaimsParts
  <2>2. CASE v = w /\ m = n
    BY <1>0, <2>1, <2>2 DEF ClaimNamed, Working
  <2>3. CASE ~(v = w /\ m = n)
    BY <1>0, <2>1, <2>3 DEF ClaimNamed, Same
  <2>4. QED
    BY <2>2, <2>3
<1>3. QED
  BY <1>1, <1>2 DEF ClaimsAgree, ClaimHeld, Recorded, ClaimNamed

\* Settling the claim of a key leaves none of its requests working or waiting.
LEMMA ClaimsFinish ==
    ASSUME TypeOK, ClaimsAgree, NEW w \in Writes, NEW n \in Sends,
           req[w][n].st \in Working, NEW a, NEW op, FinishClaim(w, n, a, op),
           \/ op = NoRecord /\ recorded' = recorded
           \/ /\ op = [by |-> w, answer |-> a] /\ a \in Answers /\ a.kind \in EngineKinds
              /\ recorded' = [recorded EXCEPT ![Key[w]] = op]
    PROVE  ClaimsAgree'
<1>0. /\ Key[w] \in Keys
      /\ claim'[Key[w]] = NoClaim
      /\ \A k \in Keys : k # Key[w] => claim'[k] = claim[k] /\ recorded'[k] = recorded[k]
      /\ recorded'[Key[w]] = NoRecord \/ (recorded'[Key[w]] = [by |-> w, answer |-> a] /\ a.kind \in EngineKinds)
      /\ req'[w][n].st = "replied"
  <2>1. Key[w] \in Keys /\ recorded[Key[w]] = NoRecord
    BY WriteAssumption, OneWorks
  <2>2. /\ \A k \in Keys : claim'[k] = IF k = Key[w] THEN NoClaim ELSE claim[k]
        /\ req'[w][n].st = "replied"
    BY FinishClaimAt
  <2>3. /\ \A k \in Keys : k # Key[w] => recorded'[k] = recorded[k]
        /\ recorded'[Key[w]] = NoRecord \/ (recorded'[Key[w]] = [by |-> w, answer |-> a] /\ a.kind \in EngineKinds)
    <3>1. recorded \in [Keys -> [by : Writes \union {Absent}, answer : Answers]]
      BY DEF TypeOK
    <3>2. CASE recorded' = recorded
      BY <2>1, <3>2
    <3>3. CASE recorded' = [recorded EXCEPT ![Key[w]] = op]
      <4>1. recorded'[Key[w]] = op /\ \A k \in Keys : k # Key[w] => recorded'[k] = recorded[k]
        BY <2>1, <3>1, <3>3
      <4>2. QED
        BY <2>1, <4>1
    <3>4. QED
      BY <3>2, <3>3
  <2>4. QED
    BY <2>1, <2>2, <2>3
<1>w. \A v \in Writes, m \in Sends :
        Key[v] = Key[w] /\ req[v][m].st \in Working => v = w /\ m = n
  BY OneWorks
<1>1. \A v \in Writes, m \in Sends : Key[v] # Key[w] => Same(v, m)
  BY FinishClaimAt
<1>2. ASSUME NEW v \in Writes, NEW m \in Sends, Key[v] = Key[w]
      PROVE  req'[v][m].st \notin {"applying", "applied", "waiting"}
  <2>1. CASE v = w /\ m = n
    BY <1>0, <2>1
  <2>2. CASE ~(v = w /\ m = n) /\ req[v][m].st = "waiting"
    BY <1>2, <2>2, FinishClaimAt
  <2>3. CASE ~(v = w /\ m = n) /\ req[v][m].st # "waiting"
    <3>1. Same(v, m)
      BY <2>3, FinishClaimAt
    <3>2. req[v][m].st \notin Working
      BY <1>2, <1>w, <2>3
    <3>3. QED
      BY <2>3, <3>1, <3>2 DEF Same, Working
  <2>4. QED
    BY <2>1, <2>2, <2>3
<1>3. ASSUME NEW k \in Keys PROVE ClaimHeld(k)' /\ Recorded(k)'
  <2>1. ClaimHeld(k) /\ Recorded(k)
    BY ClaimsParts
  <2>2. CASE k = Key[w]
    BY <1>0, <2>2 DEF ClaimHeld, Recorded
  <2>3. CASE k # Key[w]
    <3>1. \A v \in Writes, m \in Sends :
             Key[v] = k /\ req[v][m].st \in Working => req'[v][m].st \in Working
      BY <1>1, <2>3 DEF Same
    <3>2. QED
      BY <1>0, <2>1, <2>3, <3>1 DEF ClaimHeld, Recorded
  <2>4. QED
    BY <2>2, <2>3
<1>4. ASSUME NEW v \in Writes, NEW m \in Sends PROVE ClaimNamed(v, m)'
  <2>0. Key[v] \in Keys
    BY WriteAssumption
  <2>1. ClaimNamed(v, m)
    BY ClaimsParts
  <2>2. CASE Key[v] = Key[w]
    BY <1>2, <2>2 DEF ClaimNamed, Working
  <2>3. CASE Key[v] # Key[w]
    BY <1>0, <1>1, <2>0, <2>1, <2>3 DEF ClaimNamed, Same
  <2>4. QED
    BY <2>2, <2>3
<1>5. QED
  BY <1>3, <1>4 DEF ClaimsAgree, ClaimHeld, Recorded, ClaimNamed

\* Forgetting, and the world's other steps.
LEMMA ClaimsWorld ==
    ASSUME TypeOK, ClaimsAgree, WorldStep
    PROVE  ClaimsAgree'
<1>1. ASSUME NEW k \in Keys, Expire(k) PROVE ClaimsAgree'
  <2>1. /\ claim' = claim /\ req' = req /\ recorded'[k] = NoRecord
        /\ \A j \in Keys : j # k => recorded'[j] = recorded[j]
    BY <1>1 DEF Expire, TypeOK
  <2>2. QED
    BY <2>1 DEF ClaimsAgree
<1>2. CASE Restart
  <2>1. \A k \in Keys : recorded'[k] = NoRecord /\ claim'[k] = NoClaim
    BY <1>2 DEF Restart
  <2>2. \A v \in Writes, m \in Sends : req'[v][m].st \notin {"applying", "applied", "waiting"}
    BY <1>2, RestartAt DEF Same
  <2>3. QED
    BY <2>1, <2>2 DEF ClaimsAgree, Working
<1>3. CASE UNCHANGED <<claim, recorded, req>>
  BY <1>3, ClaimsFrame DEF Same
<1>4. QED
  BY <1>1, <1>2, <1>3 DEF WorldStep, Edit, FlipAuth, CloseGate, vars, serverVars

-----------------------------------------------------------------------------
(* What no step changes *)

\* An answered request keeps its answer, and one the engine reached stays so.
LEMMA RequestsStay ==
    ASSUME TypeOK, CountsAgree, ClaimsAgree, [Next]_vars,
           NEW v \in Writes, NEW m \in Sends
    PROVE  /\ req[v][m].st \in {"replied", "gone"} => Same(v, m)
           /\ Executed(v, m) => Executed(v, m)'
<1> DEFINE Stays == /\ req[v][m].st \in {"replied", "gone"} => Same(v, m)
                    /\ Executed(v, m) => Executed(v, m)'
<1>0. Same(v, m) => Stays
  BY DEF Same, Executed
<1>1. ASSUME NEW w \in Writes, Call(w) \/ ClientStep(w) PROVE Stays
  <2>1. CASE Submit(w)
    <3>1. CASE req' = req
      BY <1>0, <3>1 DEF Same
    <3>2. CASE v = w /\ m = attempts[w] + 1 /\ req' # req
      BY <2>1, <3>2, SubmitAt DEF Executed
    <3>3. CASE ~(v = w /\ m = attempts[w] + 1) /\ req' # req
      BY <1>0, <2>1, <3>3, SubmitAt
    <3>4. QED
      BY <3>1, <3>2, <3>3
  <2>2. CASE ~Submit(w)
    BY <1>0, <1>1, <2>2, ClientLeavesReq DEF Same, serverVars
  <2>3. QED
    BY <2>1, <2>2
<1>2. ASSUME NEW w \in Writes, NEW n \in Sends, ServerStep(w, n) PROVE Stays
  <2>1. CASE Arrive(w, n)
    BY <1>0, <2>1, ArriveAt DEF Executed
  <2>2. CASE Claim(w, n)
    BY <1>0, <2>2, ClaimMoves DEF Executed
  <2>3. CASE Apply(w, n)
    BY <1>0, <2>3, ApplyAt DEF Executed
  <2>4. ASSUME NEW a, NEW op, FinishClaim(w, n, a, op), req[w][n].st \in Working,
               a.kind \notin {"auth", "gate"}
        PROVE  Stays
    <3>1. CASE v = w /\ m = n
      BY <2>4, <3>1, FinishClaimAt DEF Executed, Working
    <3>2. CASE ~(v = w /\ m = n) /\ req[v][m].st = "waiting"
      BY <3>2 DEF Executed
    <3>3. CASE ~(v = w /\ m = n) /\ req[v][m].st # "waiting"
      BY <1>0, <2>4, <3>3, FinishClaimAt
    <3>4. QED
      BY <3>1, <3>2, <3>3
  <2>5. CASE Record(w, n)
    <3>1. req[w][n].answer.kind \in EngineKinds
      BY <2>5 DEF Record, ClaimsAgree
    <3>2. QED
      BY <2>4, <2>5, <3>1 DEF Record, Working, EngineKinds
  <2>6. CASE ApplyFails(w, n) \/ RecordFails(w, n)
    <3>1. Refused("error").kind \notin {"auth", "gate"}
      BY DEF Refused
    <3>2. QED
      BY <2>4, <2>6, <3>1 DEF ApplyFails, RecordFails, Working
  <2>7. QED
    BY <1>2, <2>1, <2>2, <2>3, <2>5, <2>6 DEF ServerStep
<1>3. CASE WorldStep
  <2>1. CASE Restart
    BY <1>0, <2>1, RestartAt DEF Executed
  <2>2. CASE ~Restart
    BY <1>0, <1>3, <2>2 DEF WorldStep, Expire, Edit, FlipAuth, CloseGate, vars, serverVars, Same
  <2>3. QED
    BY <2>1, <2>2
<1>4. QED
  BY <1>1, <1>2, <1>3, StepKinds

\* A record stays for as long as no answer is lost.
LEMMA RecordStays ==
    ASSUME TypeOK, ClaimsAgree, [Next]_vars, NEW k \in Keys, forgets'[k] = 0
    PROVE  /\ forgets[k] = 0
           /\ recorded[k] # NoRecord => recorded'[k] = recorded[k]
<1>0. forgets[k] \in Nat
  BY DEF TypeOK
<1>1. ASSUME NEW w \in Writes, NEW n \in Sends, Record(w, n)
      PROVE  forgets' = forgets /\ (recorded[k] # NoRecord => recorded'[k] = recorded[k])
  <2>1. req[w][n].st \in Working
    BY <1>1 DEF Record, Working
  <2>2. recorded[Key[w]] = NoRecord
    BY <2>1, OneWorks
  <2>3. QED
    BY <1>1, <2>2 DEF Record, TypeOK
<1>2. ASSUME NEW w \in Writes, NEW n \in Sends, RecordFails(w, n)
      PROVE  recorded' = recorded /\ forgets'[k] \in {forgets[k], forgets[k] + 1}
  BY <1>2 DEF RecordFails, TypeOK
<1>3. ASSUME NEW j \in Keys, Expire(j)
      PROVE  (k # j => recorded'[k] = recorded[k] /\ forgets'[k] = forgets[k])
             /\ (k = j => forgets'[k] = forgets[k] + 1)
  BY <1>3 DEF Expire, TypeOK
<1>4. CASE Restart
  BY <1>0, <1>4 DEF Restart
<1>5. CASE UNCHANGED <<recorded, forgets>>
  BY <1>0, <1>5
<1>6. CASE \E w \in Writes, n \in Sends : ServerStep(w, n)
  BY <1>0, <1>1, <1>2, <1>5, <1>6 DEF ServerStep, Arrive, Claim, Apply, ApplyFails
<1>7. CASE \E w \in Writes : Call(w) \/ ClientStep(w)
  BY <1>5, <1>7 DEF ClientStep, Call, Submit, Answer, Deadline, Lookup, LookupFails, Abort, serverVars
<1>8. CASE WorldStep
  BY <1>0, <1>3, <1>4, <1>5, <1>8 DEF WorldStep, Edit, FlipAuth, CloseGate, vars, serverVars
<1>9. QED
  BY <1>6, <1>7, <1>8, StepKinds

-----------------------------------------------------------------------------
(* Effects and answers *)

\* A committed effect is still kept where the record and the request that had
\* it are as before.
LEMMA KeptFrame ==
    ASSUME NEW v \in Writes, CommitKept(v), recorded' = recorded,
           \A m \in Sends : req[v][m].st = "applied" => Same(v, m)
    PROVE  CommitKept(v)'
BY DEF CommitKept, Same

\* Effects stay accounted for when neither they nor the losses change.
LEMMA EffectsFrame ==
    ASSUME EffectsKept, applied' = applied, forgets' = forgets,
           \A v \in Writes : CommitKept(v) => CommitKept(v)'
    PROVE  EffectsKept'
BY DEF EffectsKept

\* Every step keeps the effects accounted for.
LEMMA EffectsStep ==
    ASSUME TypeOK, CountsAgree, ClaimsAgree, EffectsKept, [Next]_vars
    PROVE  EffectsKept'
<1>1. ASSUME NEW w \in Writes, Call(w) \/ ClientStep(w) PROVE EffectsKept'
  <2>1. UNCHANGED <<applied, forgets, recorded>>
    BY <1>1, ClientLeavesReq DEF Submit, serverVars
  <2>2. ASSUME NEW v \in Writes, NEW m \in Sends, req[v][m].st = "applied" PROVE Same(v, m)
    <3>1. CASE Submit(w)
      BY <2>2, <3>1, SubmitAt DEF Same
    <3>2. CASE ~Submit(w)
      BY <1>1, <3>2, ClientLeavesReq DEF Same, serverVars
    <3>3. QED
      BY <3>1, <3>2
  <2>3. QED
    BY <2>1, <2>2, KeptFrame, EffectsFrame
<1>2. ASSUME NEW w \in Writes, NEW n \in Sends, Arrive(w, n) \/ Claim(w, n) PROVE EffectsKept'
  <2>1. UNCHANGED <<applied, forgets, recorded>>
    BY <1>2 DEF Arrive, Claim
  <2>2. \A v \in Writes, m \in Sends : req[v][m].st = "applied" => Same(v, m)
    BY <1>2, ArriveAt, ClaimMoves
  <2>3. QED
    BY <2>1, <2>2, KeptFrame, EffectsFrame
<1>3. ASSUME NEW w \in Writes, NEW n \in Sends, Apply(w, n) PROVE EffectsKept'
  <2>0. UNCHANGED <<forgets, recorded>>
    BY <1>3 DEF Apply
  <2>1. /\ req[w][n].st = "applying"
        /\ \A v \in Writes, m \in Sends : ~(v = w /\ m = n) => Same(v, m)
        /\ req'[w][n].st = "applied" /\ req'[w][n].answer = EngineAnswer(w)
    BY <1>3, ApplyAt
  <2>2. \A v \in Writes : CommitKept(v) => CommitKept(v)'
    BY <2>0, <2>1, KeptFrame
  <2>3. CASE EngineAnswer(w) # Committed
    BY <1>3, <2>0, <2>2, <2>3, ApplyAt, EffectsFrame
  <2>4. CASE EngineAnswer(w) = Committed
    <3>1. /\ applied'[w] = applied[w] + 1
          /\ \A v \in Writes : v # w => applied'[v] = applied[v]
      BY <1>3, <2>4, ApplyAt
    <3>2. ~CommitKept(w)
      <4>1. req[w][n].st \in Working
        BY <2>1 DEF Working
      <4>2. recorded[Key[w]] = NoRecord
        BY <4>1, OneWorks
      <4>3. [by |-> w, answer |-> Committed] # NoRecord
        BY Distinct, AnswerTypes DEF EngineKinds
      <4>4. \A m \in Sends : req[w][m].st = "applied" => m = n
        <5>1. \A v \in Writes, m \in Sends :
                 Key[v] = Key[w] /\ req[v][m].st \in Working => v = w /\ m = n
          BY <4>1, OneWorks
        <5>2. QED
          BY <5>1 DEF Working
      <4>5. QED
        BY <2>1, <4>2, <4>3, <4>4 DEF CommitKept
    <3>3. applied[w] <= forgets[Key[w]]
      BY <3>2 DEF EffectsKept
    <3>4. CommitKept(w)'
      BY <2>1, <2>4 DEF CommitKept
    <3>5. applied[w] \in Nat /\ forgets[Key[w]] \in Nat
      BY WriteAssumption DEF TypeOK
    <3>6. ASSUME NEW v \in Writes
          PROVE  \/ applied'[v] <= forgets'[Key[v]]
                 \/ applied'[v] = 1 + forgets'[Key[v]] /\ CommitKept(v)'
      <4>1. CASE v = w
        BY <2>0, <3>1, <3>3, <3>4, <3>5, <4>1
      <4>2. CASE v # w
        BY <2>0, <2>2, <3>1, <4>2 DEF EffectsKept
      <4>3. QED
        BY <4>1, <4>2
    <3>7. QED
      BY <3>6 DEF EffectsKept
  <2>5. QED
    BY <2>3, <2>4
<1>4. ASSUME NEW w \in Writes, NEW n \in Sends, Record(w, n) PROVE EffectsKept'
  <2> DEFINE op == [by |-> w, answer |-> req[w][n].answer]
  <2>0. /\ req[w][n].st \in Working /\ Key[w] \in Keys /\ req[w][n].st = "applied"
        /\ UNCHANGED <<applied, forgets>>
    BY <1>4, WriteAssumption DEF Record, Working
  <2>1. recorded[Key[w]] = NoRecord
    BY <2>0, OneWorks
  <2>2. /\ recorded'[Key[w]] = op
        /\ \A k \in Keys : k # Key[w] => recorded'[k] = recorded[k]
    BY <1>4, <2>0 DEF Record, TypeOK
  <2>3. FinishClaim(w, n, req[w][n].answer, op)
    BY <1>4 DEF Record
  <2>4. ASSUME NEW v \in Writes, CommitKept(v) PROVE CommitKept(v)'
    <3>0. Key[v] \in Keys
      BY WriteAssumption
    <3>1. CASE recorded[Key[v]] = [by |-> v, answer |-> Committed]
      <4>1. [by |-> v, answer |-> Committed] # NoRecord
        BY Distinct, AnswerTypes DEF EngineKinds
      <4>2. Key[v] # Key[w]
        BY <2>1, <3>1, <4>1
      <4>3. QED
        BY <2>2, <3>0, <3>1, <4>2 DEF CommitKept
    <3>2. ASSUME NEW m \in Sends, req[v][m].st = "applied", req[v][m].answer = Committed
          PROVE  CommitKept(v)'
      <4>1. CASE v = w /\ m = n
        BY <2>2, <3>2, <4>1 DEF CommitKept
      <4>2. CASE ~(v = w /\ m = n)
        <5>1. Same(v, m)
          BY <2>3, <3>2, <4>2, FinishClaimAt
        <5>2. QED
          BY <3>2, <5>1 DEF CommitKept, Same
      <4>3. QED
        BY <4>1, <4>2
    <3>3. QED
      BY <2>4, <3>1, <3>2 DEF CommitKept
  <2>5. QED
    BY <2>0, <2>4, EffectsFrame
<1>5. ASSUME NEW w \in Writes, NEW n \in Sends, ApplyFails(w, n) PROVE EffectsKept'
  <2>1. /\ UNCHANGED <<applied, forgets, recorded>> /\ req[w][n].st = "applying"
        /\ FinishClaim(w, n, Refused("error"), NoRecord)
    BY <1>5 DEF ApplyFails
  <2>2. \A v \in Writes, m \in Sends : req[v][m].st = "applied" => Same(v, m)
    BY <2>1, FinishClaimAt
  <2>3. QED
    BY <2>1, <2>2, KeptFrame, EffectsFrame
<1>6. ASSUME NEW w \in Writes, NEW n \in Sends, RecordFails(w, n) PROVE EffectsKept'
  <2>1. /\ UNCHANGED <<applied, recorded>> /\ req[w][n].st = "applied"
        /\ FinishClaim(w, n, Refused("error"), NoRecord)
    BY <1>6 DEF RecordFails
  <2>2. /\ Key[w] \in Keys /\ forgets'[Key[w]] = forgets[Key[w]] + 1
        /\ \A k \in Keys : k # Key[w] => forgets'[k] = forgets[k]
    BY <1>6, WriteAssumption DEF RecordFails, TypeOK
  <2>3. ASSUME NEW v \in Writes
        PROVE  \/ applied'[v] <= forgets'[Key[v]]
               \/ applied'[v] = 1 + forgets'[Key[v]] /\ CommitKept(v)'
    <3>0. Key[v] \in Keys /\ applied[v] \in Nat /\ forgets[Key[v]] \in Nat
      BY WriteAssumption DEF TypeOK
    <3>1. CASE Key[v] = Key[w]
      BY <2>1, <2>2, <3>0, <3>1 DEF EffectsKept
    <3>2. CASE Key[v] # Key[w]
      <4>1. CommitKept(v) => CommitKept(v)'
        BY <2>1, <3>2, FinishClaimAt, KeptFrame
      <4>2. QED
        BY <2>1, <2>2, <3>0, <3>2, <4>1 DEF EffectsKept
    <3>3. QED
      BY <3>1, <3>2
  <2>4. QED
    BY <2>3 DEF EffectsKept
<1>7. ASSUME NEW k \in Keys, Expire(k) PROVE EffectsKept'
  <2>1. /\ applied' = applied /\ req' = req /\ forgets'[k] = forgets[k] + 1
        /\ \A j \in Keys : j # k => forgets'[j] = forgets[j] /\ recorded'[j] = recorded[j]
    BY <1>7 DEF Expire, TypeOK
  <2>2. ASSUME NEW v \in Writes
        PROVE  \/ applied'[v] <= forgets'[Key[v]]
               \/ applied'[v] = 1 + forgets'[Key[v]] /\ CommitKept(v)'
    <3>0. Key[v] \in Keys /\ applied[v] \in Nat /\ forgets[Key[v]] \in Nat
      BY WriteAssumption DEF TypeOK
    <3>1. CASE Key[v] = k
      BY <2>1, <3>0, <3>1 DEF EffectsKept
    <3>2. CASE Key[v] # k
      BY <2>1, <3>0, <3>2 DEF EffectsKept, CommitKept
    <3>3. QED
      BY <3>1, <3>2
  <2>3. QED
    BY <2>2 DEF EffectsKept
<1>8. CASE Restart
  <2>1. \A k \in Keys : forgets'[k] = forgets[k] + 1
    BY <1>8 DEF Restart
  <2>2. ASSUME NEW v \in Writes PROVE applied'[v] <= forgets'[Key[v]]
    <3>0. Key[v] \in Keys /\ applied[v] \in Nat /\ forgets[Key[v]] \in Nat
      BY WriteAssumption DEF TypeOK
    <3>1. QED
      BY <1>8, <2>1, <3>0 DEF EffectsKept, Restart
  <2>3. QED
    BY <2>2 DEF EffectsKept
<1>9. CASE UNCHANGED <<applied, forgets, recorded, req>>
  BY <1>9, KeptFrame, EffectsFrame DEF Same
<1>10. QED
  BY <1>1, <1>2, <1>3, <1>4, <1>5, <1>6, <1>7, <1>8, <1>9 DEF Next, ServerStep, Edit, FlipAuth, CloseGate, vars, serverVars

\* Answers still replay the record where neither has changed.
LEMMA ReplayFrame ==
    ASSUME AnswersReplay, recorded' = recorded, forgets' = forgets,
           \A v \in Writes, m \in Sends :
              \/ Same(v, m)
              \/ req'[v][m].st # "replied"
              \/ req'[v][m].answer.kind \notin EngineKinds \union {"usage"}
    PROVE  AnswersReplay'
BY DEF AnswersReplay, Same, Replay

\* Every answer that is given replays the record it is given from.
LEMMA AnswersStep ==
    ASSUME TypeOK, CountsAgree, ClaimsAgree, AnswersReplay, [Next]_vars
    PROVE  AnswersReplay'
<1>1. ASSUME NEW w \in Writes, Call(w) \/ ClientStep(w) PROVE AnswersReplay'
  <2>1. UNCHANGED <<forgets, recorded>>
    BY <1>1, ClientLeavesReq DEF Submit, serverVars
  <2>2. ASSUME NEW v \in Writes, NEW m \in Sends PROVE Same(v, m) \/ req'[v][m].st # "replied"
    <3>1. CASE Submit(w)
      BY <3>1, SubmitAt DEF Same
    <3>2. CASE ~Submit(w)
      BY <1>1, <3>2, ClientLeavesReq DEF Same, serverVars
    <3>3. QED
      BY <3>1, <3>2
  <2>3. QED
    BY <2>1, <2>2, ReplayFrame
<1>2. ASSUME NEW w \in Writes, NEW n \in Sends, Arrive(w, n) PROVE AnswersReplay'
  <2>1. UNCHANGED <<forgets, recorded>>
    BY <1>2 DEF Arrive
  <2>2. ASSUME NEW v \in Writes, NEW m \in Sends
        PROVE  \/ Same(v, m) \/ req'[v][m].st # "replied"
               \/ req'[v][m].answer.kind \notin EngineKinds \union {"usage"}
    BY <1>2, ArriveAt DEF EngineKinds
  <2>3. QED
    BY <2>1, <2>2, ReplayFrame
<1>3. ASSUME NEW w \in Writes, NEW n \in Sends, Claim(w, n) PROVE AnswersReplay'
  <2>1. UNCHANGED <<forgets, recorded>>
    BY <1>3 DEF Claim
  <2>2. \A v \in Writes, m \in Sends : ~(v = w /\ m = n) => Same(v, m)
    BY <1>3, ClaimMoves
  <2>3. CASE recorded[Key[w]] = NoRecord
    <3>1. req'[w][n].st # "replied"
      BY <1>3, <2>3, ClaimAt
    <3>2. QED
      BY <2>1, <2>2, <3>1, ReplayFrame
  <2>4. CASE recorded[Key[w]] # NoRecord
    <3>1. req'[w][n].answer = Replay(w, recorded[Key[w]])
      BY <1>3, <2>4, ClaimAt
    <3>2. QED
      BY <2>1, <2>2, <2>4, <3>1 DEF AnswersReplay, Same, Replay
  <2>5. QED
    BY <2>3, <2>4
<1>4. ASSUME NEW w \in Writes, NEW n \in Sends, Apply(w, n) PROVE AnswersReplay'
  <2>1. UNCHANGED <<forgets, recorded>>
    BY <1>4 DEF Apply
  <2>2. ASSUME NEW v \in Writes, NEW m \in Sends PROVE Same(v, m) \/ req'[v][m].st # "replied"
    BY <1>4, ApplyAt
  <2>3. QED
    BY <2>1, <2>2, ReplayFrame
<1>5. ASSUME NEW w \in Writes, NEW n \in Sends, Record(w, n) PROVE AnswersReplay'
  <2> DEFINE op == [by |-> w, answer |-> req[w][n].answer]
  <2>0. /\ req[w][n].st \in Working /\ Key[w] \in Keys /\ req[w][n].st = "applied"
        /\ forgets' = forgets
    BY <1>5, WriteAssumption DEF Record, Working
  <2>1. recorded[Key[w]] = NoRecord
    BY <2>0, OneWorks
  <2>2. /\ recorded'[Key[w]] = op
        /\ \A k \in Keys : k # Key[w] => recorded'[k] = recorded[k]
    BY <1>5, <2>0 DEF Record, TypeOK
  <2>3. FinishClaim(w, n, req[w][n].answer, op)
    BY <1>5 DEF Record
  <2>4. op # NoRecord
    <3>1. req[w][n].answer.kind \in EngineKinds
      BY <2>0 DEF ClaimsAgree
    <3>2. req[w][n].answer \in Answers
      BY DEF TypeOK
    <3>3. QED
      BY <3>1, <3>2, Distinct
  <2>5. ASSUME NEW v \in Writes, NEW m \in Sends,
               forgets'[Key[v]] = 0, req'[v][m].st = "replied",
               req'[v][m].answer.kind \in EngineKinds \union {"usage"}
        PROVE  recorded'[Key[v]] # NoRecord /\ req'[v][m].answer = Replay(v, recorded'[Key[v]])
    <3>0. Key[v] \in Keys
      BY WriteAssumption
    <3>1. CASE v = w /\ m = n
      <4>1. req'[w][n].answer = req[w][n].answer
        BY <2>3, FinishClaimAt
      <4>2. QED
        BY <2>2, <2>4, <3>1, <4>1 DEF Replay
    <3>2. CASE ~(v = w /\ m = n) /\ Key[v] = Key[w] /\ req[v][m].st = "waiting"
      <4>1. req'[v][m].answer = Replay(v, op)
        BY <2>3, <2>4, <3>2, FinishClaimAt
      <4>2. QED
        BY <2>2, <2>4, <3>2, <4>1
    <3>3. CASE ~(v = w /\ m = n) /\ ~(Key[v] = Key[w] /\ req[v][m].st = "waiting")
      <4>1. Same(v, m)
        BY <2>3, <3>3, FinishClaimAt
      <4>2. recorded[Key[v]] # NoRecord /\ req[v][m].answer = Replay(v, recorded[Key[v]])
        BY <2>0, <2>5, <4>1 DEF AnswersReplay, Same
      <4>3. Key[v] # Key[w]
        BY <2>1, <4>2
      <4>4. QED
        BY <2>2, <3>0, <4>1, <4>2, <4>3 DEF Same
    <3>4. QED
      BY <3>1, <3>2, <3>3
  <2>6. QED
    BY <2>5 DEF AnswersReplay, Replay
<1>6. ASSUME NEW w \in Writes, NEW n \in Sends, FinishClaim(w, n, Refused("error"), NoRecord),
             recorded' = recorded,
             \A k \in Keys : forgets'[k] = forgets[k] \/ forgets'[k] # 0
      PROVE  AnswersReplay'
  <2>1. ASSUME NEW v \in Writes, NEW m \in Sends
        PROVE  \/ Same(v, m) \/ req'[v][m].st # "replied"
               \/ req'[v][m].answer.kind \notin EngineKinds \union {"usage"}
    <3>1. CASE v = w /\ m = n
      BY <1>6, <3>1, FinishClaimAt DEF Refused, EngineKinds
    <3>2. CASE ~(v = w /\ m = n)
      BY <1>6, <3>2, FinishClaimAt
    <3>3. QED
      BY <3>1, <3>2
  <2>2. \A v \in Writes : Key[v] \in Keys
    BY WriteAssumption
  <2>3. QED
    BY <1>6, <2>1, <2>2 DEF AnswersReplay, Same, Replay
<1>7. ASSUME NEW w \in Writes, NEW n \in Sends, ApplyFails(w, n) \/ RecordFails(w, n)
      PROVE  AnswersReplay'
  <2>1. /\ FinishClaim(w, n, Refused("error"), NoRecord) /\ recorded' = recorded
        /\ forgets' = forgets \/ forgets' = [forgets EXCEPT ![Key[w]] = @ + 1]
    BY <1>7 DEF ApplyFails, RecordFails
  <2>2. \A k \in Keys : forgets'[k] = forgets[k] \/ forgets'[k] # 0
    BY <2>1 DEF TypeOK
  <2>3. QED
    BY <1>6, <2>1, <2>2
<1>8. ASSUME NEW k \in Keys, Expire(k) PROVE AnswersReplay'
  <2>1. /\ req' = req /\ forgets'[k] # 0
        /\ \A j \in Keys : j # k => forgets'[j] = forgets[j] /\ recorded'[j] = recorded[j]
    BY <1>8 DEF Expire, TypeOK
  <2>2. \A v \in Writes : Key[v] \in Keys
    BY WriteAssumption
  <2>3. QED
    BY <2>1, <2>2 DEF AnswersReplay, Replay
<1>9. CASE Restart
  <2>1. \A v \in Writes : forgets'[Key[v]] # 0
    BY <1>9, WriteAssumption DEF Restart, TypeOK
  <2>2. QED
    BY <2>1 DEF AnswersReplay
<1>10. CASE UNCHANGED <<forgets, recorded, req>>
  BY <1>10, ReplayFrame DEF Same
<1>11. QED
  BY <1>1, <1>2, <1>3, <1>4, <1>5, <1>7, <1>8, <1>9, <1>10 DEF Next, ServerStep, Edit, FlipAuth, CloseGate, vars, serverVars

-----------------------------------------------------------------------------
(* What the clients know *)

\* The part of ClientKnows that is about one write.
Knows(w) ==
    /\ applied[w] > 0 => \E n \in Sends : Executed(w, n)
    /\ held[w] => unclear[w]
    /\ pc[w] = "lookup" => unclear[w]
    /\ pc[w] = "submit" /\ ~unclear[w] => attempts[w] = 0
    /\ pc[w] = "await" /\ ~unclear[w] => attempts[w] = 1
    /\ pc[w] = "idle" /\ outcome[w].kind = "gate" => ~held[w]
    /\ pc[w] = "idle" /\ outcome[w].kind = "auth" =>
          /\ attempts[w] = 1
          /\ req[w][1].st = "replied" /\ req[w][1].answer.kind = "auth"
    /\ outcome[w].kind \in {"conflict", "invalid", "usage"} /\ forgets[Key[w]] = 0 =>
          /\ recorded[Key[w]] # NoRecord
          /\ recorded[Key[w]] # [by |-> w, answer |-> Committed]

\* An effect was had by a request the engine reached.
LEMMA EffectExecuted ==
    ASSUME TypeOK, CountsAgree, ClaimsAgree, [Next]_vars, NEW v \in Writes,
           applied[v] > 0 => \E n \in Sends : Executed(v, n)
    PROVE  applied'[v] > 0 => \E n \in Sends : Executed(v, n)'
<1>1. CASE applied'[v] = applied[v]
  BY <1>1, RequestsStay
<1>2. ASSUME NEW w \in Writes, NEW n \in Sends, Apply(w, n), applied'[v] # applied[v]
      PROVE  Executed(v, n)'
  <2>1. v = w /\ req'[w][n].st = "applied"
    BY <1>2, ApplyAt
  <2>2. QED
    BY <2>1 DEF Executed
<1>3. CASE applied' = applied
  BY <1>1, <1>3
<1>4. CASE \E w \in Writes, n \in Sends : ServerStep(w, n)
  BY <1>1, <1>2, <1>3, <1>4 DEF ServerStep, Arrive, Claim, Record, ApplyFails, RecordFails
<1>5. CASE \E w \in Writes : Call(w) \/ ClientStep(w)
  BY <1>3, <1>5 DEF ClientStep, Call, Submit, Answer, Deadline, Lookup, LookupFails, Abort, serverVars
<1>6. CASE WorldStep
  BY <1>3, <1>6 DEF WorldStep, Expire, Edit, Restart, FlipAuth, CloseGate, vars, serverVars
<1>7. QED
  BY <1>4, <1>5, <1>6, StepKinds

\* What a client knows of a write stays true while others move.
LEMMA KnowsStays ==
    ASSUME TypeOK, CountsAgree, ClaimsAgree, [Next]_vars, NEW v \in Writes, Knows(v),
           pc'[v] = pc[v], attempts'[v] = attempts[v], unclear'[v] = unclear[v],
           held'[v] = held[v], outcome'[v] = outcome[v]
    PROVE  Knows(v)'
<1>1. applied'[v] > 0 => \E n \in Sends : Executed(v, n)'
  BY EffectExecuted DEF Knows
<1>2. ASSUME pc[v] = "idle", outcome[v].kind = "auth"
      PROVE  req'[v][1].st = "replied" /\ req'[v][1].answer.kind = "auth"
  <2>1. attempts[v] = 1 /\ req[v][1].st = "replied" /\ req[v][1].answer.kind = "auth"
    BY <1>2 DEF Knows
  <2>2. 1 \in Sends
    BY <2>1, NumberOfSend
  <2>3. QED
    BY <2>1, <2>2, RequestsStay DEF Same
<1>3. ASSUME outcome[v].kind \in {"conflict", "invalid", "usage"}, forgets'[Key[v]] = 0
      PROVE  /\ recorded'[Key[v]] # NoRecord
             /\ recorded'[Key[v]] # [by |-> v, answer |-> Committed]
  <2>1. PICK k \in Keys : k = Key[v]
    BY WriteAssumption
  <2>2. /\ forgets[k] = 0
        /\ recorded[k] # NoRecord => recorded'[k] = recorded[k]
    <3>1. forgets'[k] = 0
      BY <1>3, <2>1
    <3>2. QED
      BY <3>1, RecordStays
  <2>3. /\ recorded[k] # NoRecord
        /\ recorded[k] # [by |-> v, answer |-> Committed]
    BY <1>3, <2>1, <2>2 DEF Knows
  <2>4. QED
    BY <2>1, <2>2, <2>3
<1>4. QED
  BY <1>1, <1>2, <1>3 DEF Knows

\* A call that ends with answer a knows what a tells it.
LEMMA KnowsFinish ==
    ASSUME TypeOK, NEW w \in Writes, NEW a \in Answers, Knows(w), Finish(w, a),
           UNCHANGED <<serverVars, attempts, unclear, held>>,
           a.kind = "gate" => ~held[w],
           a.kind = "auth" => /\ attempts[w] = 1
                              /\ req[w][1].st = "replied" /\ req[w][1].answer.kind = "auth",
           a.kind \in {"conflict", "invalid", "usage"} /\ forgets[Key[w]] = 0 =>
               /\ recorded[Key[w]] # NoRecord
               /\ recorded[Key[w]] # [by |-> w, answer |-> Committed]
    PROVE  Knows(w)'
<1>1. pc'[w] = "idle" /\ outcome'[w] \in {a, Committed}
  BY FinishTypes DEF TypeOK
<1>2. outcome'[w].kind \in {"gate", "auth", "conflict", "invalid", "usage"} => outcome'[w] = a
  BY <1>1, Distinct
<1>3. QED
  BY <1>1, <1>2 DEF Knows, Executed, serverVars

\* A client's own step keeps what it knows true.
LEMMA KnowsClient ==
    ASSUME WriteInv, [Next]_vars, NEW w \in Writes, Call(w) \/ ClientStep(w)
    PROVE  Knows(w)'
<1>0. TypeOK /\ CountsAgree /\ ClaimsAgree /\ AnswersReplay /\ Knows(w)
  BY DEF WriteInv, ClientKnows, Knows
<1>1. /\ unclear[w] \in BOOLEAN /\ held[w] \in BOOLEAN /\ attempts[w] \in Nat
      /\ outcome[w] \in Answers
  BY <1>0 DEF TypeOK
<1> HIDE DEF WriteInv
<1>2. applied'[w] > 0 => \E n \in Sends : Executed(w, n)'
  BY <1>0, EffectExecuted DEF Knows
<1>3. CASE Call(w)
  <2>1. /\ pc'[w] = IF attempts[w] = 0 THEN "submit" ELSE "lookup"
        /\ outcome'[w] = NoAnswer /\ attempts'[w] = attempts[w]
    BY <1>0, <1>3 DEF Call, TypeOK
  <2>2. unclear'[w] = (attempts[w] > 0) /\ held'[w] = FALSE
    BY <1>0, <1>3 DEF Call, TypeOK
  <2>3. pc'[w] = "lookup" => unclear'[w]
    <3>1. CASE attempts[w] = 0
      BY <2>1, <3>1
    <3>2. CASE attempts[w] # 0
      <4>1. (attempts[w] > 0) = TRUE
        BY <1>1, <3>2
      <4>2. unclear'[w] = TRUE
        BY <2>2, <4>1
      <4>3. QED
        BY <4>2
    <3>3. QED
      BY <3>1, <3>2
  <2>4. NoAnswer.kind = "none"
    BY DEF NoAnswer
  <2>5. ~held'[w] /\ pc'[w] \in {"submit", "lookup"} /\ (pc'[w] = "submit" => attempts'[w] = 0)
    BY <2>1, <2>2
  <2>6. outcome'[w].kind = "none"
    BY <2>1, <2>4
  <2>7. QED
    BY <1>2, <2>3, <2>5, <2>6 DEF Knows
<1>4. CASE Submit(w)
  <2>1. pc[w] = "submit" /\ UNCHANGED <<unclear, held, applied, forgets, recorded>>
    BY <1>4 DEF Submit
  <2>2. CASE Finish(w, Unknown) /\ UNCHANGED <<req, attempts, submissions>>
    <3>1. Unknown.kind = "unknown" /\ Unknown \in Answers
      BY AnswerTypes DEF Unknown
    <3>2. UNCHANGED serverVars
      BY <1>4, <2>2 DEF Submit, serverVars
    <3>3. QED
      BY <1>0, <2>1, <2>2, <3>1, <3>2, KnowsFinish
  <2>3. CASE ~(Finish(w, Unknown) /\ UNCHANGED <<req, attempts, submissions>>)
    <3>1. /\ pc'[w] = "await" /\ attempts'[w] = attempts[w] + 1 /\ outcome'[w] = outcome[w]
      BY <1>0, <1>4, <2>3, SubmitAt DEF TypeOK
    <3>2. QED
      BY <1>0, <1>1, <1>2, <2>1, <3>1 DEF Knows
  <2>4. QED
    BY <2>2, <2>3
<1>5. CASE Answer(w)
  <2> DEFINE r == req[w][attempts[w]]
  <2>1. attempts[w] \in Sends /\ pc[w] = "await" /\ r.st = "replied"
        /\ UNCHANGED <<serverVars, attempts, held>>
    BY <1>0, <1>5, NumberOfSend DEF Answer, CountsAgree
  <2>2. r \in Req
    BY <1>0, <2>1 DEF TypeOK, Req
  <2>3. CASE r.answer.kind = "error"
    <3>1. unclear'[w] = TRUE /\ pc'[w] = "lookup" /\ outcome'[w] = outcome[w]
      BY <1>0, <1>5, <2>3 DEF Answer, TypeOK
    <3>2. QED
      BY <1>0, <1>2, <2>1, <3>1 DEF Knows, serverVars
  <2>4. CASE r.answer.kind # "error"
    <3>1. PICK a \in {Unknown, r.answer} :
              /\ Finish(w, a) /\ unclear' = unclear
              /\ a = IF unclear[w] /\ RefusalLeavesUnknown(w, r.answer) THEN Unknown ELSE r.answer
      BY <1>5, <2>4 DEF Answer
    <3>2. Unknown.kind = "unknown" /\ Unknown \in Answers /\ r.answer \in Answers
      BY <2>2, AnswerTypes DEF Unknown, Req
    <3> HIDE DEF r
    <3>3. a.kind = "gate" => ~held[w]
      BY <1>0, <1>1, <3>1, <3>2 DEF RefusalLeavesUnknown, Knows
    <3>4. a.kind = "auth" => attempts[w] = 1 /\ r.answer.kind = "auth"
      BY <1>0, <1>1, <2>1, <3>1, <3>2 DEF RefusalLeavesUnknown, Knows
    <3>5. ASSUME a.kind \in {"conflict", "invalid", "usage"}, forgets[Key[w]] = 0
          PROVE  /\ recorded[Key[w]] # NoRecord
                 /\ recorded[Key[w]] # [by |-> w, answer |-> Committed]
      <4>1. a = r.answer
        BY <3>1, <3>2, <3>5
      <4>2. r.answer.kind \in EngineKinds \union {"usage"}
        BY <3>5, <4>1 DEF EngineKinds
      <4>3. recorded[Key[w]] # NoRecord /\ r.answer = Replay(w, recorded[Key[w]])
        BY <1>0, <2>1, <3>5, <4>2 DEF AnswersReplay, r
      <4>4. QED
        BY <3>5, <4>1, <4>3, Distinct DEF Replay
    <3>6. a.kind = "auth" => /\ attempts[w] = 1
                             /\ req[w][1].st = "replied" /\ req[w][1].answer.kind = "auth"
      BY <2>1, <3>4 DEF r
    <3>7. a \in Answers
      BY <3>1, <3>2
    <3>8. QED
      BY <1>0, <2>1, <3>1, <3>3, <3>5, <3>6, <3>7, KnowsFinish
  <2>5. QED
    BY <2>3, <2>4
<1>6. CASE Deadline(w)
  <2>1. /\ unclear'[w] = TRUE /\ pc'[w] = "lookup" /\ outcome'[w] = outcome[w]
        /\ UNCHANGED <<serverVars, attempts, held>>
    BY <1>0, <1>6 DEF Deadline, TypeOK
  <2>2. QED
    BY <1>0, <1>2, <2>1 DEF Knows, serverVars
<1>7. CASE Lookup(w)
  <2>0. pc[w] = "lookup" /\ unclear[w] /\ UNCHANGED <<serverVars, attempts>> /\ Key[w] \in Keys
    BY <1>0, <1>7, WriteAssumption DEF Lookup, Knows
  <2>1. CASE recorded[Key[w]] # NoRecord
    <3> DEFINE a == recorded[Key[w]].answer
    <3>1. Finish(w, a) /\ UNCHANGED <<unclear, held>>
      BY <1>7, <2>1 DEF Lookup
    <3>2. a \in Answers /\ a.kind \in EngineKinds
      BY <1>0, <2>0, <2>1 DEF TypeOK, ClaimsAgree
    <3>3. a.kind \in {"conflict", "invalid", "usage"} =>
              recorded[Key[w]] # [by |-> w, answer |-> Committed]
      BY Distinct
    <3>4. a.kind # "gate" /\ a.kind # "auth"
      BY <3>2 DEF EngineKinds
    <3> HIDE DEF a
    <3>5. QED
      BY <1>0, <2>0, <2>1, <3>1, <3>2, <3>3, <3>4, KnowsFinish
  <2>2. CASE recorded[Key[w]] = NoRecord
    <3>1. /\ pc'[w] = "submit" /\ outcome'[w] = outcome[w] /\ unclear'[w] = TRUE
      BY <1>0, <1>1, <1>7, <2>0, <2>2 DEF Lookup, TypeOK
    <3>2. QED
      BY <1>0, <1>2, <2>0, <3>1 DEF Knows, serverVars
  <2>3. QED
    BY <2>1, <2>2
<1>8. CASE LookupFails(w) \/ Abort(w)
  <2>0. Unknown.kind = "unknown" /\ Unknown \in Answers
    BY AnswerTypes DEF Unknown
  <2>1. UNCHANGED <<serverVars, attempts, unclear, held>>
    BY <1>8 DEF LookupFails, Abort
  <2>2. Finish(w, Unknown) \/ UNCHANGED <<pc, outcome>>
    BY <1>8 DEF LookupFails, Abort
  <2>3. CASE Finish(w, Unknown)
    BY <1>0, <2>0, <2>1, <2>3, KnowsFinish
  <2>4. CASE UNCHANGED <<pc, outcome>>
    BY <1>0, <2>1, <2>4 DEF Knows, Executed, serverVars
  <2>5. QED
    BY <2>2, <2>3, <2>4
<1>9. QED
  BY <1>3, <1>4, <1>5, <1>6, <1>7, <1>8 DEF ClientStep

\* All clients know what they may conclude after every step.
LEMMA KnowsStep ==
    ASSUME WriteInv, [Next]_vars
    PROVE  ClientKnows'
<1>0. TypeOK /\ CountsAgree /\ ClaimsAgree /\ \A v \in Writes : Knows(v)
  BY DEF WriteInv, ClientKnows, Knows
<1>1. ASSUME NEW v \in Writes PROVE Knows(v)'
  <2>1. CASE Call(v) \/ ClientStep(v)
    BY <2>1, KnowsClient
  <2>2. ASSUME NEW w \in Writes, w # v, Call(w) \/ ClientStep(w) PROVE Knows(v)'
    BY <1>0, <2>2, ClientMovesOne, KnowsStays
  <2>3. CASE UNCHANGED clientVars
    BY <1>0, <2>3, KnowsStays DEF clientVars
  <2>4. QED
    BY <1>0, <2>1, <2>2, <2>3, StepKinds, ServerSendsNothing
<1>2. QED
  BY <1>1 DEF ClientKnows, Knows

-----------------------------------------------------------------------------
(* The theorems *)

\* The invariant holds initially.
LEMMA InvInit == Init => WriteInv
<1> SUFFICES ASSUME Init PROVE WriteInv
  OBVIOUS
<1>1. TypeOK
  BY TypeInit
<1>2. CountsAgree
  <2>1. \A w \in Writes : calls[w] = 0 /\ attempts[w] = 0 /\ pc[w] = "idle"
    BY DEF Init
  <2>2. MaxCalls \in Nat /\ 0 * MaxSubmissions = 0
    BY WriteAssumption
  <2>3. \A w \in Writes, n \in Sends : req[w][n].st = "unsent"
    BY DEF Init
  <2>4. \A w \in Writes : calls[w] * MaxSubmissions = 0
    BY <2>1, <2>2
  <2>5. ASSUME NEW w \in Writes
        PROVE  calls[w] <= MaxCalls /\ attempts[w] <= calls[w] * MaxSubmissions
    BY <2>1, <2>2, <2>4
  <2>6. QED
    BY <2>1, <2>3, <2>5 DEF CountsAgree
<1>3. ClaimsAgree /\ EffectsKept /\ AnswersReplay
  <2>1. \A w \in Writes, n \in Sends : req[w][n].st = "unsent"
    BY DEF Init
  <2>2. \A k \in Keys : recorded[k] = NoRecord /\ claim[k] = NoClaim /\ forgets[k] = 0
    BY DEF Init
  <2>3. \A w \in Writes : applied[w] = 0 /\ Key[w] \in Keys
    BY WriteAssumption DEF Init
  <2>4. QED
    BY <2>1, <2>2, <2>3 DEF ClaimsAgree, EffectsKept, AnswersReplay, Working
<1>4. ClientKnows
  <2>1. NoAnswer.kind = "none"
    BY DEF NoAnswer
  <2>2. \A w \in Writes : /\ applied[w] = 0 /\ ~held[w] /\ pc[w] = "idle"
                          /\ outcome[w].kind = "none"
    BY <2>1 DEF Init
  <2>3. ASSUME NEW w \in Writes PROVE Knows(w)
    <3>1. ~(applied[w] > 0)
      BY <2>2
    <3>2. QED
      BY <2>2, <3>1 DEF Knows
  <2>4. QED
    BY <2>3 DEF ClientKnows, Knows
<1>5. QED
  BY <1>1, <1>2, <1>3, <1>4 DEF WriteInv

\* Types are preserved under the invariant.
LEMMA TypeStep ==
    ASSUME TypeOK, CountsAgree, ClaimsAgree, [Next]_vars
    PROVE  TypeOK'
BY StepKinds, TypeClient, TypeServer, TypeRest DEF WorldStep

\* So are the claims.
LEMMA ClaimsStep ==
    ASSUME TypeOK, CountsAgree, ClaimsAgree, [Next]_vars
    PROVE  ClaimsAgree'
<1>1. ASSUME NEW w \in Writes, NEW n \in Sends, ServerStep(w, n) PROVE ClaimsAgree'
  <2>1. CASE Record(w, n)
    <3>1. req[w][n].answer \in Answers
      BY DEF TypeOK
    <3>2. req[w][n].answer.kind \in EngineKinds
      BY <2>1 DEF Record, ClaimsAgree
    <3>3. QED
      BY <2>1, <3>1, <3>2, ClaimsFinish DEF Record, Working
  <2>2. CASE ApplyFails(w, n) \/ RecordFails(w, n)
    BY <2>2, ClaimsFinish DEF ApplyFails, RecordFails, Working
  <2>3. QED
    BY <1>1, <2>1, <2>2, ClaimsArrive, ClaimsClaim, ClaimsApply DEF ServerStep
<1>2. QED
  BY <1>1, StepKinds, ClaimsClient, ClaimsWorld

\* The whole invariant is inductive.
LEMMA InvStep == WriteInv /\ [Next]_vars => WriteInv'
<1> SUFFICES ASSUME WriteInv, [Next]_vars PROVE WriteInv'
  OBVIOUS
<1>1. TypeOK /\ CountsAgree /\ ClaimsAgree /\ EffectsKept /\ AnswersReplay
  BY DEF WriteInv
<1>2. CountsAgree'
  BY <1>1, StepKinds, CountsClient, CountsRest
<1>3. QED
  BY <1>1, <1>2, TypeStep, ClaimsStep, EffectsStep, AnswersStep, KnowsStep DEF WriteInv

\* The invariant of the uncertain write holds, types included, whatever the
\* writes, their keys and the bounds.
THEOREM Invariance == Spec => []WriteInv
BY InvInit, InvStep, PTL DEF Spec

\* Type correctness.
THEOREM TypeCorrect == Spec => []TypeOK
<1>1. WriteInv => TypeOK
  BY DEF WriteInv
<1>2. QED
  BY <1>1, Invariance, PTL

\* applyIdentified: every effect of a write but the first takes a lost answer.
THEOREM AppliedOnce == Spec => []AppliedOncePerRecord
<1>1. WriteInv => AppliedOncePerRecord
  <2> SUFFICES ASSUME WriteInv, NEW w \in Writes PROVE applied[w] <= 1 + forgets[Key[w]]
    BY DEF AppliedOncePerRecord
  <2>1. applied[w] \in Nat /\ forgets[Key[w]] \in Nat
    BY WriteAssumption DEF WriteInv, TypeOK
  <2>2. QED
    BY <2>1 DEF WriteInv, EffectsKept
<1>2. QED
  BY <1>1, Invariance, PTL

\* replayRecorded and the claim: all submissions of a write get one answer.
THEOREM SubmissionsAgree == Spec => []OneAnswer
<1>1. WriteInv => OneAnswer
  <2> SUFFICES ASSUME WriteInv, NEW w \in Writes, forgets[Key[w]] = 0
               PROVE  /\ \A a, b \in EngineAnswers(w) : a = b
                      /\ recorded[Key[w]].by = w =>
                            EngineAnswers(w) \subseteq {recorded[Key[w]].answer}
    BY DEF OneAnswer
  <2>1. \A a \in EngineAnswers(w) : a = Replay(w, recorded[Key[w]])
    BY DEF WriteInv, AnswersReplay, EngineAnswers, EngineKinds
  <2>2. QED
    BY <2>1 DEF Replay
<1>2. QED
  BY <1>1, Invariance, PTL

\* claim, record and release: a waiting request waits on one that is worked on.
THEOREM NoStrandedWaiter == Spec => []WaitersHaveClaimant
<1>1. WriteInv => WaitersHaveClaimant
  <2> SUFFICES ASSUME WriteInv, NEW w \in Writes, NEW n \in Sends, req[w][n].st = "waiting"
               PROVE  \E v \in Writes, m \in Sends :
                         /\ claim[Key[w]] = [by |-> v, nr |-> m]
                         /\ req[v][m].st \in {"applying", "applied"}
    BY DEF WaitersHaveClaimant
  <2>1. claim[Key[w]] # NoClaim /\ Key[w] \in Keys
    BY WriteAssumption DEF WriteInv, ClaimsAgree
  <2>2. QED
    BY <2>1 DEF WriteInv, ClaimsAgree, Working
<1>2. QED
  BY <1>1, Invariance, PTL

\* refusalLeavesUnknown: a refusal or conflict that ends a call ends the write.
THEOREM RefusalsSettle == Spec => []SettledStaysSettled
<1>1. WriteInv => SettledStaysSettled
  <2> SUFFICES ASSUME WriteInv, NEW w \in Writes, forgets[Key[w]] = 0, pc[w] = "idle",
                      \/ outcome[w].kind \in {"conflict", "invalid", "usage", "auth"}
                      \/ outcome[w].kind = "gate" /\ held[w]
               PROVE  applied[w] = 0
    BY DEF SettledStaysSettled
  <2>0. /\ TypeOK /\ CountsAgree /\ ClaimsAgree /\ EffectsKept /\ Knows(w)
        /\ applied[w] \in Nat
    BY DEF WriteInv, ClientKnows, Knows, TypeOK
  <2>1. CASE outcome[w].kind = "auth"
    <3>1. attempts[w] = 1 /\ req[w][1].st = "replied" /\ req[w][1].answer.kind = "auth"
      BY <2>0, <2>1 DEF Knows
    <3>2. \A n \in Sends : n # 1 => req[w][n].st = "unsent"
      BY <2>0, <3>1 DEF CountsAgree, Sends
    <3>3. \A n \in Sends : ~Executed(w, n)
      BY <3>1, <3>2 DEF Executed
    <3>4. QED
      BY <2>0, <3>3 DEF Knows
  <2>2. CASE outcome[w].kind \in {"conflict", "invalid", "usage"}
    <3>1. /\ recorded[Key[w]] # NoRecord
          /\ recorded[Key[w]] # [by |-> w, answer |-> Committed]
      BY <2>0, <2>2 DEF Knows
    <3>2. ASSUME NEW n \in Sends, req[w][n].st = "applied" PROVE FALSE
      <4>1. req[w][n].st \in Working
        BY <3>2 DEF Working
      <4>2. QED
        BY <2>0, <3>1, <4>1, OneWorks
    <3>3. ~CommitKept(w)
      BY <3>1, <3>2 DEF CommitKept
    <3>4. QED
      BY <2>0, <3>3 DEF EffectsKept
  <2>3. CASE outcome[w].kind = "gate" /\ held[w]
    BY <2>0, <2>3 DEF Knows
  <2>4. QED
    BY <2>1, <2>2, <2>3
<1>2. QED
  BY <1>1, Invariance, PTL

-----------------------------------------------------------------------------
(* Committed outcomes are real, where every intent has its own key *)

\* The history of the head only grows, and holds the head.
LEMMA SeenGrows ==
    ASSUME TypeOK, doc \in seen, [Next]_vars
    PROVE  seen \subseteq seen' /\ doc' \in seen'
<1>1. CASE UNCHANGED <<doc, seen>>
  BY <1>1
<1>2. CASE \E v \in Heads : Edit(v)
  BY <1>2 DEF Edit
<1>3. ASSUME NEW w \in Writes, NEW n \in Sends, Apply(w, n) PROVE seen \subseteq seen' /\ doc' \in seen'
  BY <1>3 DEF Apply
<1>4. CASE \E w \in Writes, n \in Sends : ServerStep(w, n)
  BY <1>1, <1>3, <1>4 DEF ServerStep, Arrive, Claim, Record, ApplyFails, RecordFails
<1>5. CASE \E w \in Writes : Call(w) \/ ClientStep(w)
  BY <1>1, <1>5 DEF ClientStep, Call, Submit, Answer, Deadline, Lookup, LookupFails, Abort, serverVars
<1>6. CASE WorldStep
  BY <1>1, <1>2, <1>6 DEF WorldStep, Expire, Restart, FlipAuth, CloseGate, vars, serverVars
<1>7. QED
  BY <1>4, <1>5, <1>6, StepKinds

\* An answer that was truthful stays so.
LEMMA TruthStays ==
    ASSUME seen \subseteq seen', NEW w, NEW a, Truthful(w, a)
    PROVE  /\ a.kind = "committed" => Local[w] \in seen'
           /\ a.kind = "conflict" => a.actual \in seen'
BY DEF Truthful

\* A replayed answer is as truthful as the record.
LEMMA ReplayTruthful ==
    ASSUME NEW v, NEW op, Truthful(op.by, op.answer)
    PROVE  Truthful(v, Replay(v, op))
BY DEF Truthful, Replay, Refused

\* The requests' answers stay truthful.
LEMMA RequestsTruthful ==
    ASSUME TypeOK, CountsAgree, ClaimsAgree, AnswersTruthful, [Next]_vars,
           NEW v \in Writes, NEW m \in Sends
    PROVE  Truthful(v, req[v][m].answer)'
<1>0. Truthful(v, req[v][m].answer) /\ seen \subseteq seen' /\ Key[v] \in Keys
  BY WriteAssumption, SeenGrows DEF AnswersTruthful
<1>1. CASE req'[v][m].answer = req[v][m].answer
  BY <1>0, <1>1 DEF Truthful
<1>2. CASE req'[v][m].answer.kind \notin {"committed", "conflict"}
  BY <1>2 DEF Truthful
<1>3. ASSUME NEW op, Truthful(op.by, op.answer), req'[v][m].answer = Replay(v, op)
      PROVE  Truthful(v, req[v][m].answer)'
  <2>1. Truthful(v, Replay(v, op))
    BY <1>3, ReplayTruthful
  <2>2. QED
    BY <1>0, <1>3, <2>1 DEF Truthful
<1>4. ASSUME NEW w \in Writes, Call(w) \/ ClientStep(w) PROVE req'[v][m].answer = req[v][m].answer
  BY <1>4, SubmitAt, ClientLeavesReq DEF serverVars
<1>5. ASSUME NEW w \in Writes, NEW n \in Sends, ServerStep(w, n)
      PROVE  Truthful(v, req[v][m].answer)'
  <2>1. CASE Arrive(w, n)
    BY <1>1, <1>2, <2>1, ArriveAt DEF Same
  <2>2. CASE Claim(w, n)
    <3>1. CASE ~(v = w /\ m = n)
      BY <1>1, <2>2, <3>1, ClaimMoves DEF Same
    <3>2. CASE v = w /\ m = n /\ recorded[Key[w]] = NoRecord
      BY <1>1, <2>2, <3>2, ClaimAt
    <3>3. CASE v = w /\ m = n /\ recorded[Key[w]] # NoRecord
      <4>1. Truthful(recorded[Key[w]].by, recorded[Key[w]].answer)
        BY <1>0, <3>3 DEF AnswersTruthful
      <4>2. req'[v][m].answer = Replay(v, recorded[Key[w]])
        BY <2>2, <3>3, ClaimAt
      <4>3. QED
        BY <1>3, <4>1, <4>2
    <3>4. QED
      BY <3>1, <3>2, <3>3
  <2>3. CASE Apply(w, n)
    <3>1. CASE ~(v = w /\ m = n)
      BY <1>1, <2>3, <3>1, ApplyAt DEF Same
    <3>2. CASE v = w /\ m = n
      <4>1. req'[v][m].answer = EngineAnswer(w)
        BY <2>3, <3>2, ApplyAt
      <4>2. CASE EngineAnswer(w) = Committed
        <5>1. Local[w] \in seen'
          BY <2>3, <4>2 DEF Apply
        <5>2. QED
          BY <3>2, <4>1, <4>2, <5>1, Distinct DEF Truthful
      <4>3. CASE EngineAnswer(w) # Committed
        BY <1>0, <3>2, <4>1, <4>3, EngineTypes DEF Truthful, AnswersTruthful
      <4>4. QED
        BY <4>2, <4>3
    <3>3. QED
      BY <3>1, <3>2
  <2>4. CASE Record(w, n)
    <3> DEFINE op == [by |-> w, answer |-> req[w][n].answer]
    <3>1. FinishClaim(w, n, req[w][n].answer, op)
      BY <2>4 DEF Record
    <3>2. Truthful(op.by, op.answer)
      BY DEF AnswersTruthful
    <3>3. CASE v = w /\ m = n
      <4>1. req'[v][m].answer = req[v][m].answer
        BY <3>1, <3>3, FinishClaimAt
      <4>2. QED
        BY <1>1, <4>1
    <3>4. CASE ~(v = w /\ m = n)
      <4>1. req'[v][m].answer = req[v][m].answer \/ req'[v][m].answer = Replay(v, op)
        BY <3>1, <3>4, FinishClaimAt DEF Same
      <4>2. QED
        BY <1>1, <1>3, <3>2, <4>1
    <3>5. QED
      BY <3>3, <3>4
  <2>5. CASE ApplyFails(w, n) \/ RecordFails(w, n)
    <3>1. FinishClaim(w, n, Refused("error"), NoRecord)
      BY <2>5 DEF ApplyFails, RecordFails
    <3>2. CASE v = w /\ m = n
      BY <1>2, <3>1, <3>2, FinishClaimAt DEF Refused
    <3>3. CASE ~(v = w /\ m = n)
      BY <1>1, <3>1, <3>3, FinishClaimAt DEF Same
    <3>4. QED
      BY <3>2, <3>3
  <2>6. QED
    BY <1>5, <2>1, <2>2, <2>3, <2>4, <2>5 DEF ServerStep
<1>6. CASE WorldStep
  <2>1. CASE Restart
    <3>1. CASE req'[v][m].answer = NoAnswer
      BY <1>2, <3>1 DEF NoAnswer
    <3>2. QED
      BY <1>1, <2>1, <3>1, RestartAt DEF Same
  <2>2. CASE ~Restart
    BY <1>1, <1>6, <2>2 DEF WorldStep, Expire, Edit, FlipAuth, CloseGate, vars, serverVars
  <2>3. QED
    BY <2>1, <2>2
<1>7. QED
  BY <1>1, <1>4, <1>5, <1>6, StepKinds

\* The records stay truthful.
LEMMA RecordsTruthful ==
    ASSUME TypeOK, CountsAgree, ClaimsAgree, AnswersTruthful, [Next]_vars,
           NEW k \in Keys, recorded'[k] # NoRecord
    PROVE  Truthful(recorded[k].by, recorded[k].answer)'
<1>0. seen \subseteq seen'
  BY SeenGrows DEF AnswersTruthful
<1>1. CASE recorded'[k] = recorded[k]
  BY <1>0, <1>1 DEF Truthful, AnswersTruthful
<1>2. ASSUME NEW w \in Writes, NEW n \in Sends, Record(w, n), recorded'[k] # recorded[k]
      PROVE  Truthful(recorded[k].by, recorded[k].answer)'
  <2>1. recorded'[k] = [by |-> w, answer |-> req[w][n].answer]
    BY <1>2, WriteAssumption DEF Record, TypeOK
  <2>2. Truthful(w, req[w][n].answer)
    BY DEF AnswersTruthful
  <2>3. QED
    BY <1>0, <2>1, <2>2 DEF Truthful
<1>3. CASE \E w \in Writes, n \in Sends : ServerStep(w, n)
  BY <1>1, <1>2, <1>3 DEF ServerStep, Arrive, Claim, Apply, ApplyFails, RecordFails
<1>4. CASE \E w \in Writes : Call(w) \/ ClientStep(w)
  BY <1>1, <1>4 DEF ClientStep, Call, Submit, Answer, Deadline, Lookup, LookupFails, Abort, serverVars
<1>5. ASSUME NEW j \in Keys, Expire(j) PROVE recorded'[k] = recorded[k]
  BY <1>5 DEF Expire, TypeOK
<1>6. ~Restart
  BY DEF Restart
<1>7. CASE WorldStep
  BY <1>1, <1>5, <1>6, <1>7 DEF WorldStep, Edit, FlipAuth, CloseGate, vars, serverVars
<1>8. QED
  BY <1>3, <1>4, <1>7, StepKinds

\* A call that ends with a truthful answer reports a real commit or none.
LEMMA FinishTruthful ==
    ASSUME TypeOK, NEW w \in Writes, NEW a \in Answers, Finish(w, a), Truthful(w, a),
           outcome'[w].kind = "committed"
    PROVE  Local[w] \in seen
<1>1. outcome'[w] = SettleAgainstIntent(w, a)
  BY FinishTypes
<1>2. QED
  BY <1>1 DEF SettleAgainstIntent, Truthful

\* Commits that calls report stay real.
LEMMA CommitsReal ==
    ASSUME OwnKeys, TypeOK, CountsAgree, ClaimsAgree, AnswersTruthful, [Next]_vars,
           NEW v \in Writes, outcome'[v].kind = "committed"
    PROVE  Local[v] \in seen'
<1>0. seen \subseteq seen'
  BY SeenGrows DEF AnswersTruthful
<1>1. CASE outcome'[v] = outcome[v]
  BY <1>0, <1>1 DEF AnswersTruthful, CommittedIsReal
<1>2. ASSUME NEW a \in Answers, Finish(v, a), Truthful(v, a) PROVE Local[v] \in seen'
  BY <1>0, <1>2, FinishTruthful
<1>3. Truthful(v, Unknown) /\ Unknown \in Answers
  BY AnswerTypes DEF Truthful, Unknown
<1>4. CASE Call(v)
  BY <1>4 DEF Call, TypeOK, NoAnswer
<1>5. CASE Submit(v) \/ Deadline(v) \/ LookupFails(v) \/ Abort(v)
  BY <1>1, <1>2, <1>3, <1>5 DEF Submit, Deadline, LookupFails, Abort
<1>6. CASE Answer(v)
  <2> DEFINE r == req[v][attempts[v]]
  <2>1. attempts[v] \in Sends
    BY <1>6, NumberOfSend DEF Answer, CountsAgree
  <2>2. r \in Req /\ Truthful(v, r.answer)
    BY <2>1 DEF TypeOK, Req, AnswersTruthful
  <2>3. r.answer \in Answers
    BY <2>2 DEF Req
  <2>4. outcome' = outcome \/ Finish(v, Unknown) \/ Finish(v, r.answer)
    BY <1>6 DEF Answer
  <2>5. QED
    BY <1>1, <1>2, <1>3, <2>2, <2>3, <2>4
<1>7. CASE Lookup(v)
  <2>1. CASE recorded[Key[v]] = NoRecord
    BY <1>1, <1>7, <2>1 DEF Lookup
  <2>2. CASE recorded[Key[v]] # NoRecord
    <3>1. Key[v] \in Keys
      BY WriteAssumption
    <3>2. recorded[Key[v]].by = v
      BY <2>2, <3>1 DEF ClaimsAgree, OwnKeys
    <3>3. Truthful(v, recorded[Key[v]].answer) /\ recorded[Key[v]].answer \in Answers
      BY <2>2, <3>1, <3>2 DEF AnswersTruthful, TypeOK
    <3>4. QED
      BY <1>2, <1>7, <2>2, <3>3 DEF Lookup
  <2>3. QED
    BY <2>1, <2>2
<1>8. ASSUME NEW w \in Writes, Call(w) \/ ClientStep(w), w # v PROVE outcome'[v] = outcome[v]
  BY <1>8, ClientMovesOne
<1>9. CASE UNCHANGED clientVars
  BY <1>1, <1>9 DEF clientVars
<1>10. QED
  BY <1>1, <1>4, <1>5, <1>6, <1>7, <1>8, <1>9, StepKinds, ServerSendsNothing DEF ClientStep

\* settleAgainstIntent and the lookup: a call reports a commit only if the
\* document has held the written content.  A caller that reuses a key for two
\* intents may be told the other one's commit by a lookup.
THEOREM CommitsAreReal ==
    ASSUME OwnKeys
    PROVE  Spec => []CommittedIsReal
<1>1. Init => AnswersTruthful
  <2> SUFFICES ASSUME Init PROVE AnswersTruthful
    OBVIOUS
  <2>1. NoAnswer.kind = "none"
    BY DEF NoAnswer
  <2>2. \A w \in Writes : outcome[w].kind = "none"
    BY <2>1 DEF Init
  <2>3. \A w \in Writes, n \in Sends : req[w][n].answer = NoAnswer
    BY DEF Init
  <2>4. \A k \in Keys : recorded[k] = NoRecord
    BY DEF Init
  <2>5. doc \in seen
    BY DEF Init
  <2>6. QED
    BY <2>1, <2>2, <2>3, <2>4, <2>5 DEF AnswersTruthful, Truthful, CommittedIsReal
<1>2. WriteInv /\ AnswersTruthful /\ [Next]_vars => AnswersTruthful'
  <2> SUFFICES ASSUME WriteInv, AnswersTruthful, [Next]_vars PROVE AnswersTruthful'
    OBVIOUS
  <2>1. TypeOK /\ CountsAgree /\ ClaimsAgree
    BY DEF WriteInv
  <2>2. doc' \in seen'
    BY <2>1, SeenGrows DEF AnswersTruthful
  <2>3. \A w \in Writes, n \in Sends : Truthful(w, req[w][n].answer)'
    BY <2>1, RequestsTruthful
  <2>4. \A k \in Keys : recorded'[k] # NoRecord => Truthful(recorded[k].by, recorded[k].answer)'
    BY <2>1, RecordsTruthful
  <2>5. CommittedIsReal'
    BY <2>1, CommitsReal DEF CommittedIsReal
  <2>6. QED
    BY <2>2, <2>3, <2>4, <2>5 DEF AnswersTruthful
<1>3. AnswersTruthful => CommittedIsReal
  BY DEF AnswersTruthful
<1>4. QED
  BY <1>1, <1>2, <1>3, Invariance, PTL DEF Spec
=============================================================================
