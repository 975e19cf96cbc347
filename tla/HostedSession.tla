--------------------------- MODULE HostedSession ---------------------------
(***************************************************************************)
(* The sign-in session of the command line for one hosted origin and       *)
(* audience (packages/cli/src/hosted-auth/session.ts, loopback.ts).        *)
(*                                                                         *)
(* Three pieces of local state are shared by all the commands that run on  *)
(* one machine: session.json with the access token, the refresh token in a *)
(* credential store, and pending.json with a device code that a person has *)
(* still to confirm.  Every command that changes one of them holds the     *)
(* session's lock (FsLock).  The issuer rotates the refresh token on every *)
(* use; a spent token is accepted again for a short leeway, and after that *)
(* its use revokes the whole family.                                       *)
(*                                                                         *)
(* A token is its family, one per sign-in, and its generation in it.  Time *)
(* appears as four events: an access token nears its expiry (Age), the     *)
(* leeway of the last rotation is over (LeewayEnds), the polling interval  *)
(* has passed (Interval), a device code expires (CodeExpires).             *)
(***************************************************************************)
EXTENDS Naturals, Sequences, FiniteSets

CONSTANTS
    Procs,       \* the processes that run commands
    NoProc, NoSession, NoToken, NoPending,
    MaxFaults,   \* lost answers, failing stores and files, crashes, refusals
    MaxCalls,    \* background pulls, logouts and loopback logins
    MaxAges      \* how often an access token nears its expiry

ASSUME SessionAssumption ==
    /\ NoProc \notin Procs
    /\ MaxFaults \in Nat /\ MaxCalls \in Nat /\ MaxAges \in Nat

\* An absent file or token is none of those there may be.
ASSUME AbsenceAssumption ==
    /\ NoSession \notin [fam : Nat, gen : Nat, fresh : BOOLEAN]
    /\ NoToken \notin [fam : Nat, gen : Nat]
    /\ NoPending \notin {"waiting", "due"}

VARIABLES
    cmd,         \* what each process runs, where it is, and what it remembers:
                 \* the refresh token in hand, the refresh requests sent, and
                 \* whether the leeway is still open since the first of them
    lock,        \* who holds the session lock
    session,     \* session.json
    store,       \* the credential store's entry
    pending,     \* pending.json
    code,        \* the issuer's view of the latest device code
    fam,         \* the issuer's token families
    late,        \* refresh requests nobody waits for any more
    faults, calls, ages,
    lossy,       \* history: families with an answer that was never saved
    adrift,      \* history: families a fault may have cut loose
    loggedOut,   \* history: a logout ended and no sign-in was begun since
    early,       \* history: the loopback logins it found under way
    outrun       \* history: one of these has redeemed its code since

issuer  == <<code, fam, late>>
bounds  == <<faults, calls, ages>>
parting == <<loggedOut, early, outrun>>
history == <<lossy, adrift, parting>>
vars    == <<cmd, lock, session, store, pending, issuer, bounds, history>>

Kinds  == {"command", "background", "logout", "loopback"}
Tokens == [fam : Nat, gen : Nat]

Fresh == session # NoSession /\ session.fresh

\* A token set of a new family is a sign-in's, any later one a refresh's.
NewSignIn(t) == t.gen = 1

NewFamily == [cur |-> 1, spent |-> 1, alive |-> TRUE, reused |-> FALSE]

Running(l, k) == [pc |-> l, kind |-> k, hand |-> NoToken, tries |-> 0, inTime |-> FALSE]

Init ==
    /\ cmd = [p \in Procs |-> Running("idle", "command")]
    /\ lock = NoProc
    /\ session = NoSession /\ store = NoToken /\ pending = NoPending
    /\ code = "none" /\ fam = <<>> /\ late = {}
    /\ faults = 0 /\ calls = 0 /\ ages = 0
    /\ lossy = {} /\ adrift = {}
    /\ loggedOut = FALSE /\ early = {} /\ outrun = FALSE

-----------------------------------------------------------------------------
(* Control: where a command goes next, and how it ends.                    *)

Goto(p, l) == cmd' = [cmd EXCEPT ![p].pc = l] /\ UNCHANGED lock

\* The same, with token t in hand.
GotoWith(p, l, t) == cmd' = [cmd EXCEPT ![p].pc = l, ![p].hand = t] /\ UNCHANGED lock

\* The body returns or throws; withCliFilesystemMutationLock releases.
End(p) ==
    /\ cmd' = [cmd EXCEPT ![p] = Running("idle", "command")]
    /\ lock' = IF lock = p THEN NoProc ELSE lock

Fault == faults < MaxFaults /\ faults' = faults + 1 /\ UNCHANGED <<calls, ages>>

\* A command that has to look under the lock; one that finds a fresh access
\* token in session.json returns it without a lock and changes nothing.  A
\* loopback login shows its link and waits for the browser first, unlocked.
Begin(p, k) ==
    /\ cmd[p].pc = "idle"
    /\ k \in {"command", "background"} => ~Fresh
    /\ \/ k = "command" /\ UNCHANGED calls
       \/ k # "command" /\ calls < MaxCalls /\ calls' = calls + 1
    /\ cmd' = [cmd EXCEPT ![p] = Running(IF k = "loopback" THEN "browse" ELSE "want", k)]
    /\ early' = early \ {p}
    /\ UNCHANGED <<lock, session, store, pending, issuer, faults, ages, lossy, adrift, loggedOut, outrun>>

\* The browser comes back with a code, or with an error, or never does.
Callback(p) ==
    /\ cmd[p].pc = "browse"
    /\ Goto(p, "want") \/ End(p)
    /\ UNCHANGED <<session, store, pending, issuer, bounds, history>>

Entry(k) == CASE k = "logout" -> "leave" [] k = "loopback" -> "exchange" [] OTHER -> "look"

\* Mutant: no lock, two commands enter at once.
AcquireAny(p) ==
    /\ cmd[p].pc = "want"
    /\ lock' = p
    /\ cmd' = [cmd EXCEPT ![p].pc = Entry(cmd[p].kind)]
    /\ UNCHANGED <<session, store, pending, issuer, bounds, history>>

Acquire(p) ==
    /\ cmd[p].pc = "want" /\ lock = NoProc
    /\ lock' = p
    /\ cmd' = [cmd EXCEPT ![p].pc = Entry(cmd[p].kind)]
    /\ UNCHANGED <<session, store, pending, issuer, bounds, history>>

\* The wait for the lock is over: TRANSIENT, nothing changed.
Busy(p) ==
    /\ cmd[p].pc = "want" /\ lock \notin {NoProc, p}
    /\ End(p)
    /\ UNCHANGED <<session, store, pending, issuer, bounds, history>>

-----------------------------------------------------------------------------
(* Refresh.                                                                *)

\* The command's nth refresh request, with token t; the leeway that counts is
\* the one still open at the first.
Request(p, t, n) ==
    /\ cmd' = [cmd EXCEPT ![p] = [pc |-> "sent", kind |-> cmd[p].kind, hand |-> t,
                                  tries |-> n, inTime |-> TRUE]]
    /\ UNCHANGED lock

\* ensureHostedAccessToken under the lock: the session is read again.
Look(p) ==
    /\ cmd[p].pc = "look"
    /\ UNCHANGED <<session, store, pending, issuer, history>>
    /\ \/ /\ \/ Fresh
             \/ cmd[p].kind = "background" /\ session = NoSession
             \/ cmd[p].kind = "background" /\ store = NoToken
          /\ End(p) /\ UNCHANGED <<bounds>>
       \/ /\ ~Fresh /\ cmd[p].kind = "command"
          /\ \/ session = NoSession /\ Goto(p, "signin")
             \/ session # NoSession /\ store = NoToken /\ Goto(p, "clear")
          /\ UNCHANGED <<bounds>>
       \/ /\ ~Fresh /\ session # NoSession /\ store # NoToken
          /\ Request(p, store, 1) /\ UNCHANGED bounds
       \/ /\ ~Fresh /\ session # NoSession
          /\ Fault /\ End(p) 

\* The issuer on a refresh with token t: a rotation, or a refusal that ends
\* the family when t was spent longer ago than the leeway.
Accepts(t) == fam[t.fam].alive /\ t.gen >= fam[t.fam].spent
Rotated(t) == [fam EXCEPT ![t.fam].cur = @ + 1]
Refused(t) == [fam EXCEPT ![t.fam].alive = FALSE, ![t.fam].reused = @ \/ fam[t.fam].alive]

\* What the command makes of invalid_grant.
Rejected(p) ==
    \/ cmd[p].kind = "background" /\ End(p)
    \/ cmd[p].kind # "background" /\ Goto(p, "clear")

RefreshAnswer(p) ==
    /\ cmd[p].pc = "sent"
    /\ \/ /\ Accepts(cmd[p].hand)
          /\ fam' = Rotated(cmd[p].hand)
          /\ GotoWith(p, "save", [cmd[p].hand EXCEPT !.gen = fam[cmd[p].hand.fam].cur + 1])
       \/ /\ ~Accepts(cmd[p].hand)
          /\ fam' = Refused(cmd[p].hand)
          /\ Rejected(p)
    /\ UNCHANGED <<session, store, pending, code, late, bounds, history>>

\* Rate limit, or any other refusal than invalid_grant: the session stays.
RefreshError(p) ==
    /\ cmd[p].pc = "sent"
    /\ Fault /\ End(p)
    /\ UNCHANGED <<session, store, pending, issuer, history>>

\* No answer in time, or a 5xx: the request may still be carried out.
RefreshLost(p) ==
    /\ cmd[p].pc = "sent"
    /\ Fault
    /\ late' = late \union {cmd[p].hand}
    /\ lossy' = lossy \union {cmd[p].hand.fam}
    /\ Goto(p, "retry")
    /\ UNCHANGED <<session, store, pending, code, fam, adrift, parting>>

\* Mutant: a refresh without an answer is taken for a refusal.
RetryGivesUp(p) ==
    /\ cmd[p].pc = "retry"
    /\ Goto(p, "clear")
    /\ UNCHANGED <<session, store, pending, issuer, history, bounds>>

Retry(p) ==
    /\ cmd[p].pc = "retry"
    /\ UNCHANGED <<session, store, pending, issuer, history>>
    /\ \/ /\ cmd[p].tries = 1 /\ cmd[p].inTime
          /\ Request(p, IF store = NoToken THEN cmd[p].hand ELSE store, 2)
          /\ UNCHANGED bounds
       \/ /\ cmd[p].tries = 1 /\ cmd[p].inTime
          /\ Fault /\ End(p) 
       \/ /\ ~(cmd[p].tries = 1 /\ cmd[p].inTime)
          /\ End(p) /\ UNCHANGED bounds

-----------------------------------------------------------------------------
(* Saving what the issuer granted (persistTokens, completeDeviceSignIn).   *)

\* Mutant: session.json is written before the refresh token.
SaveCacheFirst(p) ==
    /\ cmd[p].pc = "save"
    /\ session' = [fam |-> cmd[p].hand.fam, gen |-> cmd[p].hand.gen, fresh |-> TRUE]
    /\ Goto(p, "record")
    /\ UNCHANGED <<store, pending, issuer, bounds, history>>

Save(p) ==
    /\ cmd[p].pc = "save"
    /\ store' = cmd[p].hand
    /\ Goto(p, "record")
    /\ UNCHANGED <<session, pending, issuer, bounds, history>>

\* Mutant: a device sign-in that cannot be saved just throws.
UnsavedThrows(p) == End(p)

\* A failed save of a device sign-in gives the new tokens back; a refresh and
\* a loopback login throw.
Unsaved(p) ==
    \/ NewSignIn(cmd[p].hand) /\ cmd[p].kind = "command" /\ Goto(p, "revoke")
    \/ ~(NewSignIn(cmd[p].hand) /\ cmd[p].kind = "command") /\ End(p)

\* The store's tool fails or is killed at its timeout: it may have written.
SaveFails(p) ==
    /\ cmd[p].pc = "save"
    /\ Fault
    /\ store' \in {store, cmd[p].hand}
    /\ Unsaved(p)
    /\ lossy' = lossy \union {cmd[p].hand.fam}
    /\ adrift' = IF cmd[p].kind = "loopback" THEN adrift \union {cmd[p].hand.fam} ELSE adrift
    /\ UNCHANGED <<session, pending, issuer, parting>>

Record(p) ==
    /\ cmd[p].pc = "record"
    /\ session' = [fam |-> cmd[p].hand.fam, gen |-> cmd[p].hand.gen, fresh |-> TRUE]
    /\ \/ NewSignIn(cmd[p].hand) /\ Goto(p, "default")
       \/ ~NewSignIn(cmd[p].hand) /\ End(p)
    /\ UNCHANGED <<store, pending, issuer, bounds, history>>

RecordFails(p) ==
    /\ cmd[p].pc = "record"
    /\ Fault
    /\ Unsaved(p)
    /\ adrift' = IF cmd[p].kind = "loopback" THEN adrift \union {cmd[p].hand.fam} ELSE adrift
    /\ UNCHANGED <<session, store, pending, issuer, lossy, parting>>

\* The first sign-in also names the default host.
DefaultHost(p) ==
    /\ cmd[p].pc = "default"
    /\ \/ Goto(p, "forget") /\ UNCHANGED bounds
       \/ Fault /\ Unsaved(p)
    /\ UNCHANGED <<session, store, pending, issuer, history>>

Revoked(t) == [fam EXCEPT ![t.fam].alive = FALSE]

\* completeDeviceSignIn: the tokens that could not be kept are revoked.
RevokeNew(p) ==
    /\ cmd[p].pc = "revoke"
    /\ \/ fam' = Revoked(cmd[p].hand) /\ UNCHANGED <<bounds, adrift>>
       \/ /\ Fault /\ fam' \in {fam, Revoked(cmd[p].hand)}
          /\ adrift' = adrift \union {cmd[p].hand.fam}
    /\ Goto(p, "forget")
    /\ UNCHANGED <<session, store, pending, code, late, lossy, parting>>

\* A redeemed code is spent: its record goes, saved or not.
Forget(p) ==
    /\ cmd[p].pc = "forget"
    /\ pending' = NoPending
    /\ End(p)
    /\ UNCHANGED <<session, store, issuer, bounds, history>>

-----------------------------------------------------------------------------
(* Giving a session up (clearSession, logoutHosted).                       *)

ClearStore(p) ==
    /\ cmd[p].pc = "clear"
    /\ \/ store' = NoToken /\ UNCHANGED bounds
       \/ Fault /\ UNCHANGED store
    /\ Goto(p, "unfile")
    /\ UNCHANGED <<session, pending, issuer, history>>

\* A logout ends; it does not know of a loopback login in its browser.
Parted ==
    /\ loggedOut' = TRUE /\ outrun' = FALSE
    /\ early' = {q \in Procs : cmd[q].kind = "loopback"}

Unfile(p) ==
    /\ cmd[p].pc = "unfile"
    /\ session' = NoSession
    /\ \/ cmd[p].kind = "logout" /\ End(p) /\ Parted
       \/ cmd[p].kind # "logout" /\ Goto(p, "signin") /\ UNCHANGED parting
    /\ UNCHANGED <<store, pending, issuer, bounds, lossy, adrift>>

\* Mutant: logout leaves the device code that waits for its confirmation.
LeaveKeepsPending(p) ==
    /\ cmd[p].pc = "leave"
    /\ \/ session = NoSession /\ End(p) /\ Parted
       \/ session # NoSession /\ Goto(p, IF store = NoToken THEN "clear" ELSE "revokeOld")
          /\ UNCHANGED parting
    /\ UNCHANGED <<session, store, pending, issuer, bounds, lossy, adrift>>

\* logoutHosted: the pending sign-in goes first, then the session.
Leave(p) ==
    /\ cmd[p].pc = "leave"
    /\ pending' = NoPending
    /\ \/ session = NoSession /\ End(p) /\ Parted /\ UNCHANGED <<bounds, adrift>>
       \/ /\ session # NoSession
          /\ \/ store = NoToken /\ Goto(p, "clear") /\ UNCHANGED <<bounds, adrift>>
             \/ store # NoToken /\ Goto(p, "revokeOld") /\ UNCHANGED <<bounds, adrift>>
             \/ Fault /\ Goto(p, "unfile") /\ adrift' = adrift \union {session.fam}
          /\ UNCHANGED parting
    /\ UNCHANGED <<session, store, issuer, lossy>>

\* The stored token is revoked, by logout or because a login replaces it.
RevokeOld(p) ==
    /\ cmd[p].pc = "revokeOld"
    /\ \/ fam' = Revoked(store) /\ UNCHANGED <<bounds, adrift>>
       \/ /\ Fault /\ fam' \in {fam, Revoked(store)}
          /\ adrift' = adrift \union {store.fam}
    /\ Goto(p, IF cmd[p].kind = "logout" THEN "clear" ELSE "save")
    /\ UNCHANGED <<session, store, pending, code, late, lossy, parting>>

-----------------------------------------------------------------------------
(* Signing in.                                                             *)

\* advanceDeviceSignIn: at most one poll per command.
SignIn(p) ==
    /\ cmd[p].pc = "signin"
    /\ \/ pending = NoPending /\ Goto(p, "device") /\ UNCHANGED pending
       \/ code = "expired" /\ pending # NoPending /\ pending' = NoPending /\ Goto(p, "device")
       \/ pending = "waiting" /\ code # "expired" /\ End(p) /\ UNCHANGED pending
       \/ pending = "due" /\ Goto(p, "poll") /\ UNCHANGED pending
    /\ UNCHANGED <<session, store, issuer, bounds, history>>

\* A sign-in begun after the last logout: that logout is history.
SignedInSince == loggedOut' = FALSE /\ early' = {} /\ outrun' = FALSE

\* Tokens of a new family reach the process.
Granted(p, l) ==
    /\ fam' = Append(fam, NewFamily)
    /\ GotoWith(p, l, [fam |-> Len(fam) + 1, gen |-> 1])

\* Mutant: a code the issuer no longer knows is kept and polled again.
PollKeepsDeadCode(p) ==
    /\ cmd[p].pc = "poll"
    /\ \/ /\ code = "confirmed" /\ code' = "redeemed"
          /\ Granted(p, "save") /\ UNCHANGED pending
       \/ /\ code # "confirmed"
          /\ pending' = "waiting" /\ End(p) /\ UNCHANGED <<code, fam>>
    /\ UNCHANGED <<session, store, late, bounds, history>>

Poll(p) ==
    /\ cmd[p].pc = "poll"
    /\ \/ /\ code = "confirmed" /\ code' = "redeemed"
          /\ Granted(p, "save") /\ UNCHANGED pending
       \/ /\ code = "open"
          /\ pending' = "waiting" /\ End(p) /\ UNCHANGED <<code, fam>>
       \/ /\ code \in {"denied", "expired", "redeemed"}
          /\ pending' = NoPending /\ Goto(p, "device") /\ UNCHANGED <<code, fam>>
    /\ UNCHANGED <<session, store, late, bounds, history>>

\* A poll without an answer may have redeemed the code; one that is refused
\* for another reason ends the sign-in.
PollFails(p) ==
    /\ cmd[p].pc = "poll"
    /\ Fault /\ End(p)
    /\ \/ /\ pending' = "waiting"
          /\ code' \in IF code = "confirmed" THEN {code, "redeemed"} ELSE {code}
       \/ pending' = NoPending /\ UNCHANGED code
    /\ UNCHANGED <<session, store, fam, late, history>>

\* startDeviceAuthorization: probe, discovery and device request, then the
\* record of the code the person is asked to confirm.
Device(p) ==
    /\ cmd[p].pc = "device"
    /\ \/ /\ code' = "open" /\ pending' = "waiting" /\ SignedInSince
          /\ UNCHANGED bounds
       \/ Fault /\ UNCHANGED <<code, pending, parting>>
    /\ End(p)
    /\ UNCHANGED <<session, store, fam, late, lossy, adrift>>

\* The loopback login redeems its code under the lock and replaces whatever
\* session there is.
Exchange(p) ==
    /\ cmd[p].pc = "exchange"
    /\ \/ /\ \/ p \in early /\ outrun' = TRUE /\ UNCHANGED <<loggedOut, early>>
             \/ p \notin early /\ SignedInSince
          /\ \/ /\ session # NoSession /\ store # NoToken
                /\ Granted(p, "revokeOld") /\ UNCHANGED <<bounds, adrift>>
             \/ /\ session = NoSession \/ store = NoToken
                /\ Granted(p, "save") /\ UNCHANGED <<bounds, adrift>>
             \/ /\ session # NoSession /\ store # NoToken
                /\ Fault /\ Granted(p, "save") /\ adrift' = adrift \union {store.fam}
       \/ Fault /\ End(p) /\ UNCHANGED <<fam, adrift, parting>>
    /\ UNCHANGED <<session, store, pending, code, late, lossy>>

-----------------------------------------------------------------------------
(* The world around.                                                       *)

\* A process dies; its lock is reclaimed (FsLock), its request goes on.
Crash(p) ==
    /\ cmd[p].pc # "idle"
    /\ Fault /\ End(p)
    /\ late' = IF cmd[p].pc = "sent" THEN late \union {cmd[p].hand} ELSE late
    /\ lossy' = IF cmd[p].pc \in {"sent", "save"} THEN lossy \union {cmd[p].hand.fam} ELSE lossy
    /\ adrift' = IF cmd[p].hand # NoToken /\ NewSignIn(cmd[p].hand)
                    /\ cmd[p].pc \in {"save", "record", "revoke", "revokeOld"}
                 THEN adrift \union {cmd[p].hand.fam} ELSE adrift
    /\ UNCHANGED <<session, store, pending, code, fam, parting>>

LateArrive(t) ==
    /\ t \in late
    /\ late' = late \ {t}
    /\ fam' = IF Accepts(t) THEN Rotated(t) ELSE Refused(t)
    /\ UNCHANGED <<cmd, lock, session, store, pending, code, bounds, history>>

LeewayEnds ==
    /\ \/ \E f \in DOMAIN fam : fam[f].spent < fam[f].cur
       \/ \E p \in Procs : cmd[p].inTime
    /\ fam' = [f \in DOMAIN fam |-> [fam[f] EXCEPT !.spent = fam[f].cur]]
    /\ cmd' = [p \in Procs |-> [cmd[p] EXCEPT !.inTime = FALSE]]
    /\ UNCHANGED <<lock, session, store, pending, code, late, bounds, history>>

Age ==
    /\ Fresh /\ ages < MaxAges
    /\ ages' = ages + 1
    /\ session' = [session EXCEPT !.fresh = FALSE]
    /\ UNCHANGED <<cmd, lock, store, pending, issuer, faults, calls, history>>

Interval ==
    /\ pending = "waiting"
    /\ pending' = "due"
    /\ UNCHANGED <<cmd, lock, session, store, issuer, bounds, history>>

CodeExpires ==
    /\ code \in {"open", "confirmed"} /\ code' = "expired"
    /\ Fault
    /\ UNCHANGED <<cmd, lock, session, store, pending, fam, late, history>>

Confirm ==
    /\ code = "open" /\ code' = "confirmed"
    /\ UNCHANGED <<cmd, lock, session, store, pending, fam, late, bounds, history>>

Deny ==
    /\ code = "open" /\ code' = "denied"
    /\ Fault
    /\ UNCHANGED <<cmd, lock, session, store, pending, fam, late, history>>

\* The issuer ends a family: idle too long, or an administrator.
FamilyEnds(f) ==
    /\ f \in DOMAIN fam /\ fam[f].alive
    /\ Fault
    /\ fam' = [fam EXCEPT ![f].alive = FALSE]
    /\ UNCHANGED <<cmd, lock, session, store, pending, code, late, history>>

-----------------------------------------------------------------------------

Step(p) ==
    \/ Look(p) \/ RefreshAnswer(p) \/ RefreshError(p) \/ RefreshLost(p) \/ Retry(p)
    \/ Save(p) \/ SaveFails(p) \/ Record(p) \/ RecordFails(p) \/ DefaultHost(p)
    \/ RevokeNew(p) \/ Forget(p)
    \/ ClearStore(p) \/ Unfile(p) \/ Leave(p) \/ RevokeOld(p)
    \/ SignIn(p) \/ Poll(p) \/ PollFails(p) \/ Device(p) \/ Exchange(p)

Next ==
    \/ \E p \in Procs :
          \/ \E k \in Kinds : Begin(p, k)
          \/ Callback(p) \/ Acquire(p) \/ Busy(p) \/ Step(p) \/ Crash(p)
    \/ \E t \in late : LateArrive(t)
    \/ \E f \in DOMAIN fam : FamilyEnds(f)
    \/ LeewayEnds \/ Age \/ Interval \/ CodeExpires \/ Confirm \/ Deny

\* A command that was started runs; a loopback login's timer ends its wait; a
\* free lock is taken by somebody who waits for it; the person re-runs the
\* command and confirms the code.
Fairness ==
    /\ \A p \in Procs : WF_vars(Step(p)) /\ WF_vars(Callback(p))
    /\ WF_vars(\E p \in Procs : Acquire(p))
    /\ WF_vars(\E p \in Procs : Begin(p, "command"))
    /\ WF_vars(Interval)
    /\ WF_vars(Confirm)

Spec == Init /\ [][Next]_vars /\ Fairness

-----------------------------------------------------------------------------

(* No command of this machine trips the issuer's reuse detection, whatever *)
(* two commands do at once, unless an answer that carried a rotated token  *)
(* was lost, could not be saved or died with its process.                  *)
ReuseOnlyAfterLoss ==
    \A f \in DOMAIN fam : fam[f].reused => f \in lossy

(* "a reader never sees a cache ahead of its refresh token": session.json  *)
(* is read without a lock, and after a crash at any point, and the stored  *)
(* refresh token is always as new as the access token beside it.           *)
CacheNeverAhead ==
    session # NoSession /\ store # NoToken =>
        \/ session.fam < store.fam
        \/ session.fam = store.fam /\ session.gen <= store.gen

(* A logout is final for everything the code means it to end: neither a    *)
(* command that was refreshing at the same time nor a device code that was *)
(* waiting to be redeemed brings a session back.  A device code requested  *)
(* after the logout does, and so does a loopback login: one begun since,   *)
(* and also one that the logout found in its browser or at the lock, which *)
(* logoutHosted cannot see (outrun).                                       *)
LogoutFinal == loggedOut => session = NoSession \/ outrun

(* Every family the issuer still honours can be reached from the store or  *)
(* is in the hands of a live command that is about to store or revoke it,  *)
(* except where a crash, an unanswered revocation, an unreachable store or *)
(* a failed loopback login cut it loose.                                   *)
NoFamilyAdrift ==
    \A f \in DOMAIN fam : fam[f].alive /\ f \notin adrift =>
        \/ store # NoToken /\ store.fam = f
        \/ \E p \in Procs : /\ cmd[p].pc \in {"save", "record", "revoke", "revokeOld"}
                            /\ cmd[p].hand # NoToken /\ cmd[p].hand.fam = f

(* A session is given up only by a logout, or when the issuer has ended    *)
(* the family of the stored refresh token, or when that token was gone     *)
(* already: a lost answer, a rate limit, an unreachable store or           *)
(* background work never costs it.                                         *)
GivenUpOnlyWhenDead ==
    [][ /\ store # NoToken /\ store' = NoToken =>
             (\E p \in Procs : cmd[p].pc = "clear" /\ cmd[p].kind = "logout") \/ ~fam[store.fam].alive
        /\ session # NoSession /\ session' = NoSession =>
             \/ \E p \in Procs : cmd[p].pc = "unfile" /\ cmd[p].kind = "logout"
             \/ store = NoToken
             \/ ~fam[store.fam].alive ]_vars

(* Re-running the command signs in: once faults and logouts stop, and the  *)
(* person confirms the code that is shown, there is a fresh access token.  *)
(* No dead code is polled for ever and no lock is left behind.             *)
EventuallySignedIn == <>[]Fresh

-----------------------------------------------------------------------------
(* The inductive invariant behind the safety properties *)

Labels == {"idle", "browse", "want", "look", "sent", "retry", "save", "record", "default",
           "revoke", "forget", "clear", "unfile", "signin", "poll", "device",
           "leave", "revokeOld", "exchange"}

Codes == {"none", "open", "confirmed", "denied", "expired", "redeemed"}

Commands == [pc : Labels, kind : Kinds, hand : Tokens \union {NoToken},
             tries : 0..2, inTime : BOOLEAN]

Families == [cur : Nat, spent : Nat, alive : BOOLEAN, reused : BOOLEAN]

TypeOK ==
    /\ cmd \in [Procs -> Commands]
    /\ lock \in Procs \union {NoProc}
    /\ session \in [fam : Nat, gen : Nat, fresh : BOOLEAN] \union {NoSession}
    /\ store \in Tokens \union {NoToken}
    /\ pending \in {NoPending, "waiting", "due"}
    /\ code \in Codes
    /\ fam \in Seq(Families)
    /\ late \subseteq Tokens
    /\ faults \in Nat /\ calls \in Nat /\ ages \in Nat
    /\ lossy \subseteq Nat /\ adrift \subseteq Nat
    /\ loggedOut \in BOOLEAN /\ early \subseteq Procs /\ outrun \in BOOLEAN

At(p, S) == cmd[p].pc \in S

\* A command works on the session exactly while it holds the lock.
Excluded == \A p \in Procs : lock = p <=> ~At(p, {"idle", "browse", "want"})

\* The issuer has given out t.
Issued(t) == t.fam \in DOMAIN fam /\ 1 <= t.gen /\ t.gen <= fam[t.fam].cur

TokensIssued ==
    /\ \A f \in DOMAIN fam : fam[f].spent <= fam[f].cur
    /\ store # NoToken => Issued(store)
    /\ session # NoSession => Issued(session)
    /\ \A t \in late : Issued(t)
    /\ \A p \in Procs : cmd[p].hand # NoToken => Issued(cmd[p].hand)

\* Which station a kind of command can be at, and what it may hold there.
Stations(k) ==
    CASE k = "logout"     -> {"want", "leave", "revokeOld", "clear", "unfile"}
      [] k = "loopback"   -> {"browse", "want", "exchange", "revokeOld", "save", "record",
                              "default", "forget"}
      [] k = "background" -> {"want", "look", "sent", "retry", "save", "record"}
      [] OTHER            -> {"idle", "want", "look", "sent", "retry", "save", "record",
                              "default", "revoke", "forget", "clear", "unfile",
                              "signin", "poll", "device"}

StationKept(p) ==
    /\ At(p, Stations(cmd[p].kind))
    /\ cmd[p].kind = "logout" => cmd[p].hand = NoToken
    /\ At(p, {"save", "record", "default", "revoke"}) => cmd[p].hand # NoToken
    /\ At(p, {"save", "record"}) /\ cmd[p].kind = "background" => ~NewSignIn(cmd[p].hand)
    /\ At(p, {"save", "record", "revokeOld"}) /\ cmd[p].kind = "loopback" =>
          cmd[p].hand # NoToken /\ NewSignIn(cmd[p].hand)
    /\ At(p, {"default", "revoke"}) => NewSignIn(cmd[p].hand)
    /\ At(p, {"revokeOld"}) => session # NoSession /\ store # NoToken
    /\ At(p, {"signin", "poll", "device"}) => session = NoSession

StationsKept == \A p \in Procs : StationKept(p)

\* A token in hand is the stored one, or one of its family that replaces it.
HandStored(p) ==
    /\ At(p, {"sent", "retry", "record", "default"}) => store # NoToken /\ cmd[p].hand = store
    /\ At(p, {"save"}) /\ ~NewSignIn(cmd[p].hand) =>
          store # NoToken /\ store.fam = cmd[p].hand.fam

HandIsStored == \A p \in Procs : HandStored(p)

\* session.json is not newer than t.
NotAhead(t) ==
    session # NoSession =>
        \/ session.fam < t.fam
        \/ session.fam = t.fam /\ session.gen <= t.gen

\* Nor than a token that is about to be stored.
CacheBehind ==
    /\ store # NoToken => NotAhead(store)
    /\ \A p \in Procs : At(p, {"save", "revokeOld"}) /\ cmd[p].hand # NoToken =>
          NotAhead(cmd[p].hand)

\* The stored token's family is ended, or a fault was in the way of that.
Dead(t) == ~fam[t.fam].alive
Loose(t) == Dead(t) \/ t.fam \in adrift

Settling(p) ==
    /\ At(p, {"record", "revoke"})
    /\ cmd[p].hand # NoToken /\ NewSignIn(cmd[p].hand)

\* A stored token is given up or replaced by another family's only when it is
\* loose.
Expends(p) ==
    /\ At(p, {"save"}) /\ NewSignIn(cmd[p].hand) => Loose(store)
    /\ At(p, {"clear", "unfile"}) => Loose(store)
    /\ At(p, {"clear", "unfile"}) /\ cmd[p].kind # "logout" => Dead(store)

\* A token that session.json does not go with is loose, or settling.
Unmatched == session = NoSession \/ session.fam # store.fam

StoreExpendable ==
    store # NoToken =>
        /\ \A p \in Procs : Expends(p)
        /\ Unmatched => \/ Loose(store)
                        \/ \E p \in Procs : Settling(p) /\ cmd[p].hand.fam = store.fam

\* After a logout nothing is under way that could store a token, unless a
\* loopback login has outrun it, and no device code is left to poll with.
LogoutQuiet ==
    /\ loggedOut /\ ~outrun =>
          /\ session = NoSession /\ pending = NoPending
          /\ \A p \in Procs : At(p, {"idle", "browse", "want", "look", "signin", "device", "leave", "exchange"})
    /\ \A p \in Procs : cmd[p].kind = "logout" /\ At(p, {"revokeOld", "clear", "unfile"}) =>
          pending = NoPending

\* A family that lost no answer was rotated last for the stored token, or for
\* the one that is being saved.
NewestKept ==
    /\ \A t \in late : t.fam \in lossy
    /\ store # NoToken /\ store.fam \notin lossy =>
          \/ store.gen = fam[store.fam].cur
          \/ \E p \in Procs : /\ At(p, {"save"})
                                /\ cmd[p].hand # NoToken /\ cmd[p].hand.fam = store.fam
    /\ \A p \in Procs :
          /\ At(p, {"save", "revokeOld"}) /\ cmd[p].hand # NoToken
          /\ cmd[p].hand.fam \notin lossy
          => cmd[p].hand.gen = fam[cmd[p].hand.fam].cur

SessionInv ==
    /\ TypeOK /\ Excluded /\ TokensIssued /\ StationsKept /\ HandIsStored
    /\ CacheBehind /\ StoreExpendable /\ LogoutQuiet /\ NewestKept
    /\ ReuseOnlyAfterLoss /\ NoFamilyAdrift
=============================================================================
