----------------------------- MODULE Approvals ------------------------------
(***************************************************************************)
(* The approval surface of fakehost/session.go.  A session's loop raises an*)
(* approval; a device's approval.decide and the fail-closed timer both try *)
(* to resolve it.  Every handler runs under h.mu, but a timer's callback   *)
(* waits for that lock in a goroutine of its own: it may run after Stop    *)
(* came too late, and after the session that armed it has been aborted.    *)
(***************************************************************************)
EXTENDS Naturals, Sequences, Functions

CONSTANTS
  Approval,     \* approval ids, taken in any order
  MaxSession,   \* bound on established sessions
  MaxRequest    \* bound on the device's requests

ASSUME ApprovalAssumption == {MaxSession, MaxRequest} \subseteq Nat

VARIABLES
  session,    \* number of the current session; up: h.sess is established
  attached,   \* deviceRecord.attached
  loopTimer,  \* per session: its AfterFunc(ApprovalAfter)
  pending,    \* h.pending
  resolved,   \* h.resolved: set of [id, decision, source]
  timer,      \* per approval: its AfterFunc(ApprovalTimeout)
  requests,   \* rpc.requests on their way to the host
  asked,      \* how many requests the device has sent
  ledger,     \* per approval: what was written about it
  replies,    \* answers and notices that left for the device
  allowed     \* observer: approvals some device has asked to allow

vars == <<session, attached, loopTimer, pending, resolved, timer, requests, asked, ledger, replies,
          allowed>>

\* time.AfterFunc: a timer that has fired has a callback waiting for h.mu.
TimerState == {"unset", "armed", "fired", "done"}

Decision == {"allow_once", "deny"}

\* What a request may carry: "allow_always" is not a remote decision.
Choice == {"allow", "deny", "allow_always"}
NoticeKind == {"approval.request", "approval.resolved", "applied", "already_resolved",
               "unknown_approval", "invalid_params"}

TypeOK ==
  /\ session \in [n : 0..MaxSession, up : BOOLEAN]
  /\ attached \in BOOLEAN
  /\ loopTimer \in [1..MaxSession -> TimerState]
  /\ pending \subseteq Approval
  /\ resolved \subseteq [id : Approval, decision : Decision, source : {"remote", "timeout"}]
  /\ timer \in [Approval -> TimerState]
  /\ requests \in Seq([id : Approval, choice : Choice])
  /\ asked \in 0..MaxRequest
  /\ ledger \in [Approval -> Seq({"granted", "denied"})]
  /\ replies \subseteq [kind : NoticeKind, id : Approval, decision : Decision \cup {"none"}]
  /\ allowed \subseteq Approval

Init ==
  /\ session = [n |-> 0, up |-> FALSE]
  /\ attached = FALSE
  /\ loopTimer = [n \in 1..MaxSession |-> "unset"]
  /\ pending = {}
  /\ resolved = {}
  /\ timer = [i \in Approval |-> "unset"]
  /\ requests = <<>>
  /\ asked = 0
  /\ ledger = [i \in Approval |-> <<>>]
  /\ replies = {}
  /\ allowed = {}

-----------------------------------------------------------------------------
Resolution(i) == CHOOSE r \in resolved : r.id = i
IsResolved(i) == \E r \in resolved : r.id = i

\* sendEnvelope leaves for the device (live or mailbox) unless it is attached
\* without an established session.
Sends == ~attached \/ session.up

Reply(msgs) == replies' = IF Sends THEN replies \cup msgs ELSE replies

Notice(kind, i, decision) == [kind |-> kind, id |-> i, decision |-> decision]

\* The approvals a snapshot lists.
snapshotBody == {Notice("approval.request", i, "none") : i \in pending}

\* sess.confirm verified: snapshot.full with the pending approvals, then startLoops.
SessionUp ==
  /\ ~session.up
  /\ session.n < MaxSession
  /\ session' = [n |-> session.n + 1, up |-> TRUE]
  /\ loopTimer' = [loopTimer EXCEPT ![session.n + 1] = "armed"]
  /\ replies' = replies \cup snapshotBody
  /\ UNCHANGED <<attached, pending, resolved, timer, requests, asked, ledger, allowed>>

\* abortSession; a goroutine then stops the loop's timer, which may fire before that.
AbortSession ==
  /\ session.up
  /\ session' = [session EXCEPT !.up = FALSE]
  /\ \E after \in {"done", "fired"} :
       loopTimer' = [loopTimer EXCEPT ![session.n] = IF @ = "armed" THEN after ELSE @]
  /\ requests' = <<>>
  /\ UNCHANGED <<attached, pending, resolved, timer, asked, ledger, replies, allowed>>

\* A 6.1 presence message.
DevicePresence ==
  /\ attached' = ~attached
  /\ UNCHANGED <<session, loopTimer, pending, resolved, timer, requests, asked, ledger, replies,
                 allowed>>

LoopTimerFires(n) ==
  /\ loopTimer[n] = "armed"
  /\ loopTimer' = [loopTimer EXCEPT ![n] = "fired"]
  /\ UNCHANGED <<session, attached, pending, resolved, timer, requests, asked, ledger, replies,
                 allowed>>

\* Weakened form: the approval is raised without its timer.
ArmTimer_Forgotten(i) == timer' = timer

ArmTimer(i) == timer' = [timer EXCEPT ![i] = "armed"]

\* raiseApproval, possibly for a later session than the one that armed it.
RaiseApproval(n) ==
  /\ loopTimer[n] = "fired"
  /\ loopTimer' = [loopTimer EXCEPT ![n] = "done"]
  /\ \/ /\ session.up
        /\ \E i \in {j \in Approval \ pending : ~IsResolved(j)} :
             /\ pending' = pending \cup {i}
             /\ ArmTimer(i)
             /\ Reply({Notice("approval.request", i, "none")})
     \/ /\ ~session.up
        /\ UNCHANGED <<pending, timer, replies>>
  /\ UNCHANGED <<session, attached, resolved, requests, asked, ledger, allowed>>

-----------------------------------------------------------------------------
\* Weakened form: an approval that was resolved is resolved again.
CanResolve_Repeated(i) == IsResolved(i) \/ i \in pending

\* resolveApproval goes through for a pending approval that is not resolved.
CanResolve(i) == ~IsResolved(i) /\ i \in pending

LedgerEntry(decision) == IF decision = "allow_once" THEN "granted" ELSE "denied"

\* What it then does: stop the timer, move the approval, tell the device, write
\* the ledger.  A timer that has fired cannot be stopped.
resolveApproval(i, decision, source) ==
  /\ pending' = pending \ {i}
  /\ resolved' = resolved \cup {[id |-> i, decision |-> decision, source |-> source]}
  /\ timer' = [timer EXCEPT ![i] = IF @ = "armed" \/ source = "timeout" THEN "done" ELSE @]
  /\ ledger' = [ledger EXCEPT ![i] = Append(@, LedgerEntry(decision))]

ApprovalTimerFires(i) ==
  /\ timer[i] = "armed"
  /\ timer' = [timer EXCEPT ![i] = "fired"]
  /\ UNCHANGED <<session, attached, loopTimer, pending, resolved, requests, asked, ledger, replies,
                 allowed>>

\* Absence of consent is denial.
TimeoutDecision == "deny"

\* The timer's callback gets the lock.
ApprovalTimeout(i) ==
  /\ timer[i] = "fired"
  /\ \/ /\ CanResolve(i)
        /\ resolveApproval(i, TimeoutDecision, "timeout")
        /\ Reply({Notice("approval.resolved", i, TimeoutDecision)})
     \/ /\ ~CanResolve(i)
        /\ timer' = [timer EXCEPT ![i] = "done"]
        /\ UNCHANGED <<pending, resolved, ledger, replies>>
  /\ UNCHANGED <<session, attached, loopTimer, requests, asked, allowed>>

\* The device decides about any id.
DeviceDecides(i, choice) ==
  /\ asked < MaxRequest
  /\ session.up
  /\ asked' = asked + 1
  /\ requests' = Append(requests, [id |-> i, choice |-> choice])
  /\ UNCHANGED <<session, attached, loopTimer, pending, resolved, timer, ledger, replies, allowed>>

\* Weakened form: every answer repeats what this request asked for.
Answered_Echo(i, decision) == decision

\* The answer to a request that came too late carries the decision that stands.
Answered(i, decision) == Resolution(i).decision

DecisionOf(choice) == IF choice = "allow" THEN "allow_once" ELSE "deny"

\* handleRPC, approval.decide.
HandleDecide ==
  /\ requests # <<>>
  /\ LET i        == Head(requests).id
         choice   == Head(requests).choice
         decision == DecisionOf(choice)
     IN  /\ allowed' = IF choice = "allow" THEN allowed \cup {i} ELSE allowed
         /\ CASE choice \notin {"allow", "deny"} ->
                   /\ Reply({Notice("invalid_params", i, "none")})
                   /\ UNCHANGED <<pending, resolved, timer, ledger>>
              [] choice \in {"allow", "deny"} /\ CanResolve(i) ->
                   /\ resolveApproval(i, decision, "remote")
                   /\ Reply({Notice("approval.resolved", i, decision), Notice("applied", i, decision)})
              [] choice \in {"allow", "deny"} /\ ~CanResolve(i) /\ IsResolved(i) ->
                   /\ Reply({Notice("already_resolved", i, Answered(i, decision))})
                   /\ UNCHANGED <<pending, resolved, timer, ledger>>
              [] OTHER ->
                   /\ Reply({Notice("unknown_approval", i, "none")})
                   /\ UNCHANGED <<pending, resolved, timer, ledger>>
  /\ requests' = Tail(requests)
  /\ UNCHANGED <<session, attached, loopTimer, asked>>

-----------------------------------------------------------------------------
Next ==
  \/ SessionUp \/ AbortSession \/ DevicePresence \/ HandleDecide
  \/ \E n \in 1..MaxSession : LoopTimerFires(n) \/ RaiseApproval(n)
  \/ \E i \in Approval :
       \/ ApprovalTimerFires(i) \/ ApprovalTimeout(i)
       \/ \E choice \in Choice : DeviceDecides(i, choice)

Spec == Init /\ [][Next]_vars

\* A timer that is armed fires and its callback gets the lock.  Nothing is assumed of
\* the device.
FairSpec ==
  /\ Spec
  /\ \A i \in Approval : WF_vars(ApprovalTimerFires(i)) /\ WF_vars(ApprovalTimeout(i))

-----------------------------------------------------------------------------
\* What an observer of the ledger sees of an approval.
Verdict(i) ==
  CASE ledger[i] = <<>> /\ i \notin pending -> "none"
    [] ledger[i] = <<>> /\ i \in pending    -> "open"
    [] Len(ledger[i]) = 1                   -> ledger[i][1]
    [] OTHER                                -> "decided twice"

Decisions == INSTANCE DecideOnce WITH verdict <- [i \in Approval |-> Verdict(i)]

\* resolveApproval (session.go:438) is first-decision-wins: by the ledger, an approval is
\* decided once and for all, whichever of timer, late callback and requests comes
\* first, in whichever session.
FirstDecisionWins == Decisions!Spec

\* session.go:429: consent is never presumed.  What the ledger grants some device asked
\* to allow, and whatever the device was told of a decision the ledger has.
GrantedByConsent ==
  /\ \A i \in Approval : "granted" \in Range(ledger[i]) => i \in allowed
  /\ \A r \in replies : r.decision # "none" => LedgerEntry(r.decision) \in Range(ledger[r.id])

\* Fail-closed (session.go:426): an approval that is raised gets a verdict although no
\* device ever answers and its session is gone.
EveryApprovalDecided ==
  \A i \in Approval : i \in pending ~> Verdict(i) \in {"granted", "denied"}
=============================================================================
