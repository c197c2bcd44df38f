-------------------------- MODULE ApprovalsProofs ---------------------------
(***************************************************************************)
(* Proofs about Approvals, for any set of approvals and any number of      *)
(* sessions and requests: types, consent, and the refinement of DecideOnce.*)
(***************************************************************************)
EXTENDS Approvals, SequenceTheorems, TLAPS

-----------------------------------------------------------------------------
(* What the handlers do to approvals *)

\* Everything that concerns an approval stays as it is; replies about requests may
\* leave for the device.
Untouched == UNCHANGED <<pending, resolved, timer, ledger>>

\* An approval that is neither pending nor resolved is raised.
Raised(i) ==
  /\ i \notin pending /\ ~IsResolved(i)
  /\ pending' = pending \cup {i}
  /\ timer' = [timer EXCEPT ![i] = "armed"]
  /\ UNCHANGED <<resolved, ledger>>

\* A pending approval that is not resolved is resolved.
Settled(i, decision, source) == CanResolve(i) /\ resolveApproval(i, decision, source)

LEMMA DecideCases ==
  ASSUME TypeOK, HandleDecide
  PROVE  \E i \in Approval, choice \in Choice :
           /\ allowed' = IF choice = "allow" THEN allowed \cup {i} ELSE allowed
           /\ requests' = Tail(requests)
           /\ UNCHANGED <<session, attached, loopTimer, asked>>
           /\ \/ /\ Settled(i, DecisionOf(choice), "remote")
                 /\ Reply({Notice("approval.resolved", i, DecisionOf(choice)),
                           Notice("applied", i, DecisionOf(choice))})
              \/ /\ Untouched
                 /\ \/ Reply({Notice("invalid_params", i, "none")})
                    \/ Reply({Notice("unknown_approval", i, "none")})
                    \/ IsResolved(i) /\ Reply({Notice("already_resolved", i, Resolution(i).decision)})
<1> DEFINE i == Head(requests).id
           choice == Head(requests).choice
<1>1. i \in Approval /\ choice \in Choice
  <2>1. Head(requests) \in [id : Approval, choice : Choice]
    <3>1. requests # <<>> /\ requests \in Seq([id : Approval, choice : Choice])
      BY DEF HandleDecide, TypeOK
    <3> QED
      BY <3>1, HeadTailProperties
  <2> QED
    BY <2>1
<1>2. /\ allowed' = IF choice = "allow" THEN allowed \cup {i} ELSE allowed
      /\ requests' = Tail(requests)
      /\ UNCHANGED <<session, attached, loopTimer, asked>>
  BY DEF HandleDecide
<1>3. CASE choice \notin {"allow", "deny"}
  <2>1. Reply({Notice("invalid_params", i, "none")}) /\ Untouched
    BY <1>3 DEF HandleDecide, Untouched
  <2> QED
    BY <1>1, <1>2, <2>1
<1>4. CASE choice \in {"allow", "deny"} /\ CanResolve(i)
  <2>1. /\ Settled(i, DecisionOf(choice), "remote")
        /\ Reply({Notice("approval.resolved", i, DecisionOf(choice)),
                  Notice("applied", i, DecisionOf(choice))})
    BY <1>4 DEF HandleDecide, Settled
  <2> QED
    BY <1>1, <1>2, <2>1
<1>5. CASE choice \in {"allow", "deny"} /\ ~CanResolve(i) /\ IsResolved(i)
  <2>1. Reply({Notice("already_resolved", i, Resolution(i).decision)}) /\ Untouched
    BY <1>5 DEF HandleDecide, Untouched, Answered
  <2> QED
    BY <1>1, <1>2, <1>5, <2>1
<1>6. CASE choice \in {"allow", "deny"} /\ ~CanResolve(i) /\ ~IsResolved(i)
  <2>1. Reply({Notice("unknown_approval", i, "none")}) /\ Untouched
    BY <1>6 DEF HandleDecide, Untouched
  <2> QED
    BY <1>1, <1>2, <2>1
<1> QED
  BY <1>3, <1>4, <1>5, <1>6

-----------------------------------------------------------------------------
(* Type correctness *)

Message == [kind : NoticeKind, id : Approval, decision : Decision \cup {"none"}]

LEMMA ReplyType ==
  ASSUME TypeOK, NEW msgs, msgs \subseteq Message, Reply(msgs)
  PROVE  replies' \subseteq Message
BY DEF TypeOK, Reply, Message

LEMMA ResolutionType ==
  ASSUME TypeOK, NEW i \in Approval, IsResolved(i)
  PROVE  Resolution(i) \in resolved /\ Resolution(i).id = i /\ Resolution(i).decision \in Decision
<1>1. PICK r \in resolved : r.id = i
  BY DEF IsResolved
<1>2. Resolution(i) \in resolved /\ Resolution(i).id = i
  BY <1>1 DEF Resolution
<1> QED
  BY <1>2 DEF TypeOK

LEMMA SettledType ==
  ASSUME TypeOK, NEW i \in Approval, NEW decision \in Decision,
         NEW source \in {"remote", "timeout"}, Settled(i, decision, source)
  PROVE  /\ pending' \subseteq Approval
         /\ resolved' \subseteq [id : Approval, decision : Decision, source : {"remote", "timeout"}]
         /\ timer' \in [Approval -> TimerState]
         /\ ledger' \in [Approval -> Seq({"granted", "denied"})]
<1>1. LedgerEntry(decision) \in {"granted", "denied"}
  BY DEF LedgerEntry
<1>2. ledger' \in [Approval -> Seq({"granted", "denied"})]
  <2>1. Append(ledger[i], LedgerEntry(decision)) \in Seq({"granted", "denied"})
    BY <1>1 DEF TypeOK
  <2>2. ledger' = [ledger EXCEPT ![i] = Append(ledger[i], LedgerEntry(decision))]
    BY DEF Settled, resolveApproval
  <2> QED
    BY <2>1, <2>2 DEF TypeOK
<1>3. timer' \in [Approval -> TimerState]
  BY DEF Settled, resolveApproval, TypeOK, TimerState
<1>4. pending' \subseteq Approval
  BY DEF Settled, resolveApproval, TypeOK
<1>5. resolved' \subseteq [id : Approval, decision : Decision, source : {"remote", "timeout"}]
  BY DEF Settled, resolveApproval, TypeOK
<1> QED
  BY <1>2, <1>3, <1>4, <1>5

LEMMA NextType == TypeOK /\ [Next]_vars => TypeOK'
<1> SUFFICES ASSUME TypeOK, [Next]_vars PROVE TypeOK'
  OBVIOUS
<1> USE ApprovalAssumption
<1>1. CASE SessionUp
  <2>1. snapshotBody \subseteq Message
    BY DEF snapshotBody, Notice, TypeOK, Message, NoticeKind
  <2>2. replies' \subseteq Message
    BY <1>1, <2>1 DEF SessionUp, TypeOK, Message
  <2>3. session' \in [n : 0..MaxSession, up : BOOLEAN]
    BY <1>1 DEF SessionUp, TypeOK
  <2> QED
    BY <1>1, <2>2, <2>3 DEF SessionUp, TypeOK, Message, TimerState
<1>2. CASE AbortSession
  <2>1. session' \in [n : 0..MaxSession, up : BOOLEAN]
    BY <1>2 DEF AbortSession, TypeOK
  <2>2. requests' \in Seq([id : Approval, choice : Choice])
    BY <1>2 DEF AbortSession
  <2>3. loopTimer' \in [1..MaxSession -> TimerState]
    <3>1. PICK after \in {"done", "fired"} :
             loopTimer' = [loopTimer EXCEPT ![session.n] = IF @ = "armed" THEN after ELSE @]
      BY <1>2 DEF AbortSession
    <3>2. loopTimer \in [1..MaxSession -> TimerState] /\ after \in TimerState
      BY DEF TypeOK, TimerState
    <3> QED
      BY <3>1, <3>2
  <2> QED
    BY <1>2, <2>1, <2>2, <2>3 DEF AbortSession, TypeOK
<1>3. CASE DevicePresence
  BY <1>3 DEF DevicePresence, TypeOK
<1>4. CASE HandleDecide
  <2>1. PICK i \in Approval, choice \in Choice :
           /\ allowed' = IF choice = "allow" THEN allowed \cup {i} ELSE allowed
           /\ requests' = Tail(requests)
           /\ UNCHANGED <<session, attached, loopTimer, asked>>
           /\ \/ /\ Settled(i, DecisionOf(choice), "remote")
                 /\ Reply({Notice("approval.resolved", i, DecisionOf(choice)),
                           Notice("applied", i, DecisionOf(choice))})
              \/ /\ Untouched
                 /\ \/ Reply({Notice("invalid_params", i, "none")})
                    \/ Reply({Notice("unknown_approval", i, "none")})
                    \/ IsResolved(i) /\ Reply({Notice("already_resolved", i, Resolution(i).decision)})
    BY <1>4, DecideCases
  <2>2. allowed' \subseteq Approval /\ requests' \in Seq([id : Approval, choice : Choice])
    <3>1. requests # <<>> /\ requests \in Seq([id : Approval, choice : Choice])
      BY <1>4 DEF HandleDecide, TypeOK
    <3>2. Tail(requests) \in Seq([id : Approval, choice : Choice])
      BY <3>1, HeadTailProperties
    <3> QED
      BY <2>1, <3>2 DEF TypeOK
  <2>3. DecisionOf(choice) \in Decision
    BY DEF DecisionOf, Decision
  <2>4. replies' \subseteq Message
    <3>1. \A d \in Decision \cup {"none"}, k \in NoticeKind : Notice(k, i, d) \in Message
      BY DEF Notice, Message
    <3>2. /\ {Notice("approval.resolved", i, DecisionOf(choice)),
              Notice("applied", i, DecisionOf(choice))} \subseteq Message
          /\ {Notice("invalid_params", i, "none")} \subseteq Message
          /\ {Notice("unknown_approval", i, "none")} \subseteq Message
          /\ IsResolved(i) => {Notice("already_resolved", i, Resolution(i).decision)} \subseteq Message
      BY <2>3, <3>1, ResolutionType DEF NoticeKind
    <3> QED
      BY <2>1, <3>2, ReplyType
  <2>5. CASE Untouched
    BY <2>1, <2>2, <2>4, <2>5 DEF TypeOK, Untouched, Message
  <2>6. CASE Settled(i, DecisionOf(choice), "remote")
    BY <2>1, <2>2, <2>3, <2>4, <2>6, SettledType DEF TypeOK, Message
  <2> QED
    BY <2>1, <2>5, <2>6
<1>5. ASSUME NEW n \in 1..MaxSession, LoopTimerFires(n) PROVE TypeOK'
  BY <1>5 DEF LoopTimerFires, TypeOK, TimerState
<1>6. ASSUME NEW n \in 1..MaxSession, RaiseApproval(n) PROVE TypeOK'
  <2>1. loopTimer' \in [1..MaxSession -> TimerState]
    BY <1>6 DEF RaiseApproval, TypeOK, TimerState
  <2>2. CASE UNCHANGED <<pending, timer, replies>>
    BY <1>6, <2>1, <2>2 DEF RaiseApproval, TypeOK
  <2>3. ASSUME NEW i \in Approval, pending' = pending \cup {i}, ArmTimer(i),
               Reply({Notice("approval.request", i, "none")})
        PROVE  TypeOK'
    <3>1. {Notice("approval.request", i, "none")} \subseteq Message
      BY DEF Notice, Message, NoticeKind
    <3>2. replies' \subseteq Message
      BY <2>3, <3>1, ReplyType
    <3>3. pending' \subseteq Approval /\ timer' \in [Approval -> TimerState]
      BY <2>3 DEF TypeOK, ArmTimer, TimerState
    <3> QED
      BY <1>6, <2>1, <3>2, <3>3 DEF RaiseApproval, TypeOK, Message
  <2> QED
    BY <1>6, <2>2, <2>3 DEF RaiseApproval
<1>7. ASSUME NEW i \in Approval, ApprovalTimerFires(i) PROVE TypeOK'
  BY <1>7 DEF ApprovalTimerFires, TypeOK, TimerState
<1>8. ASSUME NEW i \in Approval, ApprovalTimeout(i) PROVE TypeOK'
  <2>1. CASE CanResolve(i)
    <3>1. /\ Settled(i, TimeoutDecision, "timeout")
          /\ Reply({Notice("approval.resolved", i, TimeoutDecision)})
          /\ UNCHANGED <<session, attached, loopTimer, requests, asked, allowed>>
      BY <1>8, <2>1 DEF ApprovalTimeout, Settled
    <3>2. TimeoutDecision \in Decision
      BY DEF TimeoutDecision, Decision
    <3>3. {Notice("approval.resolved", i, TimeoutDecision)} \subseteq Message
      BY <3>2 DEF Notice, Message, NoticeKind
    <3>4. replies' \subseteq Message
      BY <3>1, <3>3, ReplyType
    <3> QED
      BY <3>1, <3>2, <3>4, SettledType DEF TypeOK, Message
  <2>2. CASE ~CanResolve(i)
    BY <1>8, <2>2 DEF ApprovalTimeout, TypeOK, TimerState
  <2> QED
    BY <2>1, <2>2
<1>9. ASSUME NEW i \in Approval, NEW choice \in Choice, DeviceDecides(i, choice) PROVE TypeOK'
  <2>1. requests' \in Seq([id : Approval, choice : Choice])
    <3>1. [id |-> i, choice |-> choice] \in [id : Approval, choice : Choice]
      OBVIOUS
    <3>2. requests' = Append(requests, [id |-> i, choice |-> choice])
      BY <1>9 DEF DeviceDecides
    <3> QED
      BY <3>1, <3>2 DEF TypeOK
  <2>2. asked' \in 0..MaxRequest
    BY <1>9 DEF DeviceDecides, TypeOK
  <2> QED
    BY <1>9, <2>1, <2>2 DEF DeviceDecides, TypeOK
<1>10. CASE UNCHANGED vars
  BY <1>10 DEF vars, TypeOK
<1> QED
  BY <1>1, <1>2, <1>3, <1>4, <1>5, <1>6, <1>7, <1>8, <1>9, <1>10 DEF Next

\* The types of the approval surface.
THEOREM ApprovalsTypeCorrect == Spec => []TypeOK
<1>1. Init => TypeOK
  <2> SUFFICES ASSUME Init PROVE TypeOK
    OBVIOUS
  <2>1. session \in [n : 0..MaxSession, up : BOOLEAN] /\ asked \in 0..MaxRequest
    BY ApprovalAssumption DEF Init
  <2>2. /\ requests \in Seq([id : Approval, choice : Choice])
        /\ ledger \in [Approval -> Seq({"granted", "denied"})]
    BY DEF Init
  <2> QED
    BY <2>1, <2>2 DEF Init, TypeOK, TimerState
<1>2. TypeOK /\ [Next]_vars => TypeOK'
  BY NextType
<1> QED
  BY <1>1, <1>2, PTL DEF Spec

-----------------------------------------------------------------------------
(* The ledger, what is pending and what is resolved *)

\* One entry for what is resolved, none for anything else.
LedgerOfResolved ==
  /\ \A r \in resolved : ledger[r.id] = <<LedgerEntry(r.decision)>>
  /\ \A i \in Approval : ~IsResolved(i) => ledger[i] = <<>>

PendingUnresolved == \A i \in pending : ~IsResolved(i)

\* Only a request to allow resolves as allowed.
AllowedWasAsked == \A r \in resolved : r.decision = "allow_once" => r.id \in allowed

\* The device is told of decisions that stand.
ToldResolved ==
  \A m \in replies : m.decision # "none" =>
    \E r \in resolved : r.id = m.id /\ r.decision = m.decision

LedgerInv == LedgerOfResolved /\ PendingUnresolved /\ AllowedWasAsked /\ ToldResolved

\* A step that raises and resolves nothing keeps the invariant.
LEMMA LedgerSame ==
  ASSUME TypeOK, LedgerInv, UNCHANGED <<pending, resolved, ledger>>, allowed \subseteq allowed',
         \A m \in replies' \ replies : m.decision # "none" =>
           \E r \in resolved : r.id = m.id /\ r.decision = m.decision
  PROVE  LedgerInv'
<1>1. LedgerOfResolved' /\ PendingUnresolved'
  BY DEF LedgerInv, LedgerOfResolved, PendingUnresolved, IsResolved
<1>2. AllowedWasAsked' /\ ToldResolved'
  BY DEF LedgerInv, AllowedWasAsked, ToldResolved
<1> QED
  BY <1>1, <1>2 DEF LedgerInv

\* Whoever settles an approval first keeps it, and may tell of it.
LEMMA LedgerSettled ==
  ASSUME TypeOK, LedgerInv, NEW i \in Approval, NEW decision \in Decision,
         NEW source \in {"remote", "timeout"}, Settled(i, decision, source),
         allowed \subseteq allowed', decision = "allow_once" => i \in allowed',
         \A m \in replies' \ replies : m.id = i /\ m.decision = decision
  PROVE  LedgerInv'
<1> DEFINE new == [id |-> i, decision |-> decision, source |-> source]
<1>1. /\ resolved' = resolved \cup {new}
      /\ pending' = pending \ {i}
      /\ ledger' = [ledger EXCEPT ![i] = Append(ledger[i], LedgerEntry(decision))]
      /\ ~IsResolved(i)
  BY DEF Settled, resolveApproval, CanResolve
<1>2. Append(ledger[i], LedgerEntry(decision)) = <<LedgerEntry(decision)>>
  <2>1. ledger[i] = <<>>
    BY <1>1 DEF LedgerInv, LedgerOfResolved
  <2>2. \A x : Append(<<>>, x) = <<x>>
    OBVIOUS
  <2> QED
    BY <2>1, <2>2
<1>3. /\ ledger'[i] = <<LedgerEntry(decision)>>
      /\ \A j \in Approval \ {i} : ledger'[j] = ledger[j]
  BY <1>1, <1>2 DEF TypeOK
<1>4. \A r \in resolved : r.id \in Approval \ {i}
  BY <1>1 DEF IsResolved, TypeOK
<1>5. IsResolved(i)' /\ \A j \in Approval \ {i} : IsResolved(j)' <=> IsResolved(j)
  <2>1. new.id = i
    OBVIOUS
  <2> QED
    BY <1>1, <2>1 DEF IsResolved
<1>6. LedgerOfResolved'
  <2>1. \A r \in resolved' : ledger'[r.id] = <<LedgerEntry(r.decision)>>
    BY <1>1, <1>3, <1>4 DEF LedgerInv, LedgerOfResolved
  <2>2. \A j \in Approval : ~IsResolved(j)' => ledger'[j] = <<>>
    BY <1>3, <1>5 DEF LedgerInv, LedgerOfResolved
  <2> QED
    BY <2>1, <2>2 DEF LedgerOfResolved
<1>7. PendingUnresolved'
  BY <1>1, <1>5 DEF LedgerInv, PendingUnresolved, TypeOK
<1>8. AllowedWasAsked' /\ ToldResolved'
  <2>1. new.id = i /\ new.decision = decision /\ new \in resolved' /\ resolved \subseteq resolved'
    BY <1>1
  <2>2. AllowedWasAsked'
    BY <1>1, <2>1 DEF LedgerInv, AllowedWasAsked
  <2>3. ToldResolved'
    BY <2>1 DEF LedgerInv, ToldResolved
  <2> QED
    BY <2>2, <2>3
<1> QED
  BY <1>6, <1>7, <1>8 DEF LedgerInv

LEMMA NextLedger == TypeOK /\ LedgerInv /\ [Next]_vars => LedgerInv'
<1> SUFFICES ASSUME TypeOK, LedgerInv, [Next]_vars PROVE LedgerInv'
  OBVIOUS
<1>1. CASE SessionUp
  <2>1. \A m \in snapshotBody : m.decision = "none"
    BY DEF snapshotBody, Notice
  <2> QED
    BY <1>1, <2>1, LedgerSame DEF SessionUp
<1>2. CASE AbortSession \/ DevicePresence \/ UNCHANGED vars
  BY <1>2, LedgerSame DEF AbortSession, DevicePresence, vars
<1>3. CASE HandleDecide
  <2>1. PICK i \in Approval, choice \in Choice :
           /\ allowed' = IF choice = "allow" THEN allowed \cup {i} ELSE allowed
           /\ requests' = Tail(requests)
           /\ UNCHANGED <<session, attached, loopTimer, asked>>
           /\ \/ /\ Settled(i, DecisionOf(choice), "remote")
                 /\ Reply({Notice("approval.resolved", i, DecisionOf(choice)),
                           Notice("applied", i, DecisionOf(choice))})
              \/ /\ Untouched
                 /\ \/ Reply({Notice("invalid_params", i, "none")})
                    \/ Reply({Notice("unknown_approval", i, "none")})
                    \/ IsResolved(i) /\ Reply({Notice("already_resolved", i, Resolution(i).decision)})
    BY <1>3, DecideCases
  <2>2. CASE Untouched
    <3>1. \A m \in replies' \ replies : m.decision # "none" =>
             \E r \in resolved : r.id = m.id /\ r.decision = m.decision
      <4>1. CASE IsResolved(i) /\ Reply({Notice("already_resolved", i, Resolution(i).decision)})
        BY <4>1, ResolutionType DEF Reply, Notice
      <4>2. CASE \/ Reply({Notice("invalid_params", i, "none")})
                 \/ Reply({Notice("unknown_approval", i, "none")})
        BY <4>2 DEF Reply, Notice
      <4>3. CASE Settled(i, DecisionOf(choice), "remote")
        BY <2>2, <4>3 DEF Settled, CanResolve, resolveApproval, Untouched
      <4> QED
        BY <2>1, <4>1, <4>2, <4>3
    <3> QED
      BY <2>1, <2>2, <3>1, LedgerSame DEF Untouched
  <2>3. CASE /\ Settled(i, DecisionOf(choice), "remote")
             /\ Reply({Notice("approval.resolved", i, DecisionOf(choice)),
                       Notice("applied", i, DecisionOf(choice))})
    <3>1. DecisionOf(choice) \in Decision /\ (DecisionOf(choice) = "allow_once" => choice = "allow")
      BY DEF DecisionOf, Decision
    <3>2. \A m \in replies' \ replies : m.id = i /\ m.decision = DecisionOf(choice)
      BY <2>3 DEF Reply, Notice
    <3> QED
      BY <2>1, <2>3, <3>1, <3>2, LedgerSettled
  <2> QED
    BY <2>1, <2>2, <2>3
<1>4. ASSUME NEW n \in 1..MaxSession, LoopTimerFires(n) PROVE LedgerInv'
  BY <1>4, LedgerSame DEF LoopTimerFires
<1>5. ASSUME NEW n \in 1..MaxSession, RaiseApproval(n) PROVE LedgerInv'
  <2>1. CASE UNCHANGED <<pending, timer, replies>>
    BY <1>5, <2>1, LedgerSame DEF RaiseApproval
  <2>2. ASSUME NEW i \in Approval, ~IsResolved(i), pending' = pending \cup {i},
               Reply({Notice("approval.request", i, "none")})
        PROVE  LedgerInv'
    <3>1. UNCHANGED <<resolved, ledger, allowed>>
      BY <1>5 DEF RaiseApproval
    <3>2. \A m \in replies' \ replies : m.decision = "none"
      BY <2>2 DEF Reply, Notice
    <3>3. PendingUnresolved'
      BY <2>2, <3>1 DEF LedgerInv, PendingUnresolved, IsResolved
    <3>4. LedgerOfResolved'
      BY <3>1 DEF LedgerInv, LedgerOfResolved, IsResolved
    <3>5. AllowedWasAsked' /\ ToldResolved'
      BY <3>1, <3>2 DEF LedgerInv, AllowedWasAsked, ToldResolved
    <3> QED
      BY <3>3, <3>4, <3>5 DEF LedgerInv
  <2> QED
    BY <1>5, <2>1, <2>2 DEF RaiseApproval
<1>6. ASSUME NEW i \in Approval, ApprovalTimerFires(i) PROVE LedgerInv'
  BY <1>6, LedgerSame DEF ApprovalTimerFires
<1>7. ASSUME NEW i \in Approval, ApprovalTimeout(i) PROVE LedgerInv'
  <2>1. CASE CanResolve(i)
    <3>1. Settled(i, "deny", "timeout") /\ UNCHANGED allowed
      BY <1>7, <2>1 DEF ApprovalTimeout, Settled, TimeoutDecision
    <3>2. \A m \in replies' \ replies : m.id = i /\ m.decision = "deny"
      BY <1>7, <2>1 DEF ApprovalTimeout, Reply, Notice, TimeoutDecision
    <3> QED
      BY <3>1, <3>2, LedgerSettled DEF Decision
  <2>2. CASE ~CanResolve(i)
    BY <1>7, <2>2, LedgerSame DEF ApprovalTimeout
  <2> QED
    BY <2>1, <2>2
<1>8. ASSUME NEW i \in Approval, NEW choice \in Choice, DeviceDecides(i, choice) PROVE LedgerInv'
  BY <1>8, LedgerSame DEF DeviceDecides
<1> QED
  BY <1>1, <1>2, <1>3, <1>4, <1>5, <1>6, <1>7, <1>8 DEF Next

LEMMA LedgerAlways == Spec => []LedgerInv
<1>1. Init => LedgerInv
  BY DEF Init, LedgerInv, LedgerOfResolved, PendingUnresolved, AllowedWasAsked, ToldResolved
<1>2. TypeOK /\ LedgerInv /\ [Next]_vars => LedgerInv'
  BY NextLedger
<1> QED
  BY <1>1, <1>2, ApprovalsTypeCorrect, PTL DEF Spec

LEMMA RangeOfOne == \A x : Range(<<x>>) = {x}
<1> TAKE x
<1>1. DOMAIN <<x>> = {1} /\ <<x>>[1] = x
  OBVIOUS
<1> QED
  BY <1>1 DEF Range

\* session.go:429: what the ledger grants a device asked to allow, and every decision the
\* device was told of is in the ledger, for any number of approvals and sessions.
THEOREM ConsentNeverPresumed == Spec => []GrantedByConsent
<1>1. TypeOK /\ LedgerInv => GrantedByConsent
  <2> SUFFICES ASSUME TypeOK, LedgerInv PROVE GrantedByConsent
    OBVIOUS
  <2>1. ASSUME NEW r \in resolved
        PROVE  ledger[r.id] = <<LedgerEntry(r.decision)>> /\ Range(ledger[r.id]) = {LedgerEntry(r.decision)}
    BY RangeOfOne DEF LedgerInv, LedgerOfResolved
  <2>2. ASSUME NEW i \in Approval, "granted" \in Range(ledger[i]) PROVE i \in allowed
    <3>1. CASE ~IsResolved(i)
      BY <2>2, <3>1 DEF LedgerInv, LedgerOfResolved, Range
    <3>2. CASE IsResolved(i)
      <4>1. PICK r \in resolved : r.id = i
        BY <3>2 DEF IsResolved
      <4>2. LedgerEntry(r.decision) = "granted"
        BY <2>1, <2>2, <4>1
      <4> QED
        BY <4>1, <4>2 DEF LedgerEntry, LedgerInv, AllowedWasAsked
    <3> QED
      BY <3>1, <3>2
  <2>3. ASSUME NEW m \in replies, m.decision # "none"
        PROVE  LedgerEntry(m.decision) \in Range(ledger[m.id])
    <3>1. PICK r \in resolved : r.id = m.id /\ r.decision = m.decision
      BY <2>3 DEF LedgerInv, ToldResolved
    <3> QED
      BY <2>1, <3>1
  <2> QED
    BY <2>2, <2>3 DEF GrantedByConsent
<1> QED
  BY <1>1, LedgerAlways, ApprovalsTypeCorrect, PTL

-----------------------------------------------------------------------------
(* Approvals implements DecideOnce *)

\* The mapped verdict, by what is pending and resolved.
LEMMA VerdictOf ==
  ASSUME TypeOK, LedgerInv, NEW i \in Approval
  PROVE  /\ ~IsResolved(i) /\ i \notin pending => Verdict(i) = "none"
         /\ ~IsResolved(i) /\ i \in pending => Verdict(i) = "open"
<1>1. ~IsResolved(i) => ledger[i] = <<>>
  BY DEF LedgerInv, LedgerOfResolved
<1> QED
  BY <1>1 DEF Verdict

\* A verdict is a function of the ledger and of what is pending.
LEMMA VerdictSame ==
  ASSUME NEW i \in Approval, ledger'[i] = ledger[i], i \in pending' <=> i \in pending
  PROVE  Verdict(i)' = Verdict(i)
BY DEF Verdict

\* Settling is the abstract decision.
LEMMA SettledDecides ==
  ASSUME TypeOK, LedgerInv, NEW i \in Approval, NEW decision \in Decision, NEW source,
         Settled(i, decision, source)
  PROVE  Decisions!Decide(i, LedgerEntry(decision))
<1>1. /\ pending' = pending \ {i}
      /\ ledger' = [ledger EXCEPT ![i] = Append(ledger[i], LedgerEntry(decision))]
      /\ ~IsResolved(i) /\ i \in pending
  BY DEF Settled, resolveApproval, CanResolve
<1>2. Verdict(i) = "open" /\ ledger[i] = <<>>
  BY <1>1, VerdictOf DEF LedgerInv, LedgerOfResolved
<1>3. ledger'[i] = <<LedgerEntry(decision)>>
  <2>1. \A x : Append(<<>>, x) = <<x>>
    OBVIOUS
  <2> QED
    BY <1>1, <1>2, <2>1 DEF TypeOK
<1>4. Verdict(i)' = LedgerEntry(decision)
  <2>1. ledger'[i] # <<>> /\ Len(ledger'[i]) = 1 /\ ledger'[i][1] = LedgerEntry(decision)
    BY <1>3
  <2> QED
    BY <2>1 DEF Verdict
<1>5. \A j \in Approval \ {i} : Verdict(j)' = Verdict(j)
  BY <1>1, VerdictSame DEF TypeOK
<1> QED
  BY <1>2, <1>4, <1>5 DEF Decisions!Decide

LEMMA StepDecides == TypeOK /\ LedgerInv /\ [Next]_vars => [Decisions!Next]_[i \in Approval |-> Verdict(i)]
<1> DEFINE verdict == [i \in Approval |-> Verdict(i)]
<1> SUFFICES ASSUME TypeOK, LedgerInv, [Next]_vars PROVE Decisions!Next \/ verdict' = verdict
  OBVIOUS
<1>1. ASSUME UNCHANGED <<pending, ledger>> PROVE verdict' = verdict
  BY <1>1, VerdictSame
<1>2. ASSUME NEW i \in Approval, NEW decision \in Decision, NEW source, Settled(i, decision, source)
      PROVE  Decisions!Next
  <2>1. LedgerEntry(decision) \in {"granted", "denied"}
    BY DEF LedgerEntry
  <2> QED
    BY <1>2, <2>1, SettledDecides DEF Decisions!Next
<1>3. CASE HandleDecide
  <2>1. \/ Untouched
        \/ \E i \in Approval, choice \in Choice : Settled(i, DecisionOf(choice), "remote")
    BY <1>3, DecideCases
  <2>2. \A choice \in Choice : DecisionOf(choice) \in Decision
    BY DEF DecisionOf, Decision
  <2> QED
    BY <1>1, <1>2, <2>1, <2>2 DEF Untouched
<1>4. ASSUME NEW n \in 1..MaxSession, RaiseApproval(n) PROVE Decisions!Next \/ verdict' = verdict
  <2>1. CASE UNCHANGED pending
    BY <1>1, <1>4, <2>1 DEF RaiseApproval
  <2>2. ASSUME NEW i \in Approval, i \notin pending, ~IsResolved(i), pending' = pending \cup {i}
        PROVE  Decisions!Next
    <3>1. UNCHANGED <<ledger, resolved>>
      BY <1>4 DEF RaiseApproval
    <3>2. Verdict(i) = "none" /\ ledger[i] = <<>>
      BY <2>2, VerdictOf DEF LedgerInv, LedgerOfResolved
    <3>3. Verdict(i)' = "open"
      BY <2>2, <3>1, <3>2 DEF Verdict
    <3>4. \A j \in Approval \ {i} : Verdict(j)' = Verdict(j)
      BY <2>2, <3>1, VerdictSame
    <3>5. Decisions!Open(i)
      BY <3>2, <3>3, <3>4 DEF Decisions!Open
    <3> QED
      BY <3>5 DEF Decisions!Next
  <2> QED
    BY <1>4, <2>1, <2>2 DEF RaiseApproval
<1>5. ASSUME NEW i \in Approval, ApprovalTimeout(i) PROVE Decisions!Next \/ verdict' = verdict
  <2>1. CASE CanResolve(i)
    <3>1. Settled(i, "deny", "timeout")
      BY <1>5, <2>1 DEF ApprovalTimeout, Settled, TimeoutDecision
    <3> QED
      BY <1>2, <3>1 DEF Decision
  <2>2. CASE ~CanResolve(i)
    BY <1>1, <1>5, <2>2 DEF ApprovalTimeout
  <2> QED
    BY <2>1, <2>2
<1>6. CASE SessionUp \/ AbortSession \/ DevicePresence \/ UNCHANGED vars
  BY <1>1, <1>6 DEF SessionUp, AbortSession, DevicePresence, vars
<1>7. ASSUME NEW n \in 1..MaxSession, LoopTimerFires(n) PROVE verdict' = verdict
  BY <1>1, <1>7 DEF LoopTimerFires
<1>8. ASSUME NEW i \in Approval,
             ApprovalTimerFires(i) \/ \E choice \in Choice : DeviceDecides(i, choice)
      PROVE  verdict' = verdict
  BY <1>1, <1>8 DEF ApprovalTimerFires, DeviceDecides
<1> QED
  BY <1>3, <1>4, <1>5, <1>6, <1>7, <1>8 DEF Next

\* session.go:438: by the ledger every approval is decided at most once, whoever comes
\* first: the specification implements DecideOnce.
THEOREM DecidedOnce == Spec => FirstDecisionWins
<1>1. Init => Decisions!Init
  BY DEF Init, Decisions!Init, Verdict
<1>2. TypeOK /\ LedgerInv /\ [Next]_vars => [Decisions!Next]_[i \in Approval |-> Verdict(i)]
  BY StepDecides
<1> QED
  BY <1>1, <1>2, LedgerAlways, ApprovalsTypeCorrect, PTL DEF Spec, FirstDecisionWins, Decisions!Spec
=============================================================================
