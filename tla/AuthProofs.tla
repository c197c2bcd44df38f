----------------------------- MODULE AuthProofs -----------------------------
(***************************************************************************)
(* Proofs about the two checks every request passes: its token (KeyCache,  *)
(* for any number of requests and key ids, any TTL and any refresh         *)
(* interval) and its account (Accounts, for any sets of accounts, hosts,   *)
(* connections and requests and any idle horizon).  The two specifications *)
(* share no variable and each has its own theorems.                        *)
(***************************************************************************)
EXTENDS KeyCache, Accounts, FiniteSetTheorems, TLAPS

-----------------------------------------------------------------------------
(* Account bindings *)

LEMMA AccountsNextType == AccountsTypeOK /\ [AccountsNext]_accountVars => AccountsTypeOK'
<1> SUFFICES ASSUME AccountsTypeOK, [AccountsNext]_accountVars PROVE AccountsTypeOK'
  OBVIOUS
<1> USE AccountsAssumption DEF AccountsTypeOK, NoBinding, Idle, Binding
<1>1. CASE NewDay
  BY <1>1 DEF NewDay
<1>2. ASSUME NEW c \in HostConn, NEW h \in Host, NEW a \in Account, BindHost(c, h, a)
      PROVE  AccountsTypeOK'
  <2>1. CASE MayBind(h, a)
    <3>1. /\ bindings' = [bindings EXCEPT ![h] = [account |-> a, lastAttachAt |-> today]]
          /\ conn' = [conn EXCEPT ![c] = [pc |-> "bound", host |-> h, account |-> a, since |-> today]]
          /\ UNCHANGED <<today, pairings, create>> /\ exposed' \subseteq Create
      BY <1>2, <2>1 DEF BindHost, Expose
    <3>2. today \in 0..today
      OBVIOUS
    <3>3. bindings' \in [Host -> [account : Account \cup {NoAccount}, lastAttachAt : 0..today]]
      BY <3>1, <3>2
    <3> QED
      BY <3>1, <3>2, <3>3
  <2>2. CASE ~MayBind(h, a)
    BY <1>2, <2>2 DEF BindHost, Expose
  <2> QED
    BY <2>1, <2>2
<1>3. ASSUME NEW c \in HostConn, Upgrade(c) PROVE AccountsTypeOK'
  <2>1. CASE conn' = [conn EXCEPT ![c].pc = "attached"]
    <3> DEFINE d == [conn[c] EXCEPT !.pc = "attached"]
               R == [pc : {"idle", "bound", "attached", "left"}, host : Host,
                     account : Account \cup {NoAccount}, since : 0..today]
    <3>1. /\ conn[c].pc = "bound"
          /\ UNCHANGED <<today, bindings, pairings, create, exposed>>
      BY <1>3 DEF Upgrade
    <3>2. conn \in [HostConn -> R]
      OBVIOUS
    <3>3. d \in R /\ d.account = conn[c].account
      BY <3>2
    <3>4. conn' = [conn EXCEPT ![c] = d]
      BY <2>1
    <3> HIDE DEF d, R
    <3>5. conn' \in [HostConn -> R]
      BY <3>2, <3>3, <3>4
    <3>6. \A e \in HostConn : conn'[e].pc # "idle" => conn'[e].account \in Account
      BY <3>1, <3>2, <3>3, <3>4
    <3> QED
      BY <3>1, <3>5, <3>6 DEF R
  <2>2. CASE conn' = [conn EXCEPT ![c] = Idle(conn[c].host)]
    BY <1>3, <2>2 DEF Upgrade
  <2> QED
    BY <1>3, <2>1, <2>2 DEF Upgrade
<1>4. ASSUME NEW c \in HostConn, Leave(c) PROVE AccountsTypeOK'
  BY <1>4 DEF Leave
<1>5. ASSUME NEW c \in HostConn, TouchBinding(c) PROVE AccountsTypeOK'
  BY <1>5 DEF TouchBinding
<1>6. ASSUME NEW q \in Create, NEW h \in Host, NEW a \in Account, CreateAuthorize(q, h, a)
      PROVE  AccountsTypeOK'
  BY <1>6 DEF CreateAuthorize, Expose
<1>7. ASSUME NEW q \in Create, CreatePairing(q) PROVE AccountsTypeOK'
  BY <1>7 DEF CreatePairing
<1>8. ASSUME NEW p \in pairings, DeletePairing(p) PROVE AccountsTypeOK'
  BY <1>8 DEF DeletePairing
<1>9. CASE UNCHANGED accountVars
  BY <1>9 DEF accountVars
<1> QED
  BY <1>1, <1>2, <1>3, <1>4, <1>5, <1>6, <1>7, <1>8, <1>9 DEF AccountsNext

\* The types of bindings, registrations and handlers; a request past its account
\* check has an account.
THEOREM AccountsTypeCorrect == AccountsSpec => []AccountsTypeOK
<1>1. AccountsInit => AccountsTypeOK
  BY AccountsAssumption DEF AccountsInit, AccountsTypeOK, NoBinding, Idle
<1>2. AccountsTypeOK /\ [AccountsNext]_accountVars => AccountsTypeOK'
  BY AccountsNextType
<1> QED
  BY <1>1, <1>2, PTL DEF AccountsSpec

-----------------------------------------------------------------------------
(* Registrations keep their host bound to their account.                   *)

\* A registration is its request's, so its id is its own.
PairingsOfRequests ==
  \A p \in pairings :
    create[p.id] = [pc |-> "done", host |-> p.host, account |-> p.account]

\* Between account check and registration the binding stands, unless it was reaped.
AuthorizedBound ==
  \A q \in Create : create[q].pc = "authorized" /\ q \notin exposed =>
    bindings[create[q].host].account = create[q].account

BoundInv == PairingsOfRequests /\ AuthorizedBound /\ PairingsOfBoundAccount

\* A lookup of h that finds a survivor leaves everyone's binding alone; one that reaps
\* finds no pairing of h, and exposes the requests that counted on the binding.
LEMMA LookupBound ==
  ASSUME AccountsTypeOK, BoundInv, NEW h \in Host, Expose(h), UNCHANGED pairings,
         \A g \in Host \ {h} : bindings'[g] = bindings[g],
         Binding(h).account \in {NoAccount, bindings'[h].account}
  PROVE  /\ PairingsOfBoundAccount'
         /\ \A q \in Create : create[q].pc = "authorized" /\ q \notin exposed' =>
              bindings'[create[q].host].account = create[q].account
<1> USE AccountsAssumption DEF BoundInv, AuthorizedBound, PairingsOfBoundAccount, AccountsTypeOK
<1>1. exposed \subseteq exposed'
  BY DEF Expose
<1>2. CASE Binding(h) = bindings[h]
  <2>1. bindings[h].account \in Account => bindings'[h].account = bindings[h].account
    BY <1>2
  <2>2. PairingsOfBoundAccount'
    BY <1>1, <2>1, SMTT(40)
  <2> QED
    BY <1>1, <2>1, <2>2
<1>3. CASE Binding(h) # bindings[h]
  <2>1. ~hostHasPairings(h)
    BY <1>3 DEF Binding
  <2>2. \A p \in pairings : p.host # h
    BY <2>1 DEF hostHasPairings
  <2>3. \A q \in Create : create[q].pc = "authorized" /\ q \notin exposed' => create[q].host # h
    BY <1>3 DEF Expose
  <2>4. PairingsOfBoundAccount'
    BY <1>1, <2>2
  <2> QED
    BY <1>1, <2>3, <2>4
<1> QED
  BY <1>2, <1>3

LEMMA NextBound == AccountsTypeOK /\ BoundInv /\ [AccountsNext]_accountVars => BoundInv'
<1> SUFFICES ASSUME AccountsTypeOK, BoundInv, [AccountsNext]_accountVars PROVE BoundInv'
  OBVIOUS
<1> USE AccountsAssumption DEF BoundInv, PairingsOfRequests, AuthorizedBound,
      PairingsOfBoundAccount, AccountsTypeOK
<1>1. CASE NewDay
  BY <1>1 DEF NewDay
<1>2. ASSUME NEW c \in HostConn, NEW h \in Host, NEW a \in Account, BindHost(c, h, a)
      PROVE  BoundInv'
  <2>1. /\ UNCHANGED <<pairings, create>> /\ Expose(h)
        /\ \A g \in Host \ {h} : bindings'[g] = bindings[g]
    BY <1>2 DEF BindHost
  <2>2. Binding(h).account \in {NoAccount, bindings'[h].account}
    BY <1>2 DEF BindHost, MayBind
  <2>3. /\ PairingsOfBoundAccount'
        /\ \A q \in Create : create[q].pc = "authorized" /\ q \notin exposed' =>
             bindings'[create[q].host].account = create[q].account
    BY <2>1, <2>2, LookupBound
  <2> QED
    BY <2>1, <2>3
<1>3. ASSUME NEW c \in HostConn, Upgrade(c) \/ Leave(c) PROVE BoundInv'
  BY <1>3 DEF Upgrade, Leave
<1>4. ASSUME NEW c \in HostConn, TouchBinding(c) PROVE BoundInv'
  BY <1>4 DEF TouchBinding
<1>5. ASSUME NEW q \in Create, NEW h \in Host, NEW a \in Account, CreateAuthorize(q, h, a)
      PROVE  BoundInv'
  <2>1. /\ UNCHANGED pairings /\ Expose(h) /\ bindings'[h] = Binding(h)
        /\ \A g \in Host \ {h} : bindings'[g] = bindings[g]
    BY <1>5 DEF CreateAuthorize
  <2>2. /\ PairingsOfBoundAccount'
        /\ \A r \in Create : create[r].pc = "authorized" /\ r \notin exposed' =>
             bindings'[create[r].host].account = create[r].account
    BY <2>1, LookupBound
  <2>3. create[q].pc = "new" /\ \A r \in Create \ {q} : create'[r] = create[r]
    BY <1>5 DEF CreateAuthorize
  <2>4. create'[q].pc = "authorized" => create'[q].host = h /\ create'[q].account = bindings'[h].account
    BY <1>5, <2>1 DEF CreateAuthorize, Authorized
  <2>5. AuthorizedBound'
    BY <2>2, <2>3, <2>4
  <2>6. PairingsOfRequests'
    <3> SUFFICES ASSUME NEW p \in pairings
                 PROVE  create'[p.id] = [pc |-> "done", host |-> p.host, account |-> p.account]
      BY <2>1
    <3>1. create[p.id] = [pc |-> "done", host |-> p.host, account |-> p.account]
      OBVIOUS
    <3>2. create[p.id].pc = "done" /\ p.id \in Create
      BY <3>1
    <3>3. p.id # q
      BY <2>3, <3>2
    <3> QED
      BY <2>3, <3>1, <3>2, <3>3
  <2> QED
    BY <2>2, <2>5, <2>6
<1>6. ASSUME NEW q \in Create, CreatePairing(q) PROVE BoundInv'
  BY <1>6 DEF CreatePairing
<1>7. ASSUME NEW p \in pairings, DeletePairing(p) PROVE BoundInv'
  <2>1. /\ UNCHANGED bindings
        /\ pairings' = pairings \ {p} /\ exposed' = exposed \ {p.id}
        /\ \A q \in Create \ {p.id} : create'[q] = create[q]
        /\ create'[p.id].pc = "new"
    BY <1>7 DEF DeletePairing
  <2>2. PairingsOfRequests' /\ PairingsOfBoundAccount'
    <3>1. ASSUME NEW r \in pairings, r.id = p.id PROVE r = p
      <4>1. r.host = p.host /\ r.account = p.account
        <5>1. [pc |-> "done", host |-> r.host, account |-> r.account]
                = [pc |-> "done", host |-> p.host, account |-> p.account]
          BY <3>1
        <5> QED
          BY <5>1
      <4>2. /\ r = [id |-> r.id, host |-> r.host, account |-> r.account]
            /\ p = [id |-> p.id, host |-> p.host, account |-> p.account]
        OBVIOUS
      <4> QED
        BY <3>1, <4>1, <4>2
    <3>2. \A r \in pairings' : r \in pairings /\ r.id # p.id
      BY <2>1, <3>1
    <3> QED
      BY <2>1, <3>2
  <2>3. AuthorizedBound'
    BY <2>1
  <2> QED
    BY <2>2, <2>3
<1>8. CASE UNCHANGED accountVars
  BY <1>8 DEF accountVars
<1> QED
  BY <1>1, <1>2, <1>3, <1>4, <1>5, <1>6, <1>7, <1>8 DEF AccountsNext

\* store.go:299: a registration keeps its host bound to the account that made it, although
\* account check and registration are two store calls, every lookup reaps and time may
\* pass in between: unless the binding was reaped between the two.
THEOREM RegistrationsKeepBinding == AccountsSpec => []PairingsOfBoundAccount
<1>1. AccountsInit => BoundInv
  BY DEF AccountsInit, BoundInv, PairingsOfRequests, AuthorizedBound, PairingsOfBoundAccount
<1>2. AccountsTypeOK /\ BoundInv /\ [AccountsNext]_accountVars => BoundInv'
  BY NextBound
<1>3. BoundInv => PairingsOfBoundAccount
  BY DEF BoundInv
<1> QED
  BY <1>1, <1>2, <1>3, AccountsTypeCorrect, PTL DEF AccountsSpec

-----------------------------------------------------------------------------
(* Two accounts under one host_id are a whole horizon apart.               *)

Live(c) == conn[c].pc \in {"bound", "attached"}

\* A connection's account still has the binding, touched since; or the connection is
\* so old that whoever binds from now on comes a whole horizon after it.
BindingHeld ==
  \A c \in HostConn : Live(c) =>
    \/ /\ bindings[conn[c].host].account = conn[c].account
       /\ bindings[conn[c].host].lastAttachAt >= conn[c].since
    \/ today - conn[c].since >= IdleReap

\* AttachedShareAccount from the moment of BindHost.
LiveShareAccount ==
  \A c, d \in HostConn :
    Live(c) /\ Live(d) /\ conn[c].host = conn[d].host /\ conn[c].account # conn[d].account
      => \/ conn[c].since - conn[d].since >= IdleReap
         \/ conn[d].since - conn[c].since >= IdleReap

AttachInv == BindingHeld /\ LiveShareAccount

LEMMA NextAttach == AccountsTypeOK /\ AttachInv /\ [AccountsNext]_accountVars => AttachInv'
<1> SUFFICES ASSUME AccountsTypeOK, AttachInv, [AccountsNext]_accountVars PROVE AttachInv'
  OBVIOUS
<1> USE AccountsAssumption DEF AttachInv, BindingHeld, LiveShareAccount, AccountsTypeOK, Live
<1>1. CASE NewDay
  BY <1>1 DEF NewDay
<1>2. ASSUME NEW c \in HostConn, NEW h \in Host, NEW a \in Account, BindHost(c, h, a)
      PROVE  AttachInv'
  <2>1. CASE MayBind(h, a) /\ conn[c].pc = "idle"
    <3>1. /\ bindings' = [bindings EXCEPT ![h] = [account |-> a, lastAttachAt |-> today]]
          /\ conn' = [conn EXCEPT ![c] = [pc |-> "bound", host |-> h, account |-> a, since |-> today]]
          /\ today' = today
      BY <1>2, <2>1 DEF BindHost
    <3>2. ASSUME NEW d \in HostConn, Live(d), conn[d].host = h, conn[d].account # a
          PROVE  today - conn[d].since >= IdleReap
      BY <2>1, <3>2 DEF MayBind, Binding, NoBinding, LongIdle
    <3>3. BindingHeld'
      BY <3>1, <3>2
    <3>4. ASSUME NEW e \in HostConn, NEW d \in HostConn, Live(e)', Live(d)',
                 conn'[e].host = conn'[d].host, conn'[e].account # conn'[d].account
          PROVE  \/ conn'[e].since - conn'[d].since >= IdleReap
                 \/ conn'[d].since - conn'[e].since >= IdleReap
      <4>1. CASE e # c /\ d # c
        BY <3>1, <3>4, <4>1
      <4>2. CASE e = c /\ d # c
        BY <3>1, <3>2, <3>4, <4>2
      <4>3. CASE e # c /\ d = c
        BY <3>1, <3>2, <3>4, <4>3
      <4> QED
        BY <3>4, <4>1, <4>2, <4>3
    <3> QED
      BY <3>3, <3>4
  <2>2. CASE ~MayBind(h, a)
    BY <1>2, <2>2 DEF BindHost, Binding, NoBinding, LongIdle
  <2> QED
    BY <1>2, <2>1, <2>2 DEF BindHost
<1>3. ASSUME NEW c \in HostConn, Upgrade(c) \/ Leave(c) PROVE AttachInv'
  <2>1. /\ UNCHANGED <<today, bindings>>
        /\ \A d \in HostConn \ {c} : conn'[d] = conn[d]
        /\ Live(c)' => /\ Live(c) /\ conn'[c].since = conn[c].since
                       /\ conn'[c].host = conn[c].host /\ conn'[c].account = conn[c].account
    BY <1>3 DEF Upgrade, Leave, Idle
  <2>2. \A d \in HostConn : Live(d)' =>
           /\ Live(d) /\ conn'[d].since = conn[d].since
           /\ conn'[d].host = conn[d].host /\ conn'[d].account = conn[d].account
    BY <2>1
  <2> QED
    BY <2>1, <2>2
<1>4. ASSUME NEW c \in HostConn, TouchBinding(c) PROVE AttachInv'
  <2>1. /\ today' = today
        /\ \A d \in HostConn \ {c} : conn'[d] = conn[d]
        /\ ~Live(c)'
    BY <1>4 DEF TouchBinding, Idle
  <2>2. \A h \in Host : /\ bindings'[h].account = bindings[h].account
                        /\ bindings'[h].lastAttachAt \in {today, bindings[h].lastAttachAt}
    BY <1>4 DEF TouchBinding
  <2>3. LiveShareAccount'
    BY <2>1
  <2>4. BindingHeld'
    BY <2>1, <2>2
  <2> QED
    BY <2>3, <2>4
<1>5. ASSUME NEW q \in Create, NEW h \in Host, NEW a \in Account, CreateAuthorize(q, h, a)
      PROVE  AttachInv'
  BY <1>5 DEF CreateAuthorize, Binding, NoBinding, LongIdle
<1>6. ASSUME NEW q \in Create, CreatePairing(q) PROVE AttachInv'
  BY <1>6 DEF CreatePairing
<1>7. ASSUME NEW p \in pairings, DeletePairing(p) PROVE AttachInv'
  BY <1>7 DEF DeletePairing
<1>8. CASE UNCHANGED accountVars
  BY <1>8 DEF accountVars
<1> QED
  BY <1>1, <1>2, <1>3, <1>4, <1>5, <1>6, <1>7, <1>8 DEF AccountsNext

\* ws.go:138: connections of two accounts are attached under one host_id only if one
\* attached a whole idle horizon before the other.
THEOREM AccountsAHorizonApart == AccountsSpec => []AttachedShareAccount
<1>1. AccountsInit => AttachInv
  BY DEF AccountsInit, AttachInv, BindingHeld, LiveShareAccount, Live, Idle
<1>2. AccountsTypeOK /\ AttachInv /\ [AccountsNext]_accountVars => AttachInv'
  BY NextAttach
<1>3. AttachInv => AttachedShareAccount
  BY DEF AttachInv, LiveShareAccount, AttachedShareAccount, Live
<1> QED
  BY <1>1, <1>2, <1>3, AccountsTypeCorrect, PTL DEF AccountsSpec

-----------------------------------------------------------------------------
(* Token verification *)

USE KeyCacheAssumption

-----------------------------------------------------------------------------
(* Type correctness *)

\* Return leaves the request idle, with an answer on typed grounds.
LEMMA ReturnType ==
  ASSUME TypeOK, NEW r \in Request,
         NEW what \in {"accepted", "ready", "unauthenticated", "unavailable"}, Return(r, what),
         UNCHANGED <<clock, cache>>
  PROVE  TypeOK'
<1>1. Grounds(r) \in {"fresh", "misled", "stale"}
  BY DEF Grounds
<1>2. answer' \in [Request ->
       [what : {"none", "accepted", "ready", "unauthenticated", "unavailable"},
        grounds : {"none", "fresh", "misled", "stale"}]]
  <2>1. answer' = [answer EXCEPT ![r] =
       [what |-> what, grounds |-> IF what \in {"accepted", "ready"} THEN Grounds(r) ELSE "none"]]
    BY DEF Return
  <2> QED
    BY <1>1, <2>1 DEF TypeOK
<1>3. /\ kid' \in [Request -> Kid \cup {NoKid}]
      /\ shared' \in [Request -> {"none", "ok", "failed"}]
      /\ start' \in [Request -> 0..clock]
  BY DEF Return, TypeOK
<1>4. pc' = [pc EXCEPT ![r] = "idle"]
  BY DEF Return, Goto
<1> QED
  BY <1>2, <1>3, <1>4 DEF TypeOK, cache

LEMMA KeyFoundReturns ==
  ASSUME NEW r \in Request, KeyFound(r)
  PROVE  \E what \in {"accepted", "ready", "unauthenticated", "unavailable"} : Return(r, what)
BY DEF KeyFound

LEMMA NextType == TypeOK /\ [Next]_vars => TypeOK'
<1> SUFFICES ASSUME TypeOK, [Next]_vars PROVE TypeOK'
  OBVIOUS
<1>1. CASE Tick
  BY <1>1 DEF Tick, TypeOK, cache, Never
<1>2. ASSUME NEW r \in Request, NEW k \in Kid \cup {NoKid}, Start(r, k) PROVE TypeOK'
  <2>1. answer' \in [Request ->
       [what : {"none", "accepted", "ready", "unauthenticated", "unavailable"},
        grounds : {"none", "fresh", "misled", "stale"}]]
    BY <1>2 DEF Start, TypeOK, NoAnswer
  <2> QED
    BY <1>2, <2>1 DEF Start, TypeOK, cache, Goto
<1>3. ASSUME NEW r \in Request, Get(r) PROVE TypeOK'
  <2>1. CASE KeyFound(r)
    BY <1>3, <2>1, KeyFoundReturns, ReturnType DEF Get
  <2>2. CASE (Goto(r, "may") \/ Goto(r, "stale")) /\ UNCHANGED <<kid, start, shared, answer>>
    BY <1>3, <2>2 DEF Get, Goto, TypeOK, cache
  <2> QED
    BY <1>3, <2>1, <2>2 DEF Get
<1>4. ASSUME NEW r \in Request, MayRefresh(r) PROVE TypeOK'
  <2>1. CASE Return(r, "unauthenticated")
    BY <1>4, <2>1, ReturnType DEF MayRefresh
  <2>2. CASE Goto(r, "unknown") /\ UNCHANGED <<kid, start, shared, answer>>
    BY <1>4, <2>2 DEF MayRefresh, Goto, TypeOK, cache
  <2> QED
    BY <1>4, <2>1, <2>2 DEF MayRefresh
<1>5. ASSUME NEW r \in Request, RefreshLead(r) PROVE TypeOK'
  BY <1>5 DEF RefreshLead, Goto, TypeOK, Never
<1>6. ASSUME NEW r \in Request, RefreshJoin(r) PROVE TypeOK'
  BY <1>6 DEF RefreshJoin, Goto, TypeOK
<1>7. ASSUME NEW r \in Request, NEW fetched \in fetchJWKS, FetchOK(r, fetched) PROVE TypeOK'
  <2>1. keys' \subseteq Kid /\ fetchedAt' \in Never..clock /\ UNCHANGED <<clock, lastAttempt>>
    BY <1>7 DEF FetchOK, fetchJWKS, TypeOK, Never
  <2> QED
    BY <1>7, <2>1 DEF FetchOK, Wake, TypeOK
<1>8. ASSUME NEW r \in Request, FetchFails(r) PROVE TypeOK'
  BY <1>8 DEF FetchFails, Wake, TypeOK
<1>9. ASSUME NEW r \in Request, WaiterGivesUp(r) PROVE TypeOK'
  BY <1>9 DEF WaiterGivesUp, Goto, TypeOK, cache
<1>10. ASSUME NEW r \in Request, AfterRefresh(r) PROVE TypeOK'
  BY <1>10, KeyFoundReturns, ReturnType DEF AfterRefresh
<1>11. ASSUME NEW r \in Request, AfterFailure(r) PROVE TypeOK'
  BY <1>11, KeyFoundReturns, ReturnType DEF AfterFailure
<1>12. CASE UNCHANGED vars
  BY <1>12 DEF vars, TypeOK, cache
<1> QED
  BY <1>1, <1>2, <1>3, <1>4, <1>5, <1>6, <1>7, <1>8, <1>9, <1>10, <1>11, <1>12 DEF Next, Step

\* The types of cache and requests; no time that was read is ahead of the clock.
THEOREM KeyCacheTypeCorrect == Spec => []TypeOK
<1>1. Init => TypeOK
  <2> SUFFICES ASSUME Init PROVE TypeOK
    OBVIOUS
  <2>1. clock \in 0..MaxClock /\ Never \in Never..clock /\ 0 \in 0..clock
    BY DEF Init, Never
  <2>2. NoAnswer \in [what : {"none", "accepted", "ready", "unauthenticated", "unavailable"},
                      grounds : {"none", "fresh", "misled", "stale"}]
    BY DEF NoAnswer
  <2> QED
    BY <2>1, <2>2 DEF Init, TypeOK
<1>2. TypeOK /\ [Next]_vars => TypeOK'
  BY NextType
<1> QED
  BY <1>1, <1>2, PTL DEF Spec

-----------------------------------------------------------------------------
(* One fetch at a time *)

\* The flag says that there is a fetcher, and there is no second one.
OneFetcher ==
  /\ \A r \in Request : pc[r] = "fetch" => inflight
  /\ inflight => \E r \in Request : pc[r] = "fetch"
  /\ \A r, q \in Request : pc[r] = "fetch" /\ pc[q] = "fetch" => r = q

WaitersListed == \A r \in Request : pc[r] = "wait" => inflight /\ r \in waiters

FlightInv == OneFetcher /\ WaitersListed

\* A request that neither enters nor leaves fetch and wait leaves both parts alone.
LEMMA FlightOther ==
  ASSUME TypeOK, FlightInv, NEW r \in Request, NEW step,
         pc[r] # "fetch", step \notin {"fetch", "wait"}, pc' = [pc EXCEPT ![r] = step],
         UNCHANGED <<inflight, waiters>>
  PROVE  FlightInv'
BY DEF FlightInv, OneFetcher, WaitersListed, TypeOK

LEMMA NextFlight == TypeOK /\ FlightInv /\ [Next]_vars => FlightInv'
<1> SUFFICES ASSUME TypeOK, FlightInv, [Next]_vars PROVE FlightInv'
  OBVIOUS
<1>1. CASE Tick \/ UNCHANGED vars
  BY <1>1 DEF Tick, vars, cache, FlightInv, OneFetcher, WaitersListed
<1>2. ASSUME NEW r \in Request, NEW k \in Kid \cup {NoKid}, Start(r, k) PROVE FlightInv'
  BY <1>2, FlightOther DEF Start, Goto, cache
<1>3. ASSUME NEW r \in Request, Get(r) \/ MayRefresh(r) \/ AfterRefresh(r) \/ AfterFailure(r)
      PROVE  FlightInv'
  <2>1. pc[r] # "fetch" /\ UNCHANGED <<inflight, waiters>>
    BY <1>3 DEF Get, MayRefresh, AfterRefresh, AfterFailure, cache
  <2>2. \E step \in {"idle", "may", "stale", "unknown"} : pc' = [pc EXCEPT ![r] = step]
    BY <1>3, KeyFoundReturns DEF Get, MayRefresh, AfterRefresh, AfterFailure, Return, Goto
  <2> QED
    BY <2>1, <2>2, FlightOther
<1>4. ASSUME NEW r \in Request, RefreshLead(r) PROVE FlightInv'
  BY <1>4 DEF RefreshLead, Goto, TypeOK, FlightInv, OneFetcher, WaitersListed
<1>5. ASSUME NEW r \in Request, RefreshJoin(r) PROVE FlightInv'
  BY <1>5 DEF RefreshJoin, Goto, TypeOK, FlightInv, OneFetcher, WaitersListed
<1>6. ASSUME NEW r \in Request,
             FetchFails(r) \/ \E fetched \in fetchJWKS : FetchOK(r, fetched)
      PROVE  FlightInv'
  <2>1. pc[r] = "fetch" /\ ~inflight'
    BY <1>6 DEF FetchFails, FetchOK
  <2>2. \A q \in Request : pc'[q] \notin {"fetch", "wait"}
    BY <1>6, <2>1 DEF FetchFails, FetchOK, Wake, TypeOK, FlightInv, OneFetcher
  <2> QED
    BY <2>1, <2>2 DEF FlightInv, OneFetcher, WaitersListed
<1>7. ASSUME NEW r \in Request, WaiterGivesUp(r) PROVE FlightInv'
  BY <1>7, FlightOther DEF WaiterGivesUp, Goto, cache
<1> QED
  BY <1>1, <1>2, <1>3, <1>4, <1>5, <1>6, <1>7 DEF Next, Step

LEMMA FlightCounts == TypeOK /\ FlightInv => SingleFlight
<1> SUFFICES ASSUME TypeOK, FlightInv PROVE SingleFlight
  OBVIOUS
<1> DEFINE F == {r \in Request : pc[r] = "fetch"}
<1>1. CASE inflight
  <2>1. PICK r \in Request : pc[r] = "fetch"
    BY <1>1 DEF FlightInv, OneFetcher
  <2>2. F = {r}
    BY <2>1 DEF FlightInv, OneFetcher
  <2>3. Cardinality({r}) = 1
    BY FS_Singleton
  <2> QED
    BY <1>1, <2>2, <2>3 DEF SingleFlight, FlightInv, WaitersListed
<1>2. CASE ~inflight
  <2>1. F = {}
    BY <1>2 DEF FlightInv, OneFetcher
  <2>2. Cardinality({}) = 0
    BY FS_EmptySet
  <2> QED
    BY <1>2, <2>1, <2>2 DEF SingleFlight, FlightInv, WaitersListed
<1> QED
  BY <1>1, <1>2

\* jwks.go:64: the flag is up exactly while one request fetches, and whoever waits is on
\* the list that request will wake, for any number of requests.
THEOREM OneFetchAtATime == Spec => []SingleFlight
<1>1. Init => FlightInv
  BY DEF Init, FlightInv, OneFetcher, WaitersListed
<1>2. TypeOK /\ FlightInv /\ [Next]_vars => FlightInv'
  BY NextFlight
<1>3. TypeOK /\ FlightInv => SingleFlight
  BY FlightCounts
<1> QED
  BY <1>1, <1>2, <1>3, KeyCacheTypeCorrect, PTL DEF Spec

-----------------------------------------------------------------------------
(* Fail closed *)

\* Whoever was woken without being misled has a key set fetched since it came in.
RefreshedSince ==
  \A r \in Request : pc[r] = "refreshed" /\ shared[r] # "failed" =>
    fetchedAt # Never /\ fetchedAt >= start[r]

FreshInv == RefreshedSince /\ FreshOrMisled

LEMMA FreshReturn ==
  ASSUME TypeOK, FreshInv, NEW r \in Request, NEW what, Return(r, what),
         what \in {"accepted", "ready"} => Fresh(start[r]) \/ shared[r] = "failed",
         UNCHANGED fetchedAt
  PROVE  FreshInv'
<1>1. answer'[r].grounds # "stale" /\ \A q \in Request \ {r} : answer'[q] = answer[q]
  BY DEF Return, Grounds, TypeOK
<1>2. RefreshedSince'
  BY DEF Return, Goto, TypeOK, FreshInv, RefreshedSince
<1> QED
  BY <1>1, <1>2 DEF FreshInv, FreshOrMisled

LEMMA NextFresh == TypeOK /\ FreshInv /\ [Next]_vars => FreshInv'
<1> SUFFICES ASSUME TypeOK, FreshInv, [Next]_vars PROVE FreshInv'
  OBVIOUS
<1>1. CASE Tick \/ UNCHANGED vars
  BY <1>1 DEF Tick, vars, cache, FreshInv, RefreshedSince, FreshOrMisled
<1>2. ASSUME NEW r \in Request, NEW k \in Kid \cup {NoKid}, Start(r, k) PROVE FreshInv'
  BY <1>2 DEF Start, Goto, cache, NoAnswer, TypeOK, FreshInv, RefreshedSince, FreshOrMisled
<1>3. ASSUME NEW r \in Request, Get(r) PROVE FreshInv'
  <2>1. CASE Fresh(start[r]) /\ KeyFound(r)
    BY <1>3, <2>1, KeyFoundReturns, FreshReturn DEF Get, cache
  <2>2. CASE (Goto(r, "may") \/ Goto(r, "stale")) /\ UNCHANGED <<kid, start, shared, answer>>
    BY <1>3, <2>2 DEF Get, Goto, cache, TypeOK, FreshInv, RefreshedSince, FreshOrMisled
  <2> QED
    BY <1>3, <2>1, <2>2 DEF Get
<1>4. ASSUME NEW r \in Request, MayRefresh(r) PROVE FreshInv'
  <2>1. CASE Return(r, "unauthenticated")
    BY <1>4, <2>1, FreshReturn DEF MayRefresh, cache
  <2>2. CASE Goto(r, "unknown") /\ UNCHANGED <<kid, start, shared, answer>>
    BY <1>4, <2>2 DEF MayRefresh, Goto, cache, TypeOK, FreshInv, RefreshedSince, FreshOrMisled
  <2> QED
    BY <1>4, <2>1, <2>2 DEF MayRefresh
<1>5. ASSUME NEW r \in Request, RefreshLead(r) \/ RefreshJoin(r) \/ WaiterGivesUp(r)
      PROVE  FreshInv'
  BY <1>5 DEF RefreshLead, RefreshJoin, WaiterGivesUp, Goto, cache, TypeOK, FreshInv,
     RefreshedSince, FreshOrMisled
<1>6. ASSUME NEW r \in Request, NEW fetched \in fetchJWKS, FetchOK(r, fetched) PROVE FreshInv'
  <2>1. fetchedAt' = clock /\ UNCHANGED <<start, answer>>
    BY <1>6 DEF FetchOK
  <2>2. \A q \in Request : start[q] <= clock
    BY DEF TypeOK
  <2> QED
    BY <2>1, <2>2 DEF TypeOK, Never, FreshInv, RefreshedSince, FreshOrMisled
<1>7. ASSUME NEW r \in Request, FetchFails(r) PROVE FreshInv'
  <2>1. \A q \in Request : pc'[q] = "refreshed" /\ shared'[q] # "failed" =>
           pc[q] = "refreshed" /\ shared[q] # "failed"
    BY <1>7 DEF FetchFails, Wake, TypeOK
  <2> QED
    BY <1>7, <2>1 DEF FetchFails, FreshInv, RefreshedSince, FreshOrMisled
<1>8. ASSUME NEW r \in Request, AfterRefresh(r) PROVE FreshInv'
  <2>1. Fresh(start[r]) \/ shared[r] = "failed"
    <3>1. ASSUME shared[r] # "failed" PROVE fetchedAt # Never /\ start[r] - fetchedAt <= 0
      BY <1>8, <3>1 DEF AfterRefresh, FreshInv, RefreshedSince, TypeOK, Never
    <3>2. CacheTTL > 0 /\ fetchedAt \in Int /\ start[r] \in Int
      BY DEF TypeOK, Never
    <3> QED
      BY <3>1, <3>2 DEF Fresh
  <2> QED
    BY <1>8, <2>1, KeyFoundReturns, FreshReturn DEF AfterRefresh, cache
<1>9. ASSUME NEW r \in Request, AfterFailure(r) PROVE FreshInv'
  <2>1. CASE StillGood(r) /\ KeyFound(r)
    <3>1. Fresh(start[r])
      BY <2>1 DEF StillGood, Fresh, TypeOK, Never
    <3> QED
      BY <1>9, <2>1, <3>1, KeyFoundReturns, FreshReturn DEF AfterFailure, cache
  <2>2. CASE Return(r, "unavailable")
    BY <1>9, <2>2, FreshReturn DEF AfterFailure, cache
  <2> QED
    BY <1>9, <2>1, <2>2 DEF AfterFailure
<1> QED
  BY <1>1, <1>2, <1>3, <1>4, <1>5, <1>6, <1>7, <1>8, <1>9 DEF Next, Step

\* verify.go:202: whoever is granted something had a key set that was fresh when it came
\* in, or waited for a refresh that failed.
THEOREM AcceptedOnlyFresh == Spec => []FreshOrMisled
<1>1. Init => FreshInv
  BY DEF Init, FreshInv, RefreshedSince, FreshOrMisled, NoAnswer
<1>2. TypeOK /\ FreshInv /\ [Next]_vars => FreshInv'
  BY NextFresh
<1>3. FreshInv => FreshOrMisled
  BY DEF FreshInv
<1> QED
  BY <1>1, <1>2, <1>3, KeyCacheTypeCorrect, PTL DEF Spec

-----------------------------------------------------------------------------
(* The unknown-kid throttle *)

\* A request past mayRefresh came in an interval after the last attempt, or before it.
PastThrottle ==
  \A r \in Request : pc[r] = "unknown" =>
    \/ lastAttempt = Never
    \/ start[r] - lastAttempt >= RefreshInterval
    \/ start[r] <= lastAttempt

LEMMA NextThrottle == TypeOK /\ PastThrottle /\ [Next]_vars => PastThrottle'
<1> SUFFICES ASSUME TypeOK, PastThrottle, [Next]_vars PROVE PastThrottle'
  OBVIOUS
<1> USE DEF PastThrottle
<1>1. CASE Tick \/ UNCHANGED vars
  BY <1>1 DEF Tick, vars, cache
<1>2. ASSUME NEW r \in Request, MayRefresh(r) PROVE PastThrottle'
  BY <1>2 DEF MayRefresh, Return, Goto, Throttled, cache, TypeOK, Never
<1>3. ASSUME NEW r \in Request, RefreshLead(r) PROVE PastThrottle'
  <2>1. lastAttempt' = clock /\ UNCHANGED start /\ \A q \in Request : start[q] <= clock
    BY <1>3 DEF RefreshLead, TypeOK
  <2> QED
    BY <2>1
<1>4. ASSUME NEW r \in Request, UNCHANGED <<lastAttempt>>,
             \A q \in Request : pc'[q] = "unknown" => pc[q] = "unknown" /\ start'[q] = start[q]
      PROVE  PastThrottle'
  BY <1>4
<1>5. ASSUME NEW r \in Request, NEW k \in Kid \cup {NoKid}, Start(r, k) PROVE PastThrottle'
  BY <1>4, <1>5 DEF Start, Goto, cache, TypeOK
<1>6. ASSUME NEW r \in Request, Get(r) \/ AfterRefresh(r) \/ AfterFailure(r) PROVE PastThrottle'
  <2>1. \/ \E what : Return(r, what)
        \/ \E step \in {"may", "stale"} : Goto(r, step) /\ UNCHANGED start
    BY <1>6, KeyFoundReturns DEF Get, AfterRefresh, AfterFailure
  <2>2. UNCHANGED lastAttempt
    BY <1>6 DEF Get, AfterRefresh, AfterFailure, cache
  <2> QED
    BY <1>4, <2>1, <2>2 DEF Return, Goto, TypeOK
<1>7. ASSUME NEW r \in Request, RefreshJoin(r) \/ WaiterGivesUp(r) PROVE PastThrottle'
  BY <1>4, <1>7 DEF RefreshJoin, WaiterGivesUp, Goto, cache, TypeOK
<1>8. ASSUME NEW r \in Request,
             FetchFails(r) \/ \E fetched \in fetchJWKS : FetchOK(r, fetched)
      PROVE  PastThrottle'
  BY <1>4, <1>8 DEF FetchFails, FetchOK, Wake, TypeOK
<1> QED
  BY <1>1, <1>2, <1>3, <1>5, <1>6, <1>7, <1>8 DEF Next, Step

\* jwks.go:25: during the interval after an attempt, no request that came in after it
\* starts another refresh for an unknown kid.
THEOREM RefreshesThrottled == Spec => UnknownKidThrottled
<1> DEFINE Throttle ==
      \A r \in Request :
        /\ RefreshLead(r) /\ pc[r] = "unknown"
        /\ lastAttempt # Never /\ clock - lastAttempt < RefreshInterval
        => start[r] <= lastAttempt
<1>1. Init => PastThrottle
  BY DEF Init, PastThrottle
<1>2. TypeOK /\ PastThrottle /\ [Next]_vars => PastThrottle'
  BY NextThrottle
<1>3. TypeOK /\ PastThrottle => Throttle
  BY DEF TypeOK, PastThrottle, Never
<1>4. TypeOK /\ PastThrottle /\ [Next]_vars => [Throttle]_vars
  BY <1>3
<1> QED
  BY <1>1, <1>2, <1>4, KeyCacheTypeCorrect, PTL DEF Spec, UnknownKidThrottled
=============================================================================
