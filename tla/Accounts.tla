------------------------------ MODULE Accounts ------------------------------
(***************************************************************************)
(* Account bindings of a host_id (relay store.go, authz.go): bound by the  *)
(* first /v1/host attach, refused to every other account while it stands,  *)
(* and reaped lazily once the host has no pairing and was idle for long.   *)
(* Handlers take one store call or one critical section of the relay per   *)
(* step, and time may pass between any two steps.  A store call and the    *)
(* reading of the clock that it is given are one step.                     *)
(***************************************************************************)
EXTENDS Integers, FiniteSets

CONSTANTS
  Account,    \* token subjects
  Host,       \* host ids
  HostConn,   \* /v1/host connections
  Create,     \* POST /v1/pairings requests, each registering one pairing
  NoAccount,
  IdleReap,   \* MemStore.idleReap
  LastDay     \* bound on the clock

ASSUME AccountsAssumption ==
  /\ {IdleReap, LastDay} \subseteq Nat \ {0}
  /\ NoAccount \notin Account
  /\ Host # {}

VARIABLES
  today,      \* Config.Clock, in days: the horizon is 30 of them
  bindings,   \* MemStore.bindings: per host, account and LastAttachAt
  pairings,   \* MemStore.pairings: set of [id, host, account]
  conn,       \* per connection: step, host, account, time of its BindHost
  create,     \* per request: step, host, account
  exposed     \* observer: requests whose host's binding was reaped after their account check

accountVars == <<today, bindings, pairings, conn, create, exposed>>

NoBinding == [account |-> NoAccount, lastAttachAt |-> 0]

Idle(h) == [pc |-> "idle", host |-> h, account |-> NoAccount, since |-> 0]

\* The types of the state: no timestamp is ahead of the clock, and whoever is past the
\* account check has an account.
AccountsTypeOK ==
  /\ today \in 0..LastDay
  /\ bindings \in [Host -> [account : Account \cup {NoAccount}, lastAttachAt : 0..today]]
  /\ pairings \subseteq [id : Create, host : Host, account : Account]
  /\ conn \in [HostConn -> [pc : {"idle", "bound", "attached", "left"}, host : Host,
                            account : Account \cup {NoAccount}, since : 0..today]]
  /\ create \in [Create -> [pc : {"new", "authorized", "done"}, host : Host,
                            account : Account \cup {NoAccount}]]
  /\ \A c \in HostConn : conn[c].pc # "idle" => conn[c].account \in Account
  /\ \A q \in Create : create[q].pc # "new" => create[q].account \in Account
  /\ exposed \subseteq Create

AccountsInit ==
  LET h0 == CHOOSE h \in Host : TRUE
  IN  /\ today = 0
      /\ bindings = [h \in Host |-> NoBinding]
      /\ pairings = {}
      /\ conn = [c \in HostConn |-> Idle(h0)]
      /\ create = [q \in Create |-> [pc |-> "new", host |-> h0, account |-> NoAccount]]
      /\ exposed = {}

\* Time passes, handlers under way or not.
NewDay ==
  /\ today < LastDay
  /\ today' = today + 1
  /\ UNCHANGED <<bindings, pairings, conn, create, exposed>>

-----------------------------------------------------------------------------
\* Weakened form: the reaper asks for idleness alone.
hostHasPairings_Unasked(h) == FALSE

hostHasPairings(h) == \E p \in pairings : p.host = h

LongIdle(h) == today - bindings[h].lastAttachAt >= IdleReap

\* bindingLocked: the binding that survives the reaper.
Binding(h) == IF ~hostHasPairings(h) /\ LongIdle(h) THEN NoBinding ELSE bindings[h]

\* A lookup that reaps h exposes the requests that have checked the binding and not
\* yet registered their pairing.
Expose(h) ==
  exposed' = exposed \cup {q \in Create :
    /\ create[q].pc = "authorized" /\ create[q].host = h
    /\ Binding(h) # bindings[h]}

\* Weakened form: whoever comes is bound.
MayBind_Anyone(h, a) == TRUE

MayBind(h, a) == Binding(h).account \in {a, NoAccount}

\* handleHostWS up to BindHost: bound, or refused with forbidden.
BindHost(c, h, a) ==
  /\ conn[c].pc = "idle"
  /\ \/ /\ MayBind(h, a)
        /\ bindings' = [bindings EXCEPT ![h] = [account |-> a, lastAttachAt |-> today]]
        /\ conn' = [conn EXCEPT ![c] =
                      [pc |-> "bound", host |-> h, account |-> a, since |-> today]]
     \/ /\ ~MayBind(h, a)
        /\ bindings' = [bindings EXCEPT ![h] = Binding(h)]
        /\ UNCHANGED conn
  /\ Expose(h)
  /\ UNCHANGED <<today, pairings, create>>

\* The upgrade succeeds and the connection enters hostConns, or it fails.
Upgrade(c) ==
  /\ conn[c].pc = "bound"
  /\ \/ conn' = [conn EXCEPT ![c].pc = "attached"]
     \/ conn' = [conn EXCEPT ![c] = Idle(conn[c].host)]
  /\ UNCHANGED <<today, bindings, pairings, create, exposed>>

\* The deferred cleanup: out of hostConns, then TouchBinding.
Leave(c) ==
  /\ conn[c].pc = "attached"
  /\ conn' = [conn EXCEPT ![c].pc = "left"]
  /\ UNCHANGED <<today, bindings, pairings, create, exposed>>

\* TouchBinding asks neither for the account nor the reaper.
TouchBinding(c) ==
  LET h == conn[c].host
  IN  /\ conn[c].pc = "left"
      /\ bindings' = IF bindings[h].account = NoAccount THEN bindings
                     ELSE [bindings EXCEPT ![h].lastAttachAt = today]
      /\ conn' = [conn EXCEPT ![c] = Idle(h)]
      /\ UNCHANGED <<today, pairings, create, exposed>>

-----------------------------------------------------------------------------
\* authorizeHostID: only an attach creates a binding.
Authorized(h, a) == Binding(h).account = a

\* handleCreatePairing up to the account check; the lookup reaps.
CreateAuthorize(q, h, a) ==
  /\ create[q].pc = "new"
  /\ bindings' = [bindings EXCEPT ![h] = Binding(h)]
  /\ create' = IF Authorized(h, a)
               THEN [create EXCEPT ![q] = [pc |-> "authorized", host |-> h, account |-> a]]
               ELSE create
  /\ Expose(h)
  /\ UNCHANGED <<today, pairings, conn>>

\* CreatePairing on a channel of its own.
CreatePairing(q) ==
  /\ create[q].pc = "authorized"
  /\ pairings' = pairings \cup {[id |-> q, host |-> create[q].host, account |-> create[q].account]}
  /\ create' = [create EXCEPT ![q].pc = "done"]
  /\ UNCHANGED <<today, bindings, conn, exposed>>

\* DELETE by the account that registered it; its id can be drawn again.
DeletePairing(p) ==
  /\ pairings' = pairings \ {p}
  /\ create' = [create EXCEPT ![p.id] =
                 [pc |-> "new", host |-> @.host, account |-> NoAccount]]
  /\ exposed' = exposed \ {p.id}
  /\ UNCHANGED <<today, bindings, conn>>

-----------------------------------------------------------------------------
AccountsNext ==
  \/ NewDay
  \/ \E c \in HostConn :
       \/ Upgrade(c) \/ Leave(c) \/ TouchBinding(c)
       \/ \E h \in Host, a \in Account : BindHost(c, h, a)
  \/ \E q \in Create :
       \/ CreatePairing(q)
       \/ \E h \in Host, a \in Account : CreateAuthorize(q, h, a)
  \/ \E p \in pairings : DeletePairing(p)

AccountsSpec == AccountsInit /\ [][AccountsNext]_accountVars

-----------------------------------------------------------------------------
\* store.go:299: a registration keeps its host with the account that made it, although
\* the account check and the registration are two store calls and any lookup reaps:
\* unless the binding was reaped between the two, when nothing protected it any more.
PairingsOfBoundAccount ==
  \A p \in pairings : bindings[p.host].account = p.account \/ p.id \in exposed

\* ws.go:138: a host_id is never rebound.  Connections of two accounts are attached under
\* one host_id only if one of them was idle, in the reaper's sense, for the
\* whole horizon: it attached that long before the other.
AttachedShareAccount ==
  \A c, d \in {e \in HostConn : conn[e].pc = "attached"} :
    conn[c].host = conn[d].host /\ conn[c].account # conn[d].account
      => \/ conn[c].since - conn[d].since >= IdleReap
         \/ conn[d].since - conn[c].since >= IdleReap
=============================================================================
