------------------------------- MODULE Router -------------------------------
(***************************************************************************)
(* Channel routing in internal/relay: routing registrations, the two       *)
(* connection tables, host->device and device->host frames, the mailbox    *)
(* arm, pushes, device presence (6.1) and revocation.                      *)
(*                                                                         *)
(* Every request and every WebSocket runs in its own goroutine.  A Store   *)
(* call is atomic under MemStore.mu, a table access is atomic under        *)
(* Relay.mu, and NOTHING spans two of them: one action here is one such    *)
(* critical section, and a handler is a walk of its program counter        *)
(* through several.                                                        *)
(*                                                                         *)
(* Bearer tokens and account checks precede every step below and change no *)
(* state when they refuse, so only admitted requests appear.  Host         *)
(* presence, pairing windows and account bindings share no variable with   *)
(* this slice.  enqueue never blocks; what a full queue drops is the       *)
(* connection's affair and not the router's.                               *)
(***************************************************************************)
EXTENDS Integers, Sequences, FiniteSets

CONSTANTS
  Channel, Host, Device,
  TokenDevice,             \* the devices that register a push token
  PairingId,               \* relay-generated pairing ids, never reused
  NoId,                    \* byChannel has no entry
  NoPairing,               \* a handler holds no registration
  HostConn,                \* host WebSocket handlers
  DevConn,                 \* durable device WebSocket handlers
  DelReq,                  \* DELETE /v1/pairings/{id} handlers
  DeviceAttachPerChannel,  \* Limits.DeviceAttachPerChannel, 0 disables the cap
  MailboxMaxFrames,        \* MailboxPolicy.MaxFrames
  MaxSeq                   \* bound on host frames

Pairing   == [id : PairingId, ch : Channel, host : Host, dev : Device]
PushClass == {"none", "push"}   \* wake and attention differ only in payload
Frame     == [seq : 1..MaxSeq, ch : Channel, push : PushClass,
              big : BOOLEAN]    \* the body alone is above MailboxPolicy.MaxBytes
Presence  == {"unknown", "attached", "detached"}

ASSUME RouterAssumption ==
  /\ NoId \notin PairingId
  /\ NoPairing \notin Pairing
  /\ DeviceAttachPerChannel \in Nat
  /\ MailboxMaxFrames \in Nat \ {0}
  /\ MaxSeq \in Nat \ {0}
  /\ Channel # {} /\ Host # {} /\ Device # {} /\ PairingId # {}
  /\ HostConn \cap DevConn = {}
  /\ TokenDevice \subseteq Device

VARIABLES
  \* MemStore
  pairings,   \* the routing registrations
  byChannel,  \* channel -> pairing id
  usedIds,    \* ids NewID has handed out
  mailbox,    \* channel -> buffered frames, oldest first
  devPres,    \* channel -> 6.1 presence record
  apns,       \* devices with a push token
  \* Relay.mu
  hostConns, devConns,
  \* host connection handlers
  hpc, hhost, hframe, hpair, snapTodo, snap,
  told,       \* what the last 6.1 message queued to a host connection says
  \* device connection handlers
  dpc, dch, dpair, dgoal, dold,
  closed,     \* running device handlers whose socket the relay has closed
  \* REST handlers
  xpc, xpair, xconns,
  apnsReq,    \* token registrations past their ownership check
  \* observed by the properties only
  sent,       \* host frames read so far
  fate,       \* what became of each host frame
  pushed,     \* frames for which a push went out
  seen,       \* per connection: pairings registered since its frame was read
  raced,      \* host handlers whose channel lost a socket since they checked it
  overlapped, \* channels whose last transition met another, or a revocation
  overtaken   \* <<host handler, channel>>: its last word is a snapshot older than a transition

storeVars == <<pairings, byChannel, usedIds, mailbox, devPres, apns>>
tableVars == <<hostConns, devConns>>
hostVars  == <<hpc, hhost, hframe, hpair, snapTodo, snap, told>>
devVars   == <<dpc, dch, dpair, dgoal, dold, closed>>
restVars  == <<xpc, xpair, xconns, apnsReq>>
noteVars  == <<overlapped, overtaken>>
ghostVars == <<sent, fate, pushed, seen, raced, noteVars>>
vars == <<storeVars, tableVars, hostVars, devVars, restVars, ghostVars>>

-----------------------------------------------------------------------------
(* Store and table reads *)

\* PairingByChannel: the registration of c, as a set of at most one record.
PairingByChannel(c) == {p \in pairings : p.id = byChannel[c]}

Registered(c) == byChannel[c] # NoId

\* Reads connections, not the presence record.
deviceAttachedNow(c) == devConns[c] # {}

\* Host handlers that have decided to forward live on c but not yet done so.
Forwarding(c) == {hc \in HostConn : hpc[hc] = "forward" /\ hframe[hc].ch = c}

\* Ids of everything registered now.
LiveIds == {p.id : p \in pairings}

\* Connections with a frame in hand.
Routing == {hc \in HostConn : hpc[hc] \in {"lookup", "check", "forward", "append", "push"}}
           \cup {dc \in DevConn : dpc[dc] \in {"lookup", "forward"}}

\* Device handlers within setDeviceAttached for c.
SetSpan == {"setLookup", "setPut", "setPairing", "setPublish"}
Publishing(c) == {dc \in DevConn : dch[dc] = c /\ dpc[dc] \in SetSpan}

\* A transition or a revocation of c begins: it overlaps the transitions under way.
Overlap(c) == overlapped' = IF Publishing(c) = {} THEN overlapped ELSE overlapped \cup {c}

\* The device handler is between its table insert and its cleanup.
Attached(dc) ==
  \/ dpc[dc] \in {"read", "lookup", "forward", "cleanup"}
  \/ dpc[dc] \in SetSpan /\ dgoal[dc] = "attached"

\* What a handler's local variables hold when they are not in use.
NoFrame   == CHOOSE f \in Frame : TRUE
NoSnap    == [ch |-> CHOOSE c \in Channel : TRUE, val |-> "detached"]

Init ==
  /\ pairings = {}
  /\ byChannel = [c \in Channel |-> NoId]
  /\ usedIds = {}
  /\ mailbox = [c \in Channel |-> <<>>]
  /\ devPres = [c \in Channel |-> "unknown"]
  /\ apns = {}
  /\ hostConns = [h \in Host |-> {}]
  /\ devConns = [c \in Channel |-> {}]
  /\ hpc = [hc \in HostConn |-> "idle"]
  /\ hhost = [hc \in HostConn |-> CHOOSE h \in Host : TRUE]
  /\ hframe = [hc \in HostConn |-> NoFrame]
  /\ hpair = [hc \in HostConn |-> NoPairing]
  /\ snapTodo = [hc \in HostConn |-> {}]
  /\ snap = [hc \in HostConn |-> NoSnap]
  /\ told = [hc \in HostConn |-> [c \in Channel |-> "unknown"]]
  /\ dpc = [dc \in DevConn |-> "idle"]
  /\ dch = [dc \in DevConn |-> CHOOSE c \in Channel : TRUE]
  /\ dpair = [dc \in DevConn |-> NoPairing]
  /\ dgoal = [dc \in DevConn |-> "detached"]
  /\ dold = [dc \in DevConn |-> "unknown"]
  /\ closed = {}
  /\ xpc = [x \in DelReq |-> "idle"]
  /\ xpair = [x \in DelReq |-> NoPairing]
  /\ xconns = [x \in DelReq |-> {}]
  /\ apnsReq = {}
  /\ sent = 0
  /\ fate = [n \in 1..MaxSeq |-> "unsent"]
  /\ pushed = {}
  /\ seen = [k \in HostConn \cup DevConn |-> {}]
  /\ raced = {}
  /\ overlapped = {}
  /\ overtaken = {}

-----------------------------------------------------------------------------
(* POST /v1/pairings, DELETE /v1/pairings/{id}, POST /v1/apns *)

\* Weakened form: registration without the channel-taken check.
CreatePairing_Overwrites(id, c, h, d) ==
  /\ id \notin usedIds
  /\ usedIds' = usedIds \cup {id}
  /\ pairings' = pairings \cup {[id |-> id, ch |-> c, host |-> h, dev |-> d]}
  /\ byChannel' = [byChannel EXCEPT ![c] = id]
  /\ seen' = [k \in HostConn \cup DevConn |-> IF k \in Routing THEN seen[k] \cup {id} ELSE seen[k]]
  /\ UNCHANGED <<mailbox, devPres, apns, sent, fate, pushed, raced, noteVars>>
  /\ UNCHANGED <<tableVars, hostVars, devVars, restVars>>

\* One Store.CreatePairing; a taken channel is refused with conflict.
CreatePairing(id, c, h, d) ==
  /\ id \notin usedIds
  /\ ~Registered(c)
  /\ usedIds' = usedIds \cup {id}
  /\ pairings' = pairings \cup {[id |-> id, ch |-> c, host |-> h, dev |-> d]}
  /\ byChannel' = [byChannel EXCEPT ![c] = id]
  /\ seen' = [k \in HostConn \cup DevConn |-> IF k \in Routing THEN seen[k] \cup {id} ELSE seen[k]]
  /\ UNCHANGED <<mailbox, devPres, apns, sent, fate, pushed, raced, noteVars>>
  /\ UNCHANGED <<tableVars, hostVars, devVars, restVars>>

DeleteLookup(x) ==
  /\ xpc[x] = "idle"
  /\ \E p \in pairings : xpair' = [xpair EXCEPT ![x] = p]
  /\ xpc' = [xpc EXCEPT ![x] = "delete"]
  /\ UNCHANGED <<xconns, apnsReq, storeVars, tableVars, hostVars, devVars, ghostVars>>

\* Store.DeletePairing: the registration, its mailbox and presence record, and
\* the push token unless another pairing has the device.  Deleting a pairing
\* that is already gone is not an error and the handler goes on.
DeletePairing(x) ==
  LET p == xpair[x]
  IN  /\ xpc[x] = "delete"
      /\ xpc' = [xpc EXCEPT ![x] = "take"]
      /\ IF p \in pairings
         THEN /\ pairings' = pairings \ {p}
              /\ byChannel' = [byChannel EXCEPT ![p.ch] = NoId]
              /\ mailbox' = [mailbox EXCEPT ![p.ch] = <<>>]
              /\ devPres' = [devPres EXCEPT ![p.ch] = "unknown"]
              /\ apns' = IF \E q \in pairings \ {p} : q.dev = p.dev THEN apns ELSE apns \ {p.dev}
              /\ Overlap(p.ch)
         ELSE UNCHANGED <<pairings, byChannel, mailbox, devPres, apns, overlapped>>
      /\ UNCHANGED <<usedIds, xpair, xconns, apnsReq, sent, fate, pushed, seen, raced, overtaken>>
      /\ UNCHANGED <<tableVars, hostVars, devVars>>

\* Weakened form: the table entry is dropped and its sockets forgotten.
DeleteTakeConns_Forgets(x) ==
  LET c == xpair[x].ch
  IN  /\ xpc[x] = "take"
      /\ devConns' = [devConns EXCEPT ![c] = {}]
      /\ raced' = IF devConns[c] = {} THEN raced ELSE raced \cup Forwarding(c)
      /\ xpc' = [xpc EXCEPT ![x] = "close"]
      /\ UNCHANGED <<hostConns, xpair, xconns, apnsReq, sent, fate, pushed, seen, noteVars>>
      /\ UNCHANGED <<storeVars, hostVars, devVars>>

\* Take the channel's sockets out of the table ...
DeleteTakeConns(x) ==
  LET c == xpair[x].ch
  IN  /\ xpc[x] = "take"
      /\ xconns' = [xconns EXCEPT ![x] = devConns[c]]
      /\ devConns' = [devConns EXCEPT ![c] = {}]
      /\ raced' = IF devConns[c] = {} THEN raced ELSE raced \cup Forwarding(c)
      /\ xpc' = [xpc EXCEPT ![x] = "close"]
      /\ UNCHANGED <<hostConns, xpair, apnsReq, sent, fate, pushed, seen, noteVars>>
      /\ UNCHANGED <<storeVars, hostVars, devVars>>

\* ... and close them with 4403, outside the lock.
DeleteCloseConns(x) ==
  /\ xpc[x] = "close"
  /\ closed' = closed \cup {dc \in xconns[x] : Attached(dc)}
  /\ xconns' = [xconns EXCEPT ![x] = {}]
  /\ xpair' = [xpair EXCEPT ![x] = NoPairing]
  /\ xpc' = [xpc EXCEPT ![x] = "idle"]
  /\ UNCHANGED <<apnsReq, dpc, dch, dpair, dgoal, dold>>
  /\ UNCHANGED <<storeVars, tableVars, hostVars, ghostVars>>

\* handleAPNSRegister: PairingsForDevice must show a pairing of the device ...
RegisterCheckOwner(d) ==
  /\ \E p \in pairings : p.dev = d
  /\ apnsReq' = apnsReq \cup {d}
  /\ UNCHANGED <<xpc, xpair, xconns, storeVars, tableVars, hostVars, devVars, ghostVars>>

\* ... before PutAPNSToken, a separate store call.
RegisterPutToken(d) ==
  /\ d \in apnsReq
  /\ apnsReq' = apnsReq \ {d}
  /\ apns' = apns \cup {d}
  /\ UNCHANGED <<pairings, byChannel, usedIds, mailbox, devPres, xpc, xpair, xconns>>
  /\ UNCHANGED <<tableVars, hostVars, devVars, ghostVars>>

-----------------------------------------------------------------------------
(* handleHostWS: attach, 6.1 snapshot, read loop, cleanup *)

HostGoto(hc, pc) == hpc' = [hpc EXCEPT ![hc] = pc]

\* routeHostFrame returns: back to the read loop, its locals gone.
HostReturn(hc) ==
  /\ HostGoto(hc, "read")
  /\ hframe' = [hframe EXCEPT ![hc] = NoFrame]
  /\ hpair' = [hpair EXCEPT ![hc] = NoPairing]
  /\ seen' = [seen EXCEPT ![hc] = {}]
  /\ raced' = raced \ {hc}

HostAttach(hc, h) ==
  /\ hpc[hc] = "idle"
  /\ hhost' = [hhost EXCEPT ![hc] = h]
  /\ hostConns' = [hostConns EXCEPT ![h] = @ \cup {hc}]
  /\ HostGoto(hc, "pairings")
  /\ UNCHANGED <<devConns, hframe, hpair, snapTodo, snap, told>>
  /\ UNCHANGED <<storeVars, devVars, restVars, ghostVars>>

\* Weakened form: no snapshot, the next transition will tell.
HostListPairings_NoSnapshot(hc) ==
  /\ hpc[hc] = "pairings"
  /\ HostGoto(hc, "read")
  /\ UNCHANGED <<hhost, hframe, hpair, snapTodo, snap, told>>
  /\ UNCHANGED <<storeVars, tableVars, devVars, restVars, ghostVars>>

HostListPairings(hc) ==
  LET todo == {p.ch : p \in {q \in pairings : q.host = hhost[hc]}}
  IN  /\ hpc[hc] = "pairings"
      /\ snapTodo' = [snapTodo EXCEPT ![hc] = todo]
      /\ HostGoto(hc, IF todo = {} THEN "read" ELSE "snap")
      /\ UNCHANGED <<hhost, hframe, hpair, snap, told>>
      /\ UNCHANGED <<storeVars, tableVars, devVars, restVars, ghostVars>>

\* The presence record is read in one store call (no record reads as detached) ...
HostSnapLookup(hc, c) ==
  /\ hpc[hc] = "snap"
  /\ c \in snapTodo[hc]
  /\ snapTodo' = [snapTodo EXCEPT ![hc] = @ \ {c}]
  /\ snap' = [snap EXCEPT ![hc] =
       [ch |-> c, val |-> IF devPres[c] = "attached" THEN "attached" ELSE "detached"]]
  /\ HostGoto(hc, "snapSend")
  /\ UNCHANGED <<hhost, hframe, hpair, told>>
  /\ UNCHANGED <<storeVars, tableVars, devVars, restVars, ghostVars>>

\* ... and queued to the socket afterwards.
HostSnapSend(hc) ==
  /\ hpc[hc] = "snapSend"
  /\ told' = [told EXCEPT ![hc] = [@ EXCEPT ![snap[hc].ch] = snap[hc].val]]
  /\ snap' = [snap EXCEPT ![hc] = NoSnap]
  /\ HostGoto(hc, IF snapTodo[hc] = {} THEN "read" ELSE "snap")
  /\ UNCHANGED <<hhost, hframe, hpair, snapTodo>>
  /\ UNCHANGED <<storeVars, tableVars, devVars, restVars, ghostVars>>

\* A well-formed frame within the rate limit, not on a provisional channel.
HostRead(hc, c, push, big) ==
  /\ hpc[hc] = "read"
  /\ sent < MaxSeq
  /\ sent' = sent + 1
  /\ hframe' = [hframe EXCEPT ![hc] = 
       [seq |-> sent + 1, ch |-> c, push |-> push, big |-> big]]
  /\ fate' = [fate EXCEPT ![sent + 1] = "routing"]
  /\ seen' = [seen EXCEPT ![hc] = LiveIds]
  /\ HostGoto(hc, "lookup")
  /\ UNCHANGED <<hhost, hpair, snapTodo, snap, told, pushed, raced, noteVars>>
  /\ UNCHANGED <<storeVars, tableVars, devVars, restVars>>

\* Weakened form: any registered channel will do, whosever host it is.
HostLookup_AnyHost(hc) ==
  LET found == PairingByChannel(hframe[hc].ch)
  IN  /\ hpc[hc] = "lookup"
      /\ \/ /\ found = {}
            /\ fate' = [fate EXCEPT ![hframe[hc].seq] = "not_found"]
            /\ HostReturn(hc)
         \/ /\ \E p \in found : hpair' = [hpair EXCEPT ![hc] = p]
            /\ HostGoto(hc, "check")
            /\ UNCHANGED <<fate, hframe, seen, raced>>
      /\ UNCHANGED <<hhost, snapTodo, snap, told, sent, pushed, noteVars>>
      /\ UNCHANGED <<storeVars, tableVars, devVars, restVars>>

\* Arm 3: an unknown channel, or one of another host, is answered not_found.
HostLookup(hc) ==
  LET found == {p \in PairingByChannel(hframe[hc].ch) : p.host = hhost[hc]}
  IN  /\ hpc[hc] = "lookup"
      /\ \/ /\ found = {}
            /\ fate' = [fate EXCEPT ![hframe[hc].seq] = "not_found"]
            /\ HostReturn(hc)
         \/ /\ \E p \in found : hpair' = [hpair EXCEPT ![hc] = p]
            /\ HostGoto(hc, "check")
            /\ UNCHANGED <<fate, hframe, seen, raced>>
      /\ UNCHANGED <<hhost, snapTodo, snap, told, sent, pushed, noteVars>>
      /\ UNCHANGED <<storeVars, tableVars, devVars, restVars>>

\* Weakened form: the presence record instead of the socket table.
HostCheckAttached_Record(hc) ==
  /\ hpc[hc] = "check"
  /\ HostGoto(hc, IF devPres[hframe[hc].ch] = "attached" THEN "forward" ELSE "append")
  /\ UNCHANGED <<hhost, hframe, hpair, snapTodo, snap, told, ghostVars>>
  /\ UNCHANGED <<storeVars, tableVars, devVars, restVars>>

HostCheckAttached(hc) ==
  /\ hpc[hc] = "check"
  /\ HostGoto(hc, IF deviceAttachedNow(hframe[hc].ch) THEN "forward" ELSE "append")
  /\ UNCHANGED <<hhost, hframe, hpair, snapTodo, snap, told, ghostVars>>
  /\ UNCHANGED <<storeVars, tableVars, devVars, restVars>>

\* Weakened form: the live arm falls through to maybePush.
HostForward_ThenPush(hc) ==
  /\ hpc[hc] = "forward"
  /\ fate' = [fate EXCEPT ![hframe[hc].seq] =
                IF deviceAttachedNow(hframe[hc].ch) THEN "live" ELSE "lost"]
  /\ HostGoto(hc, "push")
  /\ UNCHANGED <<hhost, hframe, hpair, snapTodo, snap, told, sent, pushed, seen, raced, noteVars>>
  /\ UNCHANGED <<storeVars, tableVars, devVars, restVars>>

\* Arm 1: the sockets are copied out of the table in a second critical section.
HostForward(hc) ==
  /\ hpc[hc] = "forward"
  /\ fate' = [fate EXCEPT ![hframe[hc].seq] =
                IF deviceAttachedNow(hframe[hc].ch) THEN "live" ELSE "lost"]
  /\ HostReturn(hc)
  /\ UNCHANGED <<hhost, snapTodo, snap, told, sent, pushed, noteVars>>
  /\ UNCHANGED <<storeVars, tableVars, devVars, restVars>>

\* Arm 2.  A body above the byte cap evicts everything, itself included; short of that
\* eviction keeps the newest MailboxMaxFrames (Mailbox has the policy in full).  The
\* append reports no eviction, and the handler goes on to maybePush.
HostAppendMailbox(hc) ==
  LET c   == hframe[hc].ch
      all == Append(mailbox[c], hframe[hc])
  IN  /\ hpc[hc] = "append"
      /\ mailbox' = [mailbox EXCEPT ![c] =
           IF hframe[hc].big THEN <<>>
           ELSE IF Len(all) > MailboxMaxFrames THEN Tail(all) ELSE all]
      /\ fate' = [fate EXCEPT ![hframe[hc].seq] =
           IF hframe[hc].big THEN "oversized" ELSE "mailboxed"]
      /\ HostGoto(hc, "push")
      /\ UNCHANGED <<pairings, byChannel, usedIds, devPres, apns, sent, pushed, seen, raced, noteVars>>
      /\ UNCHANGED <<hhost, hframe, hpair, snapTodo, snap, told>>
      /\ UNCHANGED <<tableVars, devVars, restVars>>

HostMaybePush(hc) ==
  /\ hpc[hc] = "push"
  /\ pushed' = IF hframe[hc].push # "none" /\ hpair[hc].dev \in apns
               THEN pushed \cup {hframe[hc].seq} ELSE pushed
  /\ HostReturn(hc)
  /\ UNCHANGED <<hhost, snapTodo, snap, told, sent, fate, noteVars>>
  /\ UNCHANGED <<storeVars, tableVars, devVars, restVars>>

\* The read fails, or the frame is oversized, malformed or over the limit: the
\* handler returns through its deferred cleanup.
HostEnd(hc) ==
  /\ hpc[hc] = "read"
  /\ HostGoto(hc, "cleanup")
  /\ UNCHANGED <<hhost, hframe, hpair, snapTodo, snap, told>>
  /\ UNCHANGED <<storeVars, tableVars, devVars, restVars, ghostVars>>

HostCleanup(hc) ==
  /\ hpc[hc] = "cleanup"
  /\ hostConns' = [hostConns EXCEPT ![hhost[hc]] = @ \ {hc}]
  /\ told' = [told EXCEPT ![hc] = [c \in Channel |-> "unknown"]]
  /\ overtaken' = overtaken \ ({hc} \X Channel)
  /\ HostGoto(hc, "idle")
  /\ UNCHANGED <<devConns, hhost, hframe, hpair, snapTodo, snap>>
  /\ UNCHANGED <<sent, fate, pushed, seen, raced, overlapped, storeVars, devVars, restVars>>

-----------------------------------------------------------------------------
(* deviceChannelAttach, setDeviceAttached, routeDeviceFrame *)

DevGoto(dc, pc) == dpc' = [dpc EXCEPT ![dc] = pc]

\* authorizeChannel.  A connection name is free again once its handler has
\* ended and no revocation still holds the old socket.
DevAuthorize(dc, c) ==
  /\ dpc[dc] = "idle"
  /\ \A x \in DelReq : dc \notin xconns[x]
  /\ PairingByChannel(c) # {}
  /\ dch' = [dch EXCEPT ![dc] = c]
  /\ DevGoto(dc, "cap")
  /\ UNCHANGED <<dpair, dgoal, dold, closed, storeVars, tableVars, hostVars, restVars, ghostVars>>

OverCap(c) ==
  DeviceAttachPerChannel > 0 /\ Cardinality(devConns[c]) >= DeviceAttachPerChannel

\* Over the cap the request is refused with rate_limited.
DevCheckCap(dc) ==
  /\ dpc[dc] = "cap"
  /\ DevGoto(dc, IF OverCap(dch[dc]) THEN "idle" ELSE "insert")
  /\ UNCHANGED <<dch, dpair, dgoal, dold, closed>>
  /\ UNCHANGED <<storeVars, tableVars, hostVars, restVars, ghostVars>>

\* The upgrade fails.
DevUpgradeFails(dc) ==
  /\ dpc[dc] = "insert"
  /\ DevGoto(dc, "idle")
  /\ UNCHANGED <<dch, dpair, dgoal, dold, closed>>
  /\ UNCHANGED <<storeVars, tableVars, hostVars, restVars, ghostVars>>

\* Only the first socket of a channel publishes.
DevInsert(dc) ==
  /\ dpc[dc] = "insert"
  /\ devConns' = [devConns EXCEPT ![dch[dc]] = @ \cup {dc}]
  /\ dgoal' = [dgoal EXCEPT ![dc] = "attached"]
  /\ \/ devConns[dch[dc]] = {} /\ DevGoto(dc, "setLookup") /\ Overlap(dch[dc])
     \/ devConns[dch[dc]] # {} /\ DevGoto(dc, "read") /\ UNCHANGED overlapped
  /\ UNCHANGED <<hostConns, dch, dpair, dold, closed>>
  /\ UNCHANGED <<sent, fate, pushed, seen, raced, overtaken, storeVars, hostVars, restVars>>

\* setDeviceAttached reads the record, writes it, resolves the host and
\* publishes, in four critical sections.  AfterSet is where its caller resumes.
AfterSet(dc) == IF dgoal[dc] = "attached" THEN "read" ELSE "idle"

SetLookup(dc) ==
  /\ dpc[dc] = "setLookup"
  /\ dold' = [dold EXCEPT ![dc] = devPres[dch[dc]]]
  /\ DevGoto(dc, "setPut")
  /\ UNCHANGED <<dch, dpair, dgoal, closed, storeVars, tableVars, hostVars, restVars, ghostVars>>

\* Only a changed flag is published; no record counts as detached.
SetPut(dc) ==
  /\ dpc[dc] = "setPut"
  /\ devPres' = [devPres EXCEPT ![dch[dc]] = dgoal[dc]]
  /\ DevGoto(dc, IF (dold[dc] = "attached") # (dgoal[dc] = "attached")
                 THEN "setPairing" ELSE AfterSet(dc))
  /\ dold' = [dold EXCEPT ![dc] = "unknown"]
  /\ UNCHANGED <<pairings, byChannel, usedIds, mailbox, apns, dch, dpair, dgoal, closed>>
  /\ UNCHANGED <<tableVars, hostVars, restVars, ghostVars>>

SetPairing(dc) ==
  /\ dpc[dc] = "setPairing"
  /\ \/ /\ PairingByChannel(dch[dc]) = {}
        /\ DevGoto(dc, AfterSet(dc))
        /\ overlapped' = IF dgoal[dc] = "attached" THEN overlapped \cup {dch[dc]} ELSE overlapped
        /\ UNCHANGED dpair
     \/ /\ \E p \in PairingByChannel(dch[dc]) : dpair' = [dpair EXCEPT ![dc] = p]
        /\ DevGoto(dc, "setPublish")
        /\ UNCHANGED overlapped
  /\ UNCHANGED <<dch, dgoal, dold, closed, sent, fate, pushed, seen, raced, overtaken>>
  /\ UNCHANGED <<storeVars, tableVars, hostVars, restVars>>

\* An announcement that nothing runs into puts the channel right again.
Undisturbed(dc) ==
  /\ dgoal[dc] = "attached" /\ devPres[dch[dc]] = "attached"
  /\ Publishing(dch[dc]) = {dc}
  /\ dpair[dc] \in pairings

\* The snapshot in hc's hands says otherwise and will be queued after this.
Outdated(hc, dc) ==
  hpc[hc] = "snapSend" /\ snap[hc].ch = dch[dc] /\ snap[hc].val # dgoal[dc]

SetPublish(dc) ==
  /\ dpc[dc] = "setPublish"
  /\ told' = [hc \in HostConn |->
       IF hc \in hostConns[dpair[dc].host]
       THEN [told[hc] EXCEPT ![dch[dc]] = dgoal[dc]] ELSE told[hc]]
  /\ DevGoto(dc, AfterSet(dc))
  /\ dpair' = [dpair EXCEPT ![dc] = NoPairing]
  /\ overlapped' = IF Undisturbed(dc) THEN overlapped \ {dch[dc]} ELSE overlapped
  /\ overtaken' = (overtaken \ (hostConns[dpair[dc].host] \X {dch[dc]}))
       \cup {<<hc, dch[dc]>> : hc \in {k \in hostConns[dpair[dc].host] : Outdated(k, dc)}}
  /\ UNCHANGED <<hpc, hhost, hframe, hpair, snapTodo, snap, dch, dgoal, dold, closed>>
  /\ UNCHANGED <<sent, fate, pushed, seen, raced, storeVars, tableVars, restVars>>

\* A well-formed frame on the bound channel, push_class none, within the limit.
DevRead(dc) ==
  /\ dpc[dc] = "read"
  /\ seen' = [seen EXCEPT ![dc] = LiveIds]
  /\ DevGoto(dc, "lookup")
  /\ UNCHANGED <<dch, dpair, dgoal, dold, closed, sent, fate, pushed, raced, noteVars>>
  /\ UNCHANGED <<storeVars, tableVars, hostVars, restVars>>

\* Weakened form: the registration found at the attach is taken to stand.
DevLookup_Unchecked(dc) ==
  /\ dpc[dc] = "lookup"
  /\ DevGoto(dc, "forward")
  /\ UNCHANGED <<dch, dgoal, dold, dpair, closed, ghostVars>>
  /\ UNCHANGED <<storeVars, tableVars, hostVars, restVars>>

\* A channel deregistered under the connection closes it with 4403.
DevLookup(dc) ==
  /\ dpc[dc] = "lookup"
  /\ \/ /\ PairingByChannel(dch[dc]) = {}
        /\ closed' = closed \cup {dc}
        /\ seen' = [seen EXCEPT ![dc] = {}]
        /\ DevGoto(dc, "cleanup")
        /\ UNCHANGED dpair
     \/ /\ \E p \in PairingByChannel(dch[dc]) : dpair' = [dpair EXCEPT ![dc] = p]
        /\ DevGoto(dc, "forward")
        /\ UNCHANGED <<closed, seen>>
  /\ UNCHANGED <<dch, dgoal, dold, sent, fate, pushed, raced, noteVars>>
  /\ UNCHANGED <<storeVars, tableVars, hostVars, restVars>>

\* Forwarded to every connection of the host; with none, peer_unavailable is
\* returned and nothing is queued.  Neither touches this slice's state.
DevForward(dc) ==
  /\ dpc[dc] = "forward"
  /\ DevGoto(dc, "read")
  /\ dpair' = [dpair EXCEPT ![dc] = NoPairing]
  /\ seen' = [seen EXCEPT ![dc] = {}]
  /\ UNCHANGED <<dch, dgoal, dold, closed, sent, fate, pushed, raced, noteVars>>
  /\ UNCHANGED <<storeVars, tableVars, hostVars, restVars>>

\* The read fails (the relay's close included), or the frame breaks a rule.
DevEnd(dc) ==
  /\ dpc[dc] = "read"
  /\ DevGoto(dc, "cleanup")
  /\ UNCHANGED <<dch, dpair, dgoal, dold, closed>>
  /\ UNCHANGED <<storeVars, tableVars, hostVars, restVars, ghostVars>>

\* Only the socket that empties the table entry publishes the detach.
DevCleanup(dc) ==
  LET c == dch[dc]
  IN  /\ dpc[dc] = "cleanup"
      /\ devConns' = [devConns EXCEPT ![c] = @ \ {dc}]
      /\ raced' = IF dc \in devConns[c] THEN raced \cup Forwarding(c) ELSE raced
      /\ closed' = closed \ {dc}
      /\ dgoal' = [dgoal EXCEPT ![dc] = "detached"]
      /\ \/ devConns[c] = {dc} /\ DevGoto(dc, "setLookup") /\ Overlap(c)
         \/ devConns[c] # {dc} /\ DevGoto(dc, "idle") /\ UNCHANGED overlapped
      /\ UNCHANGED <<hostConns, dch, dpair, dold, sent, fate, pushed, seen, overtaken>>
      /\ UNCHANGED <<storeVars, hostVars, restVars>>

-----------------------------------------------------------------------------
RestNext ==
  \/ \E id \in PairingId, c \in Channel, h \in Host, d \in Device : CreatePairing(id, c, h, d)
  \/ \E x \in DelReq : DeleteLookup(x) \/ DeletePairing(x) \/ DeleteTakeConns(x) \/ DeleteCloseConns(x)
  \/ \E d \in TokenDevice : RegisterCheckOwner(d) \/ RegisterPutToken(d)

HostNext(hc) ==
  \/ \E h \in Host : HostAttach(hc, h)
  \/ HostListPairings(hc)
  \/ \E c \in Channel : HostSnapLookup(hc, c)
  \/ HostSnapSend(hc)
  \/ \E c \in Channel, push \in PushClass, big \in BOOLEAN : HostRead(hc, c, push, big)
  \/ HostLookup(hc) \/ HostCheckAttached(hc) \/ HostForward(hc)
  \/ HostAppendMailbox(hc) \/ HostMaybePush(hc)
  \/ HostEnd(hc) \/ HostCleanup(hc)

DevNext(dc) ==
  \/ \E c \in Channel : DevAuthorize(dc, c)
  \/ DevCheckCap(dc) \/ DevUpgradeFails(dc) \/ DevInsert(dc)
  \/ SetLookup(dc) \/ SetPut(dc) \/ SetPairing(dc) \/ SetPublish(dc)
  \/ DevRead(dc) \/ DevLookup(dc) \/ DevForward(dc)
  \/ DevEnd(dc) \/ DevCleanup(dc)

Next ==
  \/ RestNext
  \/ \E hc \in HostConn : HostNext(hc)
  \/ \E dc \in DevConn : DevNext(dc)

Spec == Init /\ [][Next]_vars

-----------------------------------------------------------------------------
(* Properties *)

HostPc == {"idle", "pairings", "snap", "snapSend", "read", "lookup", "check",
           "forward", "append", "push", "cleanup"}
DevPc  == {"idle", "cap", "insert", "setLookup", "setPut", "setPairing", "setPublish",
           "read", "lookup", "forward", "cleanup"}
Fate   == {"unsent", "routing", "live", "lost", "mailboxed", "oversized", "not_found"}

StoreType ==
  /\ pairings \subseteq Pairing
  /\ byChannel \in [Channel -> PairingId \cup {NoId}]
  /\ usedIds \subseteq PairingId
  /\ mailbox \in [Channel -> Seq(Frame)]
  /\ \A c \in Channel : Len(mailbox[c]) <= MailboxMaxFrames
  /\ devPres \in [Channel -> Presence]
  /\ apns \subseteq Device

TableType ==
  /\ hostConns \in [Host -> SUBSET HostConn]
  /\ devConns \in [Channel -> SUBSET DevConn]

HostType ==
  /\ hpc \in [HostConn -> HostPc]
  /\ hhost \in [HostConn -> Host]
  /\ hframe \in [HostConn -> Frame]
  /\ hpair \in [HostConn -> Pairing \cup {NoPairing}]
  /\ snapTodo \in [HostConn -> SUBSET Channel]
  /\ snap \in [HostConn -> [ch : Channel, val : Presence]]
  /\ told \in [HostConn -> [Channel -> Presence]]
  /\ \A hc \in HostConn : hpc[hc] \in {"check", "forward", "append", "push"} => hpair[hc] \in Pairing

DevType ==
  /\ dpc \in [DevConn -> DevPc]
  /\ dch \in [DevConn -> Channel]
  /\ dpair \in [DevConn -> Pairing \cup {NoPairing}]
  /\ dgoal \in [DevConn -> Presence]
  /\ dold \in [DevConn -> Presence]
  /\ closed \subseteq DevConn
  /\ \A dc \in DevConn : dpc[dc] \in {"forward", "setPublish"} => dpair[dc] \in Pairing

RestType ==
  /\ xpc \in [DelReq -> {"idle", "delete", "take", "close"}]
  /\ xpair \in [DelReq -> Pairing \cup {NoPairing}]
  /\ xconns \in [DelReq -> SUBSET DevConn]
  /\ apnsReq \subseteq Device
  /\ \A x \in DelReq : xpc[x] # "idle" => xpair[x] \in Pairing
  /\ \A x \in DelReq : xpc[x] # "close" => xconns[x] = {}

GhostType ==
  /\ sent \in 0..MaxSeq
  /\ fate \in [1..MaxSeq -> Fate]
  /\ pushed \subseteq 1..MaxSeq
  /\ seen \in [HostConn \cup DevConn -> SUBSET PairingId]
  /\ raced \subseteq HostConn
  /\ overlapped \subseteq Channel
  /\ overtaken \subseteq HostConn \X Channel

\* The types of the state.  With them: the mailbox cap holds, a handler past its
\* lookup holds a registration (never a nil one), and a revocation holds sockets
\* only between taking and closing them.
TypeOK == StoreType /\ TableType /\ HostType /\ DevType /\ RestType /\ GhostType

\* MemStore's two maps agree: byChannel names exactly the registration of the
\* channel, no channel has two and no id is registered twice, whatever
\* registrations and (repeated) deletions interleave.
StoreIndexed ==
  /\ \A p \in pairings : byChannel[p.ch] = p.id /\ p.id \in usedIds
  /\ \A c \in Channel : Registered(c) => \E p \in pairings : p.id = byChannel[c] /\ p.ch = c
  /\ \A p, q \in pairings : p.id = q.id => p = q

\* No socket leaks out of, or lingers in, the connection table: an entry is a
\* running handler bound to that very channel, and a running handler missing
\* from the table has been closed, or a revocation is about to close it.  This
\* is what lets the router and the presence code trust the table.
SocketAccounting ==
  /\ \A c \in Channel : \A dc \in devConns[c] : dch[dc] = c /\ Attached(dc)
  /\ \A dc \in DevConn : Attached(dc) =>
       \/ dc \in devConns[dch[dc]]
       \/ dc \in closed
       \/ \E x \in DelReq : dc \in xconns[x]

\* A frame is only ever routed under a registration that was in force at some
\* moment after the frame was read, in both directions, and a host frame only
\* on a channel of its own host: revocation between two frames is never missed.
RoutedUnderRegistration ==
  /\ \A hc \in HostConn : hpc[hc] \in {"check", "forward", "append", "push"} =>
       /\ hpair[hc].id \in seen[hc]
       /\ hpair[hc].host = hhost[hc]
       /\ hpair[hc].ch = hframe[hc].ch
  /\ \A dc \in DevConn : dpc[dc] = "forward" =>
       dpair[dc].id \in seen[dc] /\ dpair[dc].ch = dch[dc]

\* A host frame that meets an empty table on the live arm lost a race with a
\* detach or a revocation of that channel: it is never dropped merely because
\* the presence record was stale.
LostOnlyToDetach ==
  \A hc \in HostConn :
    hpc[hc] = "forward" /\ ~deviceAttachedNow(hframe[hc].ch) => hc \in raced

\* The trigger rule of maybePush: a push goes out only for a frame of a pushing class
\* that found no socket and was given to the mailbox, never for one forwarded live,
\* lost or refused.  The mailbox kept it, unless its body alone is above the byte cap:
\* then the device is woken and finds nothing ("the frame is already mailboxed" of
\* ws.go:321 has this one exception).
PushOnlyForBuffered == \A n \in pushed : fate[n] \in {"mailboxed", "oversized"}

\* No REST request and no device handler is between two of its steps.
Quiescent ==
  /\ \A x \in DelReq : xpc[x] = "idle"
  /\ \A dc \in DevConn : dpc[dc] \in {"idle", "read"}

\* ws.go:163: the host cannot choose class L or M without device presence.  Once handlers
\* have settled, a reading host connection was last told "attached" of every channel of
\* its host that has a socket, by the snapshot of its attach or by a transition, over
\* any revocations and re-registrations.  Two races are the only way out: the record's
\* last transition met another transition or a revocation half-way (or found no
\* registration to announce), and a snapshot read before a transition was queued after
\* it.  The next undisturbed transition repairs both.
HostToldOfDevice ==
  Quiescent => \A hc \in HostConn : \A p \in pairings :
    /\ hpc[hc] = "read" /\ p.host = hhost[hc] /\ deviceAttachedNow(p.ch)
    /\ p.ch \notin overlapped /\ <<hc, p.ch>> \notin overtaken
    => told[hc][p.ch] = "attached"
=============================================================================
