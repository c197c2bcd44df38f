------------------------------ MODULE Ceremony ------------------------------
(***************************************************************************)
(* The pairing ceremony from end to end: fakehost's pairing state machine, *)
(* fakerelay's windows and pairing attaches, and devclient.Pair.           *)
(*                                                                         *)
(* The provisional channel is shared by every attach of a window: what the *)
(* host sends on it reaches all of them, so a device may take another's    *)
(* pair.accept for its own.  A QR is not tied to a window by the relay: a  *)
(* device that scanned an older QR attaches to whichever window is open.   *)
(* The operator is asked while the host holds its lock; the window may     *)
(* expire, or be displaced, meanwhile.                                     *)
(*                                                                         *)
(* A Pair call is an attempt with its own device id, key pair and nonce.   *)
(* Keys are <<attempt, host nonce>>; a frame opens under the keys that     *)
(* sealed it.  A token is named by the window it was minted for.           *)
(***************************************************************************)
EXTENDS SeqTracker, Integers, Sequences, FiniteSets

CONSTANTS
  Attempt,       \* calls of devclient.Pair
  NoAttempt,     \* no device
  MaxWindow,     \* bound on the windows the host opens
  MacStrikes,    \* wrong MACs that end a token (five in the code)
  AttachLimit,   \* PairingAttachesPerWindow
  QueueCap       \* depth of the host connection's send queue

ASSUME CeremonyAssumption ==
  /\ NoAttempt \notin Attempt
  /\ {MaxWindow, MacStrikes, AttachLimit, QueueCap} \subseteq Nat \ {0}

VARIABLES
  host,    \* fakehost: token, strikes, pairingState, deviceRecord
  relay,   \* fakerelay: the open window, its attaches, the registrations
  dev,     \* per attempt: where Pair is, and the State it returned
  hist     \* observer: wrong MACs tried and devices recorded per token, identity shown

vars == <<host, relay, dev, hist>>

Window == 1..MaxWindow
NoKeys == <<NoAttempt, 0>>
NoPairing == [keys |-> NoKeys, pull |-> NoKeys, step |-> 0, tracker |-> NewSeqTracker(0)]
NoDevice == [id |-> NoAttempt, channel |-> 0, h2dSent |-> 0, d2h |-> 0]
NoState == [channel |-> 0, D2HLastSent |-> 0, H2DLastSeen |-> 0]

\* body: for pair.init the token its MAC was made with, for pair.complete the channel.
Frame(kind, seq, win, keys, body) ==
  [kind |-> kind, seq |-> seq, win |-> win, keys |-> keys, body |-> body]

Init ==
  /\ host = [posted |-> 0, win |-> 0, tokenLive |-> FALSE, macFailures |-> 0, nonce |-> 0,
             pairing |-> NoPairing, prompting |-> FALSE, device |-> NoDevice, closing |-> {}]
  /\ relay = [opened |-> 0, open |-> 0, attaches |-> 0, conns |-> [w \in Window |-> {}],
              closed |-> {}, channels |-> {}, toHost |-> <<>>,
              toDev |-> [a \in Attempt |-> <<>>], fromDev |-> [a \in Attempt |-> <<>>]]
  /\ dev = [a \in Attempt |-> [pc |-> "idle", token |-> 0, win |-> 0, keys |-> NoKeys,
                               state |-> NoState]]
  /\ hist = [tried |-> [w \in Window |-> 0], recorded |-> [w \in Window |-> {}],
             shown |-> NoAttempt]

-----------------------------------------------------------------------------
(* fakerelay.                                                              *)

\* Weakened form: the window goes, its attaches stay.
expireWindowLocked_KeepsAttaches(r) == [r EXCEPT !.open = 0]

\* The open window, if any, goes with its provisional channel and its attaches.
expireWindowLocked(r) ==
  IF r.open = 0 THEN r
  ELSE [r EXCEPT !.open = 0, !.conns[r.open] = {}, !.closed = @ \cup r.conns[r.open]]

\* POST /v1/pairing-windows displaces the window before it.
handleOpenWindow(r) ==
  [expireWindowLocked(r) EXCEPT !.opened = @ + 1, !.open = r.opened + 1, !.attaches = 0]

\* The window's timer, at any time.
ExpireWindow ==
  /\ relay.open # 0
  /\ relay' = expireWindowLocked(relay)
  /\ UNCHANGED <<host, dev, hist>>

\* Pair is running and its connection is read.
Waiting(a) == dev[a].pc \in {"admitted", "init", "identity"}

\* Host frames on the provisional channel go to every attach of its window.
hostFrame(r, f) ==
  IF f.win = 0 \/ f.win # r.open THEN r
  ELSE [r EXCEPT !.toDev = [a \in Attempt |->
          IF a \in r.conns[f.win] /\ Waiting(a) THEN Append(@[a], f) ELSE @[a]]]

\* POST /v1/pairings.
handleCreatePairing(r, channel, a) == [r EXCEPT !.channels = @ \cup {<<channel, a>>}]

\* The device's frame, while its window stands; afterwards the relay closes it.
DeviceFrame(a) ==
  /\ relay.fromDev[a] # <<>>
  /\ a \notin relay.closed
  /\ a \in relay.conns[dev[a].win]
  /\ relay' = [relay EXCEPT
       !.fromDev[a] = Tail(@),
       !.closed = IF dev[a].win = relay.open THEN @ ELSE @ \cup {a},
       !.toHost = IF dev[a].win = relay.open /\ Len(@) < QueueCap
                  THEN Append(@, Head(relay.fromDev[a])) ELSE @]
  /\ UNCHANGED <<host, dev, hist>>

\* Cleanup of an attach whose device has gone.
DeviceDetach(a) ==
  /\ dev[a].pc \in {"paired", "failed"}
  /\ a \in relay.conns[dev[a].win]
  /\ relay' = [relay EXCEPT !.conns[dev[a].win] = @ \ {a}, !.fromDev[a] = <<>>]
  /\ UNCHANGED <<host, dev, hist>>

-----------------------------------------------------------------------------
(* fakehost; s is the pair of states a handler threads through its sends.  *)

sendControl(s, kind, keys) ==
  [s EXCEPT !.r = hostFrame(s.r, Frame(kind, 0, s.h.win, keys, 0))]

\* The first AEAD frame of the pairing in this direction: number 1.
sendEncryptedOn(s, kind, body) ==
  [s EXCEPT !.r = hostFrame(s.r, Frame(kind, 1, s.h.win, s.h.pairing.keys, body))]

\* One answer for every failure before there are keys; it also ends a pairing in flight.
pairFail(s) ==
  sendControl([s EXCEPT !.h.pairing = NoPairing], "sess.denied", NoKeys)

\* Weakened form: the strike counter is compared before it is raised.
Strike_OffByOne(h) ==
  [h EXCEPT !.macFailures = @ + 1, !.tokenLive = h.macFailures < MacStrikes]

Strike(h) ==
  [h EXCEPT !.macFailures = @ + 1, !.tokenLive = h.macFailures + 1 < MacStrikes]

\* Weakened form: the token survives the MAC it verified.
consumeToken_Kept(h) == h

consumeToken(h) == [h EXCEPT !.tokenLive = FALSE]

handlePairInit(s, f) ==
  LET a == f.keys[1]
      n == s.h.nonce + 1
  IN  IF ~s.h.tokenLive THEN pairFail(s)
      ELSE IF f.body # s.h.win THEN pairFail([s EXCEPT !.h = Strike(@)])
      ELSE IF s.h.device.id = a THEN pairFail([s EXCEPT !.h = consumeToken(@)])
      ELSE sendControl([s EXCEPT !.h = [consumeToken(@) EXCEPT
                          !.nonce = n,
                          !.pairing = [NoPairing EXCEPT !.keys = <<a, n>>, !.step = 2]]],
                       "pair.accept", <<a, n>>)

handlePairSessHeader(s, f) ==
  IF s.h.pairing.step # 2 THEN s
  ELSE [s EXCEPT !.h.pairing = [@ EXCEPT !.pull = f.keys, !.step = 3]]

\* Weakened form: whatever the pull stream opens is believed.
Opens_AnyStream(p, f) == f.keys = p.pull

Opens(p, f) == f.keys = p.keys /\ f.keys = p.pull

\* pair.identity, up to the operator's prompt.
handlePairIdentity(s, f) ==
  LET p == s.h.pairing
  IN  IF p.step # 3 THEN s
      ELSE IF AcceptOK(p.tracker, f.seq) /\ Opens(p, f)
           THEN [s EXCEPT !.h = [@ EXCEPT !.prompting = TRUE,
                                          !.pairing = [p EXCEPT !.tracker = Accept(@, f.seq)]]]
      ELSE [s EXCEPT !.h.pairing = NoPairing]

handlePairingFrame(s, f) ==
  CASE f.kind = "pair.init"   -> handlePairInit(s, f)
    [] f.kind = "sess.header" -> handlePairSessHeader(s, f)
    [] OTHER                  -> handlePairIdentity(s, f)

\* The read loop; frames of a window that is not the host's current one are dropped.
HostRead ==
  /\ ~host.prompting
  /\ relay.toHost # <<>>
  /\ LET f == Head(relay.toHost)
         s == [h |-> host, r |-> [relay EXCEPT !.toHost = Tail(@)]]
         t == IF f.win = host.win THEN handlePairingFrame(s, f) ELSE s
     IN  /\ host' = t.h
         /\ relay' = t.r
         /\ hist' = IF /\ f.kind = "pair.init" /\ f.win = host.win
                       /\ host.tokenLive /\ f.body # host.win
                    THEN [hist EXCEPT !.tried[host.win] = @ + 1]
                    ELSE IF t.h.prompting THEN [hist EXCEPT !.shown = f.keys[1]] ELSE hist
  /\ UNCHANGED dev

\* OpenPairingWindow: the request, then under h.mu the new token.
PostWindow ==
  /\ host.posted = host.win
  /\ relay.opened < MaxWindow
  /\ relay' = handleOpenWindow(relay)
  /\ host' = [host EXCEPT !.posted = relay.opened + 1]
  /\ UNCHANGED <<dev, hist>>

OpenPairingWindow ==
  /\ host.posted # host.win
  /\ ~host.prompting
  /\ host' = [host EXCEPT !.win = host.posted, !.tokenLive = TRUE, !.macFailures = 0]
  /\ UNCHANGED <<relay, dev, hist>>

\* The operator declines: an encrypted denial.
OperatorDeclines ==
  /\ host.prompting
  /\ host' = [host EXCEPT !.prompting = FALSE, !.pairing = NoPairing]
  /\ relay' = sendEncryptedOn([h |-> host, r |-> relay], "pair.denied", 0).r
  /\ UNCHANGED <<dev, hist>>

\* The operator accepts.  The routing registration may be refused; otherwise the
\* record replaces any earlier device, pair.complete goes out on the provisional
\* channel and the window is closed a little later.
OperatorAccepts ==
  /\ host.prompting
  /\ LET p       == host.pairing
         a       == p.keys[1]
         channel == Cardinality(relay.channels) + 1
         s == sendEncryptedOn([h |-> host, r |-> handleCreatePairing(relay, channel, a)],
                              "pair.complete", channel)
     IN  \/ /\ host' = [host EXCEPT !.prompting = FALSE, !.pairing = NoPairing]
            /\ UNCHANGED <<relay, hist>>
         \/ /\ host' = [host EXCEPT
                          !.prompting = FALSE, !.pairing = NoPairing,
                          !.closing = @ \cup {host.win},
                          !.device = [id |-> a, channel |-> channel, h2dSent |-> 1,
                                      d2h |-> p.tracker.last]]
            /\ relay' = s.r
            /\ hist' = [hist EXCEPT !.recorded[host.win] = @ \cup {<<a, hist.shown>>}]
  /\ UNCHANGED dev

\* DELETE of a window, by the account of its host; one that is gone is not found.
closeWindow(r, w) == IF r.open = w THEN expireWindowLocked(r) ELSE r

\* The deferred DELETE of the window that paired.
CloseWindow(w) ==
  /\ w \in host.closing
  /\ host' = [host EXCEPT !.closing = @ \ {w}]
  /\ relay' = closeWindow(relay, w)
  /\ UNCHANGED <<dev, hist>>

-----------------------------------------------------------------------------
(* devclient.Pair.                                                         *)

\* The relay resolves the host's open window and counts the attach, or refuses.
Admits(r) == r.open # 0 /\ r.attaches < AttachLimit

\* Scan a QR the host has shown and dial.
PairAttach(a) ==
  /\ dev[a].pc = "idle"
  /\ Admits(relay)
  /\ \E token \in 1..host.win :
       dev' = [dev EXCEPT ![a] = [@ EXCEPT !.pc = "admitted", !.token = token, !.win = relay.open]]
  /\ relay' = [relay EXCEPT !.attaches = @ + 1]
  /\ UNCHANGED <<host, hist>>

\* After the upgrade the connection is inserted, window or no window.
insertPairConn(r, a) == [r EXCEPT !.conns[dev[a].win] = @ \cup {a}]

\* The device reads the provisional channel and sends pair.init.
PairInsert(a) ==
  /\ dev[a].pc = "admitted"
  /\ relay' = [insertPairConn(relay, a) EXCEPT
       !.fromDev[a] = <<Frame("pair.init", 0, dev[a].win, <<a, 0>>, dev[a].token)>>]
  /\ dev' = [dev EXCEPT ![a].pc = "init"]
  /\ UNCHANGED <<host, hist>>

\* pair.accept, anybody's: derive keys, send sess.header and pair.identity.
PairReadAccept(a) ==
  /\ dev[a].pc = "init"
  /\ relay.toDev[a] # <<>>
  /\ LET f    == Head(relay.toDev[a])
         keys == <<a, f.keys[2]>>
     IN  IF f.kind = "pair.accept"
         THEN /\ dev' = [dev EXCEPT ![a] = [@ EXCEPT !.pc = "identity", !.keys = keys]]
              /\ relay' = [relay EXCEPT
                   !.toDev[a] = Tail(@),
                   !.fromDev[a] = @ \o <<Frame("sess.header", 0, dev[a].win, keys, 0),
                                         Frame("pair.identity", 1, dev[a].win, keys, 0)>>]
         ELSE /\ dev' = [dev EXCEPT ![a].pc = "failed"]
              /\ relay' = [relay EXCEPT !.toDev[a] = <<>>]
  /\ UNCHANGED <<host, hist>>

\* Weakened form: the frame is not authenticated.
Authentic_Unchecked(a, f) == AcceptOK(NewSeqTracker(0), f.seq)

Authentic(a, f) == AcceptOK(NewSeqTracker(0), f.seq) /\ f.keys = dev[a].keys

\* pair.complete: only now does the device keep anything.
PairReadComplete(a) ==
  /\ dev[a].pc = "identity"
  /\ relay.toDev[a] # <<>>
  /\ LET f == Head(relay.toDev[a])
     IN  IF Authentic(a, f) /\ f.kind = "pair.complete"
         THEN dev' = [dev EXCEPT ![a] = [@ EXCEPT !.pc = "paired",
                        !.state = [channel |-> f.body, D2HLastSent |-> 1, H2DLastSeen |-> f.seq]]]
         ELSE dev' = [dev EXCEPT ![a].pc = "failed"]
  /\ relay' = [relay EXCEPT !.toDev[a] = <<>>]
  /\ UNCHANGED <<host, hist>>

\* The relay closed the connection: the next read or write fails.
PairClosed(a) ==
  /\ Waiting(a)
  /\ a \in relay.closed
  /\ dev' = [dev EXCEPT ![a].pc = "failed"]
  /\ relay' = [relay EXCEPT !.toDev[a] = <<>>]
  /\ UNCHANGED <<host, hist>>

\* The user gives up, the context times out, the network breaks.
PairGivesUp(a) ==
  /\ Waiting(a)
  /\ dev' = [dev EXCEPT ![a].pc = "failed"]
  /\ relay' = [relay EXCEPT !.toDev[a] = <<>>]
  /\ UNCHANGED <<host, hist>>

-----------------------------------------------------------------------------
Next ==
  \/ ExpireWindow \/ PostWindow \/ OpenPairingWindow
  \/ HostRead \/ OperatorAccepts \/ OperatorDeclines
  \/ \E w \in Window : CloseWindow(w)
  \/ \E a \in Attempt :
       \/ DeviceFrame(a) \/ DeviceDetach(a)
       \/ PairAttach(a) \/ PairInsert(a) \/ PairReadAccept(a) \/ PairReadComplete(a)
       \/ PairClosed(a) \/ PairGivesUp(a)

Spec == Init /\ [][Next]_vars

\* The window's timer fires, a scheduled goroutine runs, a closed socket is noticed.
\* Nothing is assumed of the operator, the host's reader or anyone's patience.
FairSpec ==
  /\ Spec
  /\ WF_vars(ExpireWindow)
  /\ \A a \in Attempt :
       /\ WF_vars(PairInsert(a))
       /\ WF_vars(DeviceFrame(a))
       /\ WF_vars(PairReadAccept(a) \/ PairReadComplete(a))
       /\ WF_vars(PairClosed(a))

-----------------------------------------------------------------------------
\* Pair and handlePairIdentity agree although frames of the provisional channel reach
\* every attach: a device that keeps a State has a channel the relay registered for
\* that very device, and when the host still holds that record both sides start
\* from the same counters.
PairedAgrees ==
  \A a \in Attempt :
    dev[a].pc = "paired" =>
      LET st == dev[a].state
      IN  /\ <<st.channel, a>> \in relay.channels
          /\ host.device.channel = st.channel =>
               host.device = [id |-> a, channel |-> st.channel,
                              h2dSent |-> st.H2DLastSeen, d2h |-> st.D2HLastSent]

\* fakehost.go:494, "token is consumed at the moment the MAC verifies": one token never
\* records two devices, however many attaches, windows and late frames there are.
OneDevicePerToken ==
  \A w \in Window : Cardinality(hist.recorded[w]) <= 1

\* fakehost.go:579: the device that is recorded is the one whose identity the operator
\* was shown, and it scanned this window's QR.
ConsentNamesDevice ==
  \A w \in Window : \A r \in hist.recorded[w] : r[1] = r[2] /\ dev[r[1]].token = w

\* fakehost.go:486: a token is tried with a wrong MAC at most MacStrikes times, also by
\* devices that hold an older QR.
WrongMacsBounded == \A w \in Window : hist.tried[w] <= MacStrikes

\* No call of Pair outlives its window: whatever the host, the operator and the other
\* attaches do, it returns (ws.go:362, handler.go:146).
PairReturns == \A a \in Attempt : Waiting(a) ~> ~Waiting(a)
=============================================================================
