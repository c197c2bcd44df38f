------------------------------ MODULE Delivery ------------------------------
(***************************************************************************)
(* One paired channel from end to end: the scripted host (fakehost), the   *)
(* relay it talks to (internal/fakerelay, whose handlers each run under    *)
(* one mutex) and the device client (devclient) with its persisted marks.  *)
(* The device crashes, gives up and reconnects at any point; connections   *)
(* break at either end; frames of a dead connection are still read by the  *)
(* relay; send queues overflow; the mailbox evicts and expires.            *)
(*                                                                         *)
(* Keys: the handshake derives them from the device's nonce and the host's,*)
(* <<attempt, nonce>> here; a frame opens only under the keys that sealed  *)
(* it.  A frame of class P is plaintext, L is sealed on the session stream,*)
(* M is sealed for the mailbox.                                            *)
(***************************************************************************)
EXTENDS SeqTracker, Integers, Sequences, FiniteSets, FiniteSetsExt

CONSTANTS
  MaxConnect,   \* bound on connection attempts
  MaxH2D,       \* bound on the numbers the host uses
  MaxD2H,       \* bound on the numbers the device uses
  QueueCap,     \* depth of a wsConn send queue
  MailboxCap,   \* MailboxMaxFrames
  PageLimit,    \* frames of one mailbox page
  AttachCap     \* DeviceAttachPerChannel

ASSUME DeliveryAssumption ==
  {MaxConnect, MaxH2D, MaxD2H, QueueCap, MailboxCap, PageLimit, AttachCap} \subseteq Nat \ {0}

VARIABLES
  host,    \* fakehost: the deviceRecord and the session
  relay,   \* fakerelay: this channel's share of its maps, and what is in flight
  dev,     \* devclient: State, the running Connect or Session
  hist     \* observer of what was sent and accepted, read by no guard

vars == <<host, relay, dev, hist>>

Conn == 1..MaxConnect
NoKeys == <<0, 0>>
NoSession == [keys |-> NoKeys, pull |-> NoKeys, step |-> 0]

Frame(kind, seq, class, keys) == [kind |-> kind, seq |-> seq, class |-> class, keys |-> keys]

\* A TEXT message of the relay to the host (6.1 device presence).
PresenceMsg(attached) == [kind |-> "presence", attached |-> attached]

\* Pairing has just completed: pair.identity and pair.complete took number 1.
Init ==
  /\ host = [sent |-> 1, attached |-> FALSE, sess |-> NoSession, nonce |-> 0,
             d2h |-> Accept(NewSeqTracker(0), 1)]
  /\ relay = [conns |-> {}, attached |-> FALSE, mbx |-> <<>>, reader |-> 0, lostText |-> FALSE,
              toHost |-> <<>>, toDev |-> <<>>, fromDev |-> [c \in Conn |-> <<>>]]
  /\ dev = [pc |-> "idle", conn |-> 0, keys |-> NoKeys, tracker |-> NewSeqTracker(1),
            after |-> 1, reconcile |-> FALSE,
            D2HLastSent |-> 1, savedSent |-> 1, H2DLastSeen |-> 1, savedSeen |-> 1]
  /\ hist = [taken |-> 1, got |-> 1, d2hCount |-> 1, d2hTop |-> 1, d2hTaken |-> 1, d2hGot |-> 1,
             base |-> 1, accepted |-> 0, owed |-> FALSE, unsaved |-> FALSE]

-----------------------------------------------------------------------------
(* fakerelay.  Each operator is what one section under r.mu does.          *)

enqueue(q, m) == IF Len(q) < QueueCap THEN Append(q, m) ELSE q

sendText(r, m) ==
  [r EXCEPT !.toHost = enqueue(@, m), !.lostText = @ \/ Len(r.toHost) >= QueueCap]

\* Weakened form: the transition is published, the record is not written.
setDevAttached_Unrecorded(r, attached) ==
  IF r.attached = attached THEN r ELSE sendText(r, PresenceMsg(attached))

\* Only a transition is published.
setDevAttached(r, attached) ==
  IF r.attached = attached THEN r
  ELSE sendText([r EXCEPT !.attached = attached], PresenceMsg(attached))

insertDevConn(r, c) ==
  LET in == [r EXCEPT !.conns = @ \cup {c}, !.reader = c, !.toDev = <<>>]
  IN  IF in.conns = {c} THEN setDevAttached(in, TRUE) ELSE in

deleteDevConn(r, c) ==
  LET out == [r EXCEPT !.conns = @ \ {c}, !.fromDev[c] = <<>>]
  IN  IF out.conns = {} THEN setDevAttached(out, FALSE) ELSE out

\* append: evict the oldest until the cap holds.
mailboxAppend(mbx, f) ==
  LET grown == Append(mbx, f)
  IN  IF Len(grown) > MailboxCap THEN Tail(grown) ELSE grown

\* The two arms of 4.1 a registered channel can take: forward to every attached
\* connection (only the one somebody still reads matters), or mailbox.
hostFrame(r, f) ==
  IF r.conns # {}
  THEN IF r.reader \in r.conns THEN [r EXCEPT !.toDev = enqueue(@, f)] ELSE r
  ELSE [r EXCEPT !.mbx = mailboxAppend(@, f)]

\* get's loop: items up to the mark are skipped, the page ends at the limit.
Page(mbx, after) ==
  LET items[i \in 0..Len(mbx)] ==
        IF i = 0 THEN <<>>
        ELSE IF mbx[i].seq > after /\ Len(items[i - 1]) < PageLimit
        THEN Append(items[i - 1], mbx[i])
        ELSE items[i - 1]
  IN  items[Len(mbx)]

get(mbx, after) ==
  LET page == Page(mbx, after)
  IN  [frames    |-> page,
       next      |-> IF page = <<>> THEN after ELSE page[Len(page)].seq,
       truncated |-> Len(page) < Cardinality({i \in DOMAIN mbx : mbx[i].seq > after})]

\* GET /v1/channels/{id}/frames, for the account of the pairing; a read consumes nothing.
mailboxGet(r, after) == get(r.mbx, after)

\* deviceReadLoop reads one frame and forwards it to the host's connection.  The
\* client of the connection may be long gone.
DeviceFrame(c) ==
  /\ c \in relay.conns
  /\ relay.fromDev[c] # <<>>
  /\ relay' = [relay EXCEPT !.fromDev[c] = Tail(@),
                            !.toHost = enqueue(@, Head(relay.fromDev[c]))]
  /\ UNCHANGED <<host, dev, hist>>

\* A connection's read fails, unread frames or not: cleanup.
DeviceDetach(c) ==
  /\ c \in relay.conns
  /\ relay' = deleteDevConn(relay, c)
  /\ UNCHANGED <<host, dev, hist>>

\* prune: the oldest item passes its TTL.
MailboxExpire ==
  /\ relay.mbx # <<>>
  /\ relay' = [relay EXCEPT !.mbx = Tail(@)]
  /\ UNCHANGED <<host, dev, hist>>

-----------------------------------------------------------------------------
(* fakehost.  A handler runs under h.mu and its sends reach the relay in   *)
(* order; s is the pair of states it threads through them.                 *)

sendEncryptedOn(s, kind) ==
  LET seq == s.h.sent + 1
  IN  [h |-> [s.h EXCEPT !.sent = seq],
       r |-> hostFrame(s.r, Frame(kind, seq, "L", s.h.sess.keys))]

sendMailboxEnvelope(s, kind) ==
  LET seq == s.h.sent + 1
  IN  [h |-> [s.h EXCEPT !.sent = seq],
       r |-> hostFrame(s.r, Frame(kind, seq, "M", NoKeys))]

\* The class follows the host's view of device presence; mid-handshake nothing is
\* sent, and a transcript page is never mailboxed.
sendEnvelope(s, kind) ==
  IF ~s.h.attached
  THEN IF kind = "transcript.page" THEN s ELSE sendMailboxEnvelope(s, kind)
  ELSE IF s.h.sess.step = 3 THEN sendEncryptedOn(s, kind) ELSE s

sendControl(s, kind, keys) ==
  [s EXCEPT !.r = hostFrame(s.r, Frame(kind, 0, "P", keys))]

abortSession(s) == [s EXCEPT !.h.sess = NoSession]

handleSessHello(s, f) ==
  LET n    == s.h.nonce + 1
      keys == <<f.keys[1], n>>
      t    == abortSession(s)
      h    == [t.h EXCEPT !.nonce = n, !.d2h = StartSession(@),
                          !.sess = [keys |-> keys, pull |-> NoKeys, step |-> 1]]
  IN  sendControl([t EXCEPT !.h = h], "sess.accept", keys)

\* The pull stream opens only frames of the stream whose header this is.
handleSessHeader(s, f) ==
  IF s.h.sess.step # 1 THEN s
  ELSE sendEncryptedOn([s EXCEPT !.h.sess.pull = f.keys, !.h.sess.step = 2], "sess.confirm")

handleRPC(s, kind) ==
  IF kind = "rpc.request" THEN sendEnvelope(s, "rpc.response")
  ELSE sendEnvelope(sendEnvelope(s, "transcript.page"), "transcript.page")

Opens(sess, f) == f.class = "L" /\ f.keys = sess.keys /\ f.keys = sess.pull

\* The number is accepted BEFORE the frame is opened.
handleAEAD(s, f) ==
  LET t == [s EXCEPT !.h.d2h = Accept(@, f.seq)]
  IN  IF s.h.sess.pull = NoKeys THEN s
      ELSE IF ~AcceptOK(s.h.d2h, f.seq) THEN abortSession(s)
      ELSE IF ~Opens(s.h.sess, f) THEN abortSession(t)
      ELSE IF f.kind = "sess.confirm"
           THEN sendEnvelope([t EXCEPT !.h.sess.step = 3], "snapshot.full")
      ELSE IF s.h.sess.step = 3 THEN handleRPC(t, f.kind) ELSE t

handleSessionFrame(s, f) ==
  CASE f.kind = "sess.hello"  -> handleSessHello(s, f)
    [] f.kind = "sess.header" -> handleSessHeader(s, f)
    [] OTHER                  -> handleAEAD(s, f)

handleControl(s, msg) == [s EXCEPT !.h.attached = msg.attached]

\* The host's read loop takes one message.
HostRead ==
  /\ relay.toHost # <<>>
  /\ LET m == Head(relay.toHost)
         s == [h |-> host, r |-> [relay EXCEPT !.toHost = Tail(@)]]
         t == IF m.kind = "presence" THEN handleControl(s, m) ELSE handleSessionFrame(s, m)
         took == m.kind # "presence" /\ m.seq > 0 /\ host.sess.pull # NoKeys
                 /\ AcceptOK(host.d2h, m.seq) /\ Opens(host.sess, m)
     IN  /\ t.h.sent <= MaxH2D
         /\ host' = t.h
         /\ relay' = t.r
         /\ hist' = IF took THEN [hist EXCEPT !.d2hTaken = @ + 1, !.d2hGot = m.seq] ELSE hist
  /\ UNCHANGED dev

\* The event loop, a scripted event or EmitEvent.
EmitEvent ==
  /\ host.sent < MaxH2D
  /\ LET t == sendEnvelope([h |-> host, r |-> relay], "event")
     IN  host' = t.h /\ relay' = t.r
  /\ UNCHANGED <<dev, hist>>

\* The instrument that seals on the session whatever presence says.
EmitEventClassL ==
  /\ host.sess.step = 3
  /\ host.sent < MaxH2D
  /\ LET t == sendEncryptedOn([h |-> host, r |-> relay], "event")
     IN  host' = t.h /\ relay' = t.r
  /\ UNCHANGED <<dev, hist>>

-----------------------------------------------------------------------------
(* devclient.  write is the device's end of its WebSocket: what is written *)
(* after the relay dropped the connection is lost.                         *)

write(r, c, frames) ==
  IF c \in r.conns THEN [r EXCEPT !.fromDev[c] = @ \o frames] ELSE r

\* Connect returns an error, or the session's owner closes it.
Drop(d) == [d EXCEPT !.pc = "idle"]

\* Connect, up to its tracker: a fresh one at the persisted mark.
Connect ==
  /\ dev.pc = "idle"
  /\ dev.conn < MaxConnect
  /\ dev' = [dev EXCEPT !.pc = "drain", !.conn = @ + 1, !.keys = NoKeys, !.reconcile = FALSE,
                        !.tracker = NewSeqTracker(dev.H2DLastSeen), !.after = dev.H2DLastSeen]
  /\ hist' = [hist EXCEPT !.base = dev.H2DLastSeen, !.accepted = 0]
  /\ UNCHANGED <<host, relay>>

\* One item of a page: one that does not open under the mailbox key abandons the
\* rest of the drain, a number out of order fails the Connect.
DrainItem(a, f) ==
  IF a.abandoned \/ a.failed THEN a
  ELSE IF f.class # "M" THEN [a EXCEPT !.abandoned = TRUE]
  ELSE IF ~AcceptMailboxOK(a.tracker, f.seq) THEN [a EXCEPT !.failed = TRUE]
  ELSE [a EXCEPT !.tracker = AcceptMailbox(@, f.seq), !.n = @ + 1,
                 !.gap = @ \/ MailboxGap(a.tracker, f.seq)]

\* The loop over the items of a page.
Drained(t, frames) ==
  LET run[i \in 0..Len(frames)] ==
        IF i = 0 THEN [tracker |-> t, n |-> 0, gap |-> FALSE, abandoned |-> FALSE, failed |-> FALSE]
        ELSE DrainItem(run[i - 1], frames[i])
  IN  run[Len(frames)]

\* Save writes the whole State, both marks, or (~ok) fails and leaves the old file.
Save(d, ok) ==
  IF ok THEN [d EXCEPT !.savedSent = d.D2HLastSent, !.savedSeen = d.H2DLastSeen] ELSE d

\* Weakened form: the mark of the drain is not saved.
saveDrainMark_Skipped(d, last, ok) ==
  IF last > d.H2DLastSeen THEN [d EXCEPT !.H2DLastSeen = last] ELSE d

\* The error of the save is ignored, here and wherever a number was accepted.
saveDrainMark(d, last, ok) ==
  IF last > d.H2DLastSeen THEN Save([d EXCEPT !.H2DLastSeen = last], ok) ELSE d

\* One page of drainMailbox: fetch, open, accept, save the mark.
DrainPage ==
  /\ dev.pc = "drain"
  /\ \E ok \in BOOLEAN :
     LET page == mailboxGet(relay, dev.after)
         a == Drained(dev.tracker, page.frames)
         d == [dev EXCEPT !.tracker = a.tracker, !.after = page.next,
                          !.reconcile = @ \/ a.gap \/ a.abandoned]
     IN  /\ dev' = IF a.failed THEN Drop(d)
                   ELSE [saveDrainMark(d, a.tracker.last, ok) EXCEPT
                           !.pc = IF page.truncated /\ ~a.abandoned THEN "drain" ELSE "attach"]
         /\ hist' = [hist EXCEPT !.taken = @ + a.n, !.accepted = @ + a.n,
                                 !.got = IF a.n > 0 THEN a.tracker.last ELSE @,
                                 !.unsaved = IF a.n > 0 THEN ~ok ELSE @,
                                 !.owed = @ \/ a.gap]
  /\ UNCHANGED <<host, relay>>

\* Dial, under the relay's cap, and sess.hello.
Attach ==
  /\ dev.pc = "attach"
  /\ Cardinality(relay.conns) < AttachCap
  /\ relay' = write(insertDevConn(relay, dev.conn), dev.conn,
                    <<Frame("sess.hello", 0, "P", <<dev.conn, 0>>)>>)
  /\ dev' = [dev EXCEPT !.pc = "hello"]
  /\ UNCHANGED <<host, hist>>

\* Weakened form: the frame leaves whether or not the counter was saved.
sendEncrypted_Unsaved(d, r, before, kind) ==
  LET seq == d.D2HLastSent + 1
  IN  /\ seq <= MaxD2H
      /\ \E ok \in BOOLEAN :
           /\ dev' = Save([d EXCEPT !.D2HLastSent = seq], ok)
           /\ hist' = [hist EXCEPT !.d2hCount = @ + 1, !.d2hTop = Max({@, seq}),
                                   !.unsaved = @ /\ ~ok]
      /\ relay' = write(r, d.conn, before \o <<Frame(kind, seq, "L", d.keys)>>)

\* The counter is saved before the frame leaves.
sendEncrypted(d, r, before, kind) ==
  LET seq == d.D2HLastSent + 1
  IN  /\ seq <= MaxD2H
      /\ dev' = Save([d EXCEPT !.D2HLastSent = seq], TRUE)
      /\ relay' = write(r, d.conn, before \o <<Frame(kind, seq, "L", d.keys)>>)
      /\ hist' = [hist EXCEPT !.d2hCount = @ + 1, !.d2hTop = Max({@, seq}), !.unsaved = FALSE]

\* Saving failed: the number is used up in memory and nothing leaves.
SaveFails(d) == [d EXCEPT !.D2HLastSent = @ + 1]

\* Nobody reads the connection any more.
unread(r) == [r EXCEPT !.reader = 0, !.toDev = <<>>]

\* The answer to sess.hello: derive keys, send sess.header and sess.confirm.
ReadAccept ==
  /\ dev.pc = "hello"
  /\ relay.toDev # <<>>
  /\ LET f == Head(relay.toDev)
         r == [relay EXCEPT !.toDev = Tail(@)]
     IN  IF f.kind = "sess.accept"
         THEN LET keys   == <<dev.conn, f.keys[2]>>
                  header == <<Frame("sess.header", 0, "P", keys)>>
              IN  \/ sendEncrypted([dev EXCEPT !.pc = "confirm", !.keys = keys], r, header,
                                   "sess.confirm")
                  \/ /\ dev.D2HLastSent < MaxD2H
                     /\ dev' = Drop(SaveFails(dev))
                     /\ relay' = unread(write(relay, dev.conn, header))
                     /\ UNCHANGED hist
         ELSE dev' = Drop(dev) /\ relay' = unread(relay) /\ UNCHANGED hist
  /\ UNCHANGED host

\* The host's sess.confirm: the first AEAD frame of the session, jump or not.
ReadConfirm ==
  /\ dev.pc = "confirm"
  /\ relay.toDev # <<>>
  /\ LET f == Head(relay.toDev)
         jump == Reconcile(dev.tracker, f.seq)
     IN  IF /\ AcceptOK(StartSession(dev.tracker), f.seq)
            /\ f.class = "L" /\ f.keys = dev.keys /\ f.kind = "sess.confirm"
         THEN /\ relay' = [relay EXCEPT !.toDev = Tail(@)]
              /\ \E ok \in BOOLEAN :
                   /\ dev' = Save([dev EXCEPT !.pc = "up", !.tracker = Accept(@, f.seq),
                                              !.reconcile = @ \/ jump, !.H2DLastSeen = f.seq], ok)
                   /\ hist' = [hist EXCEPT !.taken = @ + 1, !.accepted = @ + 1, !.got = f.seq,
                                           !.owed = @ /\ ~dev.reconcile /\ ~jump, !.unsaved = ~ok]
         ELSE dev' = Drop(dev) /\ relay' = unread(relay) /\ UNCHANGED hist
  /\ UNCHANGED host

\* Close: a last save, its error ignored too.
Close(ok) ==
  /\ dev' = Drop(Save(dev, ok))
  /\ hist' = [hist EXCEPT !.unsaved = @ /\ ~ok]
  /\ relay' = unread(relay)

\* Recv: plaintext control frames are skipped, anything else must be the next
\* number and open; otherwise its owner closes the session.
Recv ==
  /\ dev.pc = "up"
  /\ relay.toDev # <<>>
  /\ LET f == Head(relay.toDev)
         r == [relay EXCEPT !.toDev = Tail(@)]
     IN  CASE f.seq = 0 -> relay' = r /\ UNCHANGED <<dev, hist>>
           [] f.seq # 0 /\ AcceptOK(dev.tracker, f.seq) /\ f.class = "L" /\ f.keys = dev.keys ->
                /\ relay' = r
                /\ \E ok \in BOOLEAN :
                     /\ dev' = Save([dev EXCEPT !.tracker = Accept(@, f.seq), !.H2DLastSeen = f.seq], ok)
                     /\ hist' = [hist EXCEPT !.taken = @ + 1, !.accepted = @ + 1, !.got = f.seq,
                                             !.unsaved = ~ok]
           [] OTHER -> \E ok \in BOOLEAN : Close(ok)
  /\ UNCHANGED host

SendRPC ==
  /\ dev.pc = "up"
  /\ \/ \E kind \in {"rpc.request", "transcript"} : sendEncrypted(dev, relay, <<>>, kind)
     \/ dev.D2HLastSent < MaxD2H /\ dev' = SaveFails(dev) /\ UNCHANGED <<relay, hist>>
  /\ UNCHANGED host

\* The owner closes the session, or an error or a timeout ends the Connect, unsaved.
EndSession ==
  /\ dev.pc # "idle"
  /\ \E ok \in BOOLEAN : (ok => dev.pc = "up") /\ Close(ok)
  /\ UNCHANGED host

\* The process ends, in a session or between two; the next one loads what was saved.
Crash ==
  /\ dev' = Drop([dev EXCEPT !.D2HLastSent = dev.savedSent, !.H2DLastSeen = dev.savedSeen])
  /\ hist' = [hist EXCEPT !.got = dev.savedSeen, !.unsaved = FALSE]
  /\ relay' = unread(relay)
  /\ UNCHANGED host

-----------------------------------------------------------------------------
Next ==
  \/ \E c \in Conn : DeviceFrame(c) \/ DeviceDetach(c)
  \/ MailboxExpire
  \/ HostRead \/ EmitEvent \/ EmitEventClassL
  \/ Connect \/ DrainPage \/ Attach \/ ReadAccept \/ ReadConfirm
  \/ Recv \/ SendRPC \/ EndSession \/ Crash

Spec == Init /\ [][Next]_vars

-----------------------------------------------------------------------------
\* H2D frames, by number: sent by the host, accepted by the device.
H2D == INSTANCE OrderedOnce WITH count <- host.sent, top <- host.sent,
                                 taken <- hist.taken, got <- hist.got,
                                 kept <- dev.savedSeen, unkept <- hist.unsaved

\* D2H frames: sent by the device, accepted by the host.
D2H == INSTANCE OrderedOnce WITH count <- hist.d2hCount, top <- hist.d2hTop,
                                 taken <- hist.d2hTaken, got <- hist.d2hGot,
                                 kept <- hist.d2hGot, unkept <- FALSE

\* Host to device (seq.go, drainMailbox, Connect, Recv): over any number of crashes,
\* reconnects and overlapping mailbox reads, the device accepts each of the host's
\* numbers at most once and in ascending order.  One case is open, since the error of a
\* save is ignored (session.go:217, 331, 435): a device whose save failed and that crashes
\* before another save succeeds accepts again what it took after the last saved mark.
HostToDevice == H2D!Spec

\* Device to host (sendEncrypted, handleSessionFrame): no number is used by two
\* frames, even when a save fails or the process dies between save and write, and
\* the host accepts each at most once, in order, across sessions and stale frames.
DeviceToHost == D2H!Spec

\* ReconcileExpected (devclient/session.go:48): in an established session, either every number
\* between the mark Connect started from and the newest one was accepted by this
\* Connect and its session, or the reconcile flag is up.
SkippedMeansReconcile ==
  dev.pc = "up" =>
    dev.reconcile \/ dev.tracker.last - hist.base = hist.accepted

\* setDevAttached (presence.go:108): when no TEXT message was dropped by a full queue,
\* the host's view, once it has read what is queued for it, is whether the relay
\* has a connection of this channel.
HostViewConverges ==
  LET told == {i \in DOMAIN relay.toHost : relay.toHost[i].kind = "presence"}
      view == IF told = {} THEN host.attached ELSE relay.toHost[Max(told)].attached
  IN  relay.lostText \/ view = (relay.conns # {})

\* seq.go:17, "a gap mandates the reconcile": when a drain has gone past a gap, the next
\* established session expects the snapshot, also when the Connect that met the gap
\* failed after saving its mark.
GapMandatesReconcile == dev.pc = "up" /\ hist.owed => dev.reconcile
=============================================================================
