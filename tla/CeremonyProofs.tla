--------------------------- MODULE CeremonyProofs ---------------------------
(***************************************************************************)
(* Proofs about Ceremony, for any number of Pair calls and windows, any    *)
(* strike limit, attach limit and queue depth.                             *)
(***************************************************************************)
EXTENDS Ceremony, FiniteSetTheorems, TLAPS

AnyAttempt == Attempt \cup {NoAttempt}

KeySet == AnyAttempt \X Nat

Kind == {"pair.init", "sess.header", "pair.identity", "pair.accept", "sess.denied",
         "pair.denied", "pair.complete"}

FrameSet == [kind : Kind, seq : Nat, win : Nat, keys : KeySet, body : Nat]

TrackerSet == [last : Nat, inSession : BOOLEAN]

PairingSet == [keys : KeySet, pull : KeySet, step : {0, 2, 3}, tracker : TrackerSet]

DeviceSet == [id : AnyAttempt, channel : Nat, h2dSent : Nat, d2h : Nat]

HostSet == [posted : 0..MaxWindow, win : 0..MaxWindow, tokenLive : BOOLEAN, macFailures : Nat,
            nonce : Nat, pairing : PairingSet, prompting : BOOLEAN, device : DeviceSet,
            closing : SUBSET Nat]

RelaySet == [opened : 0..MaxWindow, open : 0..MaxWindow, attaches : Nat,
             conns : [Window -> SUBSET Attempt], closed : SUBSET Attempt,
             channels : SUBSET (Nat \X AnyAttempt), toHost : Seq(FrameSet),
             toDev : [Attempt -> Seq(FrameSet)], fromDev : [Attempt -> Seq(FrameSet)]]

DevSet == [pc : {"idle", "admitted", "init", "identity", "paired", "failed"}, token : 0..MaxWindow,
           win : 0..MaxWindow, keys : KeySet,
           state : [channel : Nat, D2HLastSent : Nat, H2DLastSeen : Nat]]

HistSet == [tried : [Window -> Nat], recorded : [Window -> SUBSET (AnyAttempt \X AnyAttempt)],
            shown : AnyAttempt]

\* The types of the state.  The host knows of every window the relay has opened.
TypeOK ==
  /\ host \in HostSet
  /\ relay \in RelaySet
  /\ dev \in [Attempt -> DevSet]
  /\ hist \in HistSet
  /\ host.posted = relay.opened
  /\ host.win <= host.posted
  /\ relay.open <= relay.opened
  /\ IsFiniteSet(relay.channels)

-----------------------------------------------------------------------------
(* The operators *)

LEMMA Limits == MaxWindow \in Nat \ {0} /\ MacStrikes \in Nat \ {0} /\ QueueCap \in Nat \ {0}
BY CeremonyAssumption

LEMMA NoValues == NoKeys \in KeySet /\ NoPairing \in PairingSet /\ NoDevice \in DeviceSet
BY DEF AnyAttempt, NoKeys, KeySet, NoPairing, PairingSet, NewSeqTracker, TrackerSet, NoDevice, DeviceSet

LEMMA FrameType ==
  ASSUME NEW k \in Kind, NEW n \in Nat, NEW w \in Nat, NEW keys \in KeySet, NEW b \in Nat
  PROVE  /\ Frame(k, n, w, keys, b) \in FrameSet
         /\ Frame(k, n, w, keys, b).kind = k /\ Frame(k, n, w, keys, b).seq = n
         /\ Frame(k, n, w, keys, b).win = w /\ Frame(k, n, w, keys, b).keys = keys
         /\ Frame(k, n, w, keys, b).body = b
BY DEF Frame, FrameSet

\* Expiry touches the open window, its attaches and the sockets it closes.
LEMMA ExpireEffect ==
  ASSUME NEW r \in RelaySet
  PROVE  LET e == expireWindowLocked(r)
         IN  /\ e \in RelaySet
             /\ e.open = 0
             /\ e.opened = r.opened /\ e.channels = r.channels
             /\ e.toHost = r.toHost /\ e.toDev = r.toDev /\ e.fromDev = r.fromDev
<1>1. CASE r.open = 0
  BY <1>1 DEF expireWindowLocked
<1>2. CASE r.open # 0
  <2>1. r.open \in Window /\ r.conns[r.open] \in SUBSET Attempt
    BY <1>2, Limits DEF RelaySet, Window
  <2> DEFINE c == [r.conns EXCEPT ![r.open] = {}]
             e == [r EXCEPT !.open = 0, !.conns = c, !.closed = r.closed \cup r.conns[r.open]]
  <2>2. expireWindowLocked(r) = e
    BY <1>2 DEF expireWindowLocked, RelaySet
  <2>3. c \in [Window -> SUBSET Attempt]
    BY DEF RelaySet
  <2> HIDE DEF c
  <2>4. 0 \in 0..MaxWindow /\ r.closed \cup r.conns[r.open] \in SUBSET Attempt
    BY <2>1, Limits DEF RelaySet
  <2>5. e \in RelaySet
    BY <2>3, <2>4 DEF RelaySet
  <2> QED
    BY <2>2, <2>5 DEF RelaySet
<1> QED
  BY <1>1, <1>2

\* A host frame reaches some of the attaches and nothing else.
LEMMA HostFrameEffect ==
  ASSUME NEW r \in RelaySet, NEW f \in FrameSet
  PROVE  LET e == hostFrame(r, f)
         IN  /\ e \in RelaySet
             /\ e.opened = r.opened /\ e.open = r.open /\ e.channels = r.channels
             /\ e.toHost = r.toHost /\ e.fromDev = r.fromDev
             /\ \A a \in Attempt : e.toDev[a] \in {r.toDev[a], Append(r.toDev[a], f)}
<1>1. CASE f.win = 0 \/ f.win # r.open
  BY <1>1 DEF hostFrame
<1>2. CASE ~(f.win = 0 \/ f.win # r.open)
  <2> DEFINE q == [a \in Attempt |-> IF a \in r.conns[f.win] /\ Waiting(a) THEN Append(r.toDev[a], f) ELSE r.toDev[a]]
  <2>1. hostFrame(r, f) = [r EXCEPT !.toDev = q]
    BY <1>2 DEF hostFrame
  <2>2. q \in [Attempt -> Seq(FrameSet)]
    BY DEF RelaySet
  <2>3. [r EXCEPT !.toDev = q] \in RelaySet
    BY <2>2 DEF RelaySet
  <2>4. [r EXCEPT !.toDev = q].toDev = q
    BY DEF RelaySet
  <2> HIDE DEF q
  <2>5. \A a \in Attempt : q[a] \in {r.toDev[a], Append(r.toDev[a], f)}
    BY DEF q
  <2> QED
    BY <2>1, <2>3, <2>4, <2>5 DEF RelaySet
<1> QED
  BY <1>1, <1>2

LEMMA StrikeType ==
  ASSUME NEW h \in HostSet
  PROVE  /\ Strike(h) \in HostSet /\ Strike(h).win = h.win
         /\ consumeToken(h) \in HostSet /\ consumeToken(h).win = h.win
<1>1. (h.macFailures + 1 < MacStrikes) \in BOOLEAN /\ h.macFailures + 1 \in Nat
  BY DEF HostSet
<1>2. Strike(h) \in HostSet /\ Strike(h).win = h.win
  BY <1>1 DEF Strike, HostSet
<1>3. consumeToken(h) \in HostSet /\ consumeToken(h).win = h.win
  BY DEF consumeToken, HostSet
<1> QED
  BY <1>2, <1>3

LEMMA PairFailEffect ==
  ASSUME NEW h \in HostSet, NEW r \in RelaySet
  PROVE  pairFail([h |-> h, r |-> r]) =
           [h |-> [h EXCEPT !.pairing = NoPairing],
            r |-> hostFrame(r, Frame("sess.denied", 0, h.win, NoKeys, 0))]
<1> DEFINE g == [h EXCEPT !.pairing = NoPairing]
<1>1. [[h |-> h, r |-> r] EXCEPT !.h.pairing = NoPairing] = [h |-> g, r |-> r]
  OBVIOUS
<1>2. g.win = h.win
  BY DEF HostSet
<1> HIDE DEF g
<1>3. pairFail([h |-> h, r |-> r]) = sendControl([h |-> g, r |-> r], "sess.denied", NoKeys)
  BY <1>1 DEF pairFail
<1>4. sendControl([h |-> g, r |-> r], "sess.denied", NoKeys)
        = [h |-> g, r |-> hostFrame(r, Frame("sess.denied", 0, h.win, NoKeys, 0))]
  BY <1>2 DEF sendControl
<1> QED
  BY <1>3, <1>4 DEF g

\* What one frame does to the host h: handlePairInit ...
InitOutcome(h, f, g) ==
  \/ ~h.tokenLive /\ g = [h EXCEPT !.pairing = NoPairing]
  \/ h.tokenLive /\ f.body # h.win /\ g = [Strike(h) EXCEPT !.pairing = NoPairing]
  \/ h.tokenLive /\ f.body = h.win /\ g = [consumeToken(h) EXCEPT !.pairing = NoPairing]
  \/ /\ h.tokenLive /\ f.body = h.win
     /\ g = [consumeToken(h) EXCEPT !.nonce = h.nonce + 1,
               !.pairing = [NoPairing EXCEPT !.keys = <<f.keys[1], h.nonce + 1>>, !.step = 2]]

\* ... and the other two, once the pairing has keys.
FrameOutcome(h, f, g) ==
  LET p == h.pairing
  IN  \/ g = h
      \/ g = [h EXCEPT !.pairing = NoPairing]
      \/ p.step = 2 /\ g = [h EXCEPT !.pairing = [p EXCEPT !.pull = f.keys, !.step = 3]]
      \/ /\ p.step = 3 /\ f.kind # "sess.header" /\ f.keys = p.keys
         /\ g = [h EXCEPT !.prompting = TRUE, !.pairing = [p EXCEPT !.tracker = Accept(p.tracker, f.seq)]]

LEMMA PairInitEffect ==
  ASSUME NEW h \in HostSet, NEW r \in RelaySet, NEW f \in FrameSet
  PROVE  LET t == handlePairInit([h |-> h, r |-> r], f)
         IN  /\ \E k \in {"sess.denied", "pair.accept"}, keys \in KeySet :
                  t.r = hostFrame(r, Frame(k, 0, h.win, keys, 0))
             /\ InitOutcome(h, f, t.h)
<1> USE DEF InitOutcome
<1> DEFINE s == [h |-> h, r |-> r]
           a == f.keys[1]
           n == h.nonce + 1
<1>1. CASE ~h.tokenLive
  <2>1. handlePairInit(s, f) = pairFail(s)
    BY <1>1 DEF handlePairInit
  <2>2. handlePairInit(s, f) = [h |-> [h EXCEPT !.pairing = NoPairing],
                                r |-> hostFrame(r, Frame("sess.denied", 0, h.win, NoKeys, 0))]
    BY <2>1, PairFailEffect
  <2> QED
    BY <1>1, <2>2, NoValues
<1>2. CASE h.tokenLive /\ f.body # h.win
  <2>1. handlePairInit(s, f) = pairFail([h |-> Strike(h), r |-> r])
    BY <1>2 DEF handlePairInit
  <2>2. handlePairInit(s, f) = [h |-> [Strike(h) EXCEPT !.pairing = NoPairing],
                                r |-> hostFrame(r, Frame("sess.denied", 0, h.win, NoKeys, 0))]
    BY <2>1, PairFailEffect, StrikeType
  <2> QED
    BY <1>2, <2>2, NoValues
<1>3. CASE h.tokenLive /\ f.body = h.win /\ h.device.id = a
  <2>1. handlePairInit(s, f) = pairFail([h |-> consumeToken(h), r |-> r])
    BY <1>3 DEF handlePairInit
  <2>2. handlePairInit(s, f) = [h |-> [consumeToken(h) EXCEPT !.pairing = NoPairing],
                                r |-> hostFrame(r, Frame("sess.denied", 0, h.win, NoKeys, 0))]
    BY <2>1, PairFailEffect, StrikeType
  <2> QED
    BY <1>3, <2>2, NoValues
<1>4. CASE h.tokenLive /\ f.body = h.win /\ h.device.id # a
  <2> DEFINE g == [consumeToken(h) EXCEPT !.nonce = n,
                     !.pairing = [NoPairing EXCEPT !.keys = <<a, n>>, !.step = 2]]
  <2>1. handlePairInit(s, f) = sendControl([h |-> g, r |-> r], "pair.accept", <<a, n>>)
    BY <1>4 DEF handlePairInit
  <2>2. g.win = h.win
    BY DEF consumeToken, HostSet
  <2>3. <<a, n>> \in KeySet
    BY DEF KeySet, FrameSet, HostSet
  <2> HIDE DEF g
  <2>4. handlePairInit(s, f) = [h |-> g, r |-> hostFrame(r, Frame("pair.accept", 0, h.win, <<a, n>>, 0))]
    BY <2>1, <2>2 DEF sendControl
  <2> QED
    BY <1>4, <2>3, <2>4 DEF g
<1> QED
  BY <1>1, <1>2, <1>3, <1>4

LEMMA PairingFrameEffect ==
  ASSUME NEW h \in HostSet, NEW r \in RelaySet, NEW f \in FrameSet, f.kind # "pair.init"
  PROVE  LET t == handlePairingFrame([h |-> h, r |-> r], f)
         IN  t.r = r /\ FrameOutcome(h, f, t.h)
<1> USE DEF FrameOutcome
<1> DEFINE s == [h |-> h, r |-> r]
           p == h.pairing
<1>1. CASE f.kind = "sess.header"
  <2>1. handlePairingFrame(s, f) = handlePairSessHeader(s, f)
    BY <1>1 DEF handlePairingFrame
  <2>2. CASE p.step # 2
    BY <2>1, <2>2 DEF handlePairSessHeader
  <2>3. CASE p.step = 2
    <3>1. handlePairSessHeader(s, f)
            = [h |-> [h EXCEPT !.pairing = [p EXCEPT !.pull = f.keys, !.step = 3]], r |-> r]
      BY <2>3 DEF handlePairSessHeader, HostSet
    <3> QED
      BY <2>1, <2>3, <3>1
  <2> QED
    BY <2>2, <2>3
<1>2. CASE f.kind # "sess.header"
  <2>1. handlePairingFrame(s, f) = handlePairIdentity(s, f)
    BY <1>2 DEF handlePairingFrame
  <2>2. CASE p.step # 3
    BY <2>1, <2>2 DEF handlePairIdentity
  <2>3. CASE p.step = 3 /\ AcceptOK(p.tracker, f.seq) /\ Opens(p, f)
    <3>1. handlePairIdentity(s, f)
            = [h |-> [h EXCEPT !.prompting = TRUE, !.pairing = [p EXCEPT !.tracker = Accept(p.tracker, f.seq)]],
               r |-> r]
      BY <2>3 DEF handlePairIdentity, HostSet, PairingSet
    <3>2. f.keys = p.keys
      BY <2>3 DEF Opens
    <3> QED
      BY <1>2, <2>1, <2>3, <3>1, <3>2
  <2>4. CASE p.step = 3 /\ ~(AcceptOK(p.tracker, f.seq) /\ Opens(p, f))
    <3>1. handlePairIdentity(s, f) = [s EXCEPT !.h.pairing = NoPairing]
      BY <2>4 DEF handlePairIdentity
    <3>2. [s EXCEPT !.h.pairing = NoPairing] = [h |-> [h EXCEPT !.pairing = NoPairing], r |-> r]
      OBVIOUS
    <3> QED
      BY <2>1, <3>1, <3>2
  <2> QED
    BY <2>2, <2>3, <2>4
<1> QED
  BY <1>1, <1>2

LEMMA TailRelay ==
  ASSUME TypeOK, relay.toHost # <<>>
  PROVE  LET r == [relay EXCEPT !.toHost = Tail(@)]
         IN  /\ r \in RelaySet /\ Head(relay.toHost) \in FrameSet
             /\ r.toHost = Tail(relay.toHost)
             /\ r.opened = relay.opened /\ r.open = relay.open /\ r.channels = relay.channels
             /\ r.toDev = relay.toDev /\ r.fromDev = relay.fromDev
<1>1. relay.toHost \in Seq(FrameSet)
  BY DEF TypeOK, RelaySet
<1>2. Head(relay.toHost) \in FrameSet /\ Tail(relay.toHost) \in Seq(FrameSet)
  BY <1>1
<1> QED
  BY <1>2 DEF TypeOK, RelaySet

\* What HostRead does: the cases of a frame of the host's current window.
Dropped == host' = host /\ hist' = hist
Failed  == host' = [host EXCEPT !.pairing = NoPairing] /\ hist' = hist
Struck(f) ==
  /\ host.tokenLive /\ f.body # host.win
  /\ host' = [Strike(host) EXCEPT !.pairing = NoPairing]
  /\ hist' = [hist EXCEPT !.tried[host.win] = @ + 1]
Refused(f) ==
  /\ host.tokenLive
  /\ host' = [consumeToken(host) EXCEPT !.pairing = NoPairing]
  /\ hist' = hist
Accepted(f) ==
  /\ host.tokenLive /\ f.kind = "pair.init" /\ f.body = host.win
  /\ host' = [consumeToken(host) EXCEPT !.nonce = host.nonce + 1,
                 !.pairing = [NoPairing EXCEPT !.keys = <<f.keys[1], host.nonce + 1>>, !.step = 2]]
  /\ hist' = hist
Headed(f) ==
  /\ host.pairing.step = 2
  /\ host' = [host EXCEPT !.pairing = [host.pairing EXCEPT !.pull = f.keys, !.step = 3]]
  /\ hist' = hist
Prompted(f) ==
  /\ host.pairing.step = 3 /\ f.kind \notin {"pair.init", "sess.header"} /\ f.keys = host.pairing.keys
  /\ host' = [host EXCEPT !.prompting = TRUE,
                           !.pairing = [host.pairing EXCEPT !.tracker = Accept(host.pairing.tracker, f.seq)]]
  /\ hist' = [hist EXCEPT !.shown = f.keys[1]]

LEMMA HostReadEffect ==
  ASSUME TypeOK, HostRead
  PROVE  LET f == Head(relay.toHost)
         IN  /\ relay.toHost # <<>> /\ f \in FrameSet /\ ~host.prompting /\ UNCHANGED dev
             /\ relay' \in RelaySet
             /\ relay'.opened = relay.opened /\ relay'.open = relay.open
             /\ relay'.channels = relay.channels /\ relay'.fromDev = relay.fromDev
             /\ relay'.toHost = Tail(relay.toHost)
             /\ \A a \in Attempt : \/ relay'.toDev[a] = relay.toDev[a]
                                  \/ \E g \in FrameSet : g.kind # "pair.complete" /\ relay'.toDev[a] = Append(relay.toDev[a], g)
             /\ \/ Dropped
                \/ /\ f.win = host.win
                   /\ Failed \/ Struck(f) \/ Refused(f) \/ Accepted(f) \/ Headed(f) \/ Prompted(f)
<1> DEFINE f == Head(relay.toHost)
           r == [relay EXCEPT !.toHost = Tail(@)]
           s == [h |-> host, r |-> r]
           t == handlePairingFrame(s, f)
<1>1. relay.toHost # <<>> /\ ~host.prompting /\ UNCHANGED dev
  BY DEF HostRead
<1>2. /\ r \in RelaySet /\ f \in FrameSet /\ host \in HostSet
      /\ r.toHost = Tail(relay.toHost)
      /\ r.opened = relay.opened /\ r.open = relay.open /\ r.channels = relay.channels
      /\ r.toDev = relay.toDev /\ r.fromDev = relay.fromDev
  BY <1>1, TailRelay DEF TypeOK
<1> HIDE DEF r, f
<1>3. CASE f.win # host.win
  <2>1. host' = host /\ relay' = r
    BY <1>3 DEF HostRead, r, f
  <2>2. hist' = hist
    BY <1>1, <1>3 DEF HostRead, f
  <2> QED
    BY <1>1, <1>2, <2>1, <2>2 DEF Dropped, f
<1>4. CASE f.win = host.win /\ f.kind = "pair.init"
  <2>1. t = handlePairInit(s, f)
    BY <1>4 DEF handlePairingFrame
  <2>2. host' = t.h /\ relay' = t.r
    BY <1>4 DEF HostRead, r, f
  <2>3. hist' = IF host.tokenLive /\ f.body # host.win THEN [hist EXCEPT !.tried[host.win] = @ + 1]
                ELSE IF host'.prompting THEN [hist EXCEPT !.shown = f.keys[1]] ELSE hist
    BY <1>4, <2>2 DEF HostRead, r, f
  <2>4. PICK k \in {"sess.denied", "pair.accept"}, keys \in KeySet :
          relay' = hostFrame(r, Frame(k, 0, host.win, keys, 0))
    <3>1. \E k \in {"sess.denied", "pair.accept"}, keys \in KeySet :
            handlePairInit(s, f).r = hostFrame(r, Frame(k, 0, host.win, keys, 0))
      BY <1>2, PairInitEffect
    <3> QED
      BY <2>1, <2>2, <3>1
  <2>5. host.win \in Nat
    BY <1>2, Limits DEF HostSet
  <2>6. Frame(k, 0, host.win, keys, 0) \in FrameSet /\ Frame(k, 0, host.win, keys, 0).kind = k
    BY <2>5, FrameType DEF Kind
  <2>7. /\ relay' \in RelaySet
        /\ relay'.opened = r.opened /\ relay'.open = r.open
        /\ relay'.channels = r.channels /\ relay'.fromDev = r.fromDev
        /\ relay'.toHost = r.toHost
        /\ \A a \in Attempt : relay'.toDev[a] \in {r.toDev[a], Append(r.toDev[a], Frame(k, 0, host.win, keys, 0))}
    BY <1>2, <2>4, <2>6, HostFrameEffect
  <2>8. InitOutcome(host, f, handlePairInit(s, f).h)
    BY <1>2, PairInitEffect
  <2>9. host' = handlePairInit(s, f).h
    BY <2>1, <2>2
  <2>10. ~host'.prompting
    <3> HIDE DEF s
    <3> QED
      BY <1>1, <1>2, <2>8, <2>9 DEF InitOutcome, HostSet, Strike, consumeToken
  <2>11. Failed \/ Struck(f) \/ Refused(f) \/ Accepted(f)
    <3> HIDE DEF s
    <3>1. CASE host.tokenLive /\ f.body # host.win
      BY <2>3, <2>8, <2>9, <3>1 DEF InitOutcome, Struck
    <3>2. CASE ~(host.tokenLive /\ f.body # host.win)
      <4>1. hist' = hist
        BY <2>3, <2>10, <3>2
      <4> QED
        BY <1>4, <2>8, <2>9, <3>2, <4>1 DEF InitOutcome, Failed, Refused, Accepted
    <3> QED
      BY <3>1, <3>2
  <2> QED
    BY <1>1, <1>2, <1>4, <2>6, <2>7, <2>11 DEF f
<1>5. CASE f.win = host.win /\ f.kind # "pair.init"
  <2>1. host' = t.h /\ relay' = t.r
    BY <1>5 DEF HostRead, r, f
  <2>2. hist' = IF host'.prompting THEN [hist EXCEPT !.shown = f.keys[1]] ELSE hist
    BY <1>5, <2>1 DEF HostRead, r, f
  <2>3. relay' = r
    BY <1>2, <1>5, <2>1, PairingFrameEffect
  <2>4. CASE host' = host
    BY <1>1, <1>2, <2>2, <2>3, <2>4 DEF Dropped, f
  <2>5. CASE host' = [host EXCEPT !.pairing = NoPairing]
    <3>1. ~host'.prompting
      BY <1>1, <1>2, <2>5 DEF HostSet
    <3>2. Failed
      BY <2>2, <2>5, <3>1 DEF Failed
    <3> QED
      BY <1>1, <1>2, <1>5, <2>3, <3>2 DEF f
  <2>6. CASE /\ host.pairing.step = 2
             /\ host' = [host EXCEPT !.pairing = [host.pairing EXCEPT !.pull = f.keys, !.step = 3]]
    <3>1. ~host'.prompting
      BY <1>1, <1>2, <2>6 DEF HostSet
    <3>2. Headed(f)
      BY <2>2, <2>6, <3>1 DEF Headed
    <3> QED
      BY <1>1, <1>2, <1>5, <2>3, <3>2 DEF f
  <2>7. CASE /\ host.pairing.step = 3 /\ f.kind # "sess.header" /\ f.keys = host.pairing.keys
             /\ host' = [host EXCEPT !.prompting = TRUE,
                           !.pairing = [host.pairing EXCEPT !.tracker = Accept(host.pairing.tracker, f.seq)]]
    <3>1. host'.prompting
      BY <1>2, <2>7 DEF HostSet
    <3>2. Prompted(f)
      BY <1>5, <2>2, <2>7, <3>1 DEF Prompted
    <3> QED
      BY <1>1, <1>2, <1>5, <2>3, <3>2 DEF f
  <2>8. FrameOutcome(host, f, t.h)
    BY <1>2, <1>5, PairingFrameEffect
  <2> HIDE DEF t
  <2> QED
    BY <2>1, <2>4, <2>5, <2>6, <2>7, <2>8 DEF FrameOutcome
<1> QED
  BY <1>3, <1>4, <1>5

\* sendEncryptedOn: one frame under the keys of the pairing.
LEMMA SendEncryptedEffect ==
  ASSUME NEW h \in HostSet, NEW r \in RelaySet, NEW k, NEW b
  PROVE  sendEncryptedOn([h |-> h, r |-> r], k, b).r = hostFrame(r, Frame(k, 1, h.win, h.pairing.keys, b))
BY DEF sendEncryptedOn

LEMMA RegisterEffect ==
  ASSUME NEW r \in RelaySet, NEW c \in Nat, NEW a \in AnyAttempt
  PROVE  LET e == handleCreatePairing(r, c, a)
         IN  /\ e \in RelaySet
             /\ e.channels = r.channels \cup {<<c, a>>}
             /\ e.opened = r.opened /\ e.open = r.open
             /\ e.toHost = r.toHost /\ e.toDev = r.toDev /\ e.fromDev = r.fromDev
<1>1. r.channels \cup {<<c, a>>} \in SUBSET (Nat \X AnyAttempt)
  BY DEF RelaySet
<1> QED
  BY <1>1 DEF handleCreatePairing, RelaySet

\* The channel of a registration, fresh because channels are numbered by count.
NewChannel == Cardinality(relay.channels) + 1

\* What OperatorAccepts does when the registration goes through.
Registered ==
  LET a == host.pairing.keys[1]
  IN  /\ host' = [host EXCEPT !.prompting = FALSE, !.pairing = NoPairing,
                               !.closing = @ \cup {host.win},
                               !.device = [id |-> a, channel |-> NewChannel, h2dSent |-> 1,
                                           d2h |-> host.pairing.tracker.last]]
      /\ hist' = [hist EXCEPT !.recorded[host.win] = @ \cup {<<a, hist.shown>>}]
      /\ relay' \in RelaySet
      /\ relay'.channels = relay.channels \cup {<<NewChannel, a>>}
      /\ relay'.opened = relay.opened /\ relay'.open = relay.open
      /\ relay'.toHost = relay.toHost /\ relay'.fromDev = relay.fromDev
      /\ \E f \in FrameSet :
           /\ f.kind = "pair.complete" /\ f.seq = 1 /\ f.keys = host.pairing.keys /\ f.body = NewChannel
           /\ \A b \in Attempt : relay'.toDev[b] \in {relay.toDev[b], Append(relay.toDev[b], f)}

LEMMA OperatorAcceptsEffect ==
  ASSUME TypeOK, OperatorAccepts
  PROVE  /\ host.prompting /\ UNCHANGED dev
         /\ \/ /\ host' = [host EXCEPT !.prompting = FALSE, !.pairing = NoPairing]
               /\ UNCHANGED <<relay, hist>>
            \/ Registered
<1> DEFINE a == host.pairing.keys[1]
           r == handleCreatePairing(relay, NewChannel, a)
           f == Frame("pair.complete", 1, host.win, host.pairing.keys, NewChannel)
<1>1. host.prompting /\ UNCHANGED dev
  BY DEF OperatorAccepts
<1>2. /\ host \in HostSet /\ relay \in RelaySet /\ a \in AnyAttempt
      /\ host.win \in Nat /\ host.pairing.keys \in KeySet
  BY Limits DEF TypeOK, HostSet, PairingSet, KeySet
<1>3. NewChannel \in Nat
  BY FS_CardinalityType DEF NewChannel, TypeOK
<1>4. CASE host' = [host EXCEPT !.prompting = FALSE, !.pairing = NoPairing] /\ UNCHANGED <<relay, hist>>
  BY <1>1, <1>4
<1>5. CASE /\ host' = [host EXCEPT !.prompting = FALSE, !.pairing = NoPairing,
                               !.closing = @ \cup {host.win},
                               !.device = [id |-> a, channel |-> NewChannel, h2dSent |-> 1,
                                           d2h |-> host.pairing.tracker.last]]
           /\ relay' = sendEncryptedOn([h |-> host, r |-> r], "pair.complete", NewChannel).r
           /\ hist' = [hist EXCEPT !.recorded[host.win] = @ \cup {<<a, hist.shown>>}]
  <2>1. /\ r \in RelaySet
        /\ r.channels = relay.channels \cup {<<NewChannel, a>>}
        /\ r.opened = relay.opened /\ r.open = relay.open
        /\ r.toHost = relay.toHost /\ r.toDev = relay.toDev /\ r.fromDev = relay.fromDev
    BY <1>2, <1>3, RegisterEffect
  <2> HIDE DEF r, a
  <2>2. relay' = hostFrame(r, f)
    BY <1>2, <1>5, <2>1, SendEncryptedEffect
  <2>3. f \in FrameSet /\ f.kind = "pair.complete" /\ f.seq = 1 /\ f.keys = host.pairing.keys /\ f.body = NewChannel
    <3>1. "pair.complete" \in Kind /\ 1 \in Nat
      BY DEF Kind
    <3> HIDE DEF NewChannel
    <3> QED
      BY <1>2, <1>3, <3>1, FrameType
  <2> HIDE DEF f
  <2>4. /\ relay' \in RelaySet
        /\ relay'.opened = r.opened /\ relay'.open = r.open /\ relay'.channels = r.channels
        /\ relay'.toHost = r.toHost /\ relay'.fromDev = r.fromDev
        /\ \A b \in Attempt : relay'.toDev[b] \in {r.toDev[b], Append(r.toDev[b], f)}
    BY <2>1, <2>2, <2>3, HostFrameEffect
  <2>5. Registered
    BY <1>5, <2>1, <2>3, <2>4 DEF Registered, a
  <2> QED
    BY <1>1, <2>5
<1> QED
  BY <1>4, <1>5 DEF OperatorAccepts, NewChannel

-----------------------------------------------------------------------------
(* The steps of a device, and what they leave of the relay *)

\* Windows and registrations are as they were.
WindowsKept == relay'.opened = relay.opened /\ relay'.open = relay.open /\ relay'.channels = relay.channels

LEMMA DeviceFrameEffect ==
  ASSUME TypeOK, NEW a \in Attempt, DeviceFrame(a)
  PROVE  /\ UNCHANGED <<host, dev, hist>> /\ relay' \in RelaySet /\ WindowsKept
         /\ relay'.toDev = relay.toDev
         /\ relay.fromDev[a] # <<>>
         /\ relay'.fromDev = [relay.fromDev EXCEPT ![a] = Tail(@)]
         /\ relay'.toHost \in {relay.toHost, Append(relay.toHost, Head(relay.fromDev[a]))}
<1> DEFINE q == [relay.fromDev EXCEPT ![a] = Tail(@)]
           c == IF dev[a].win = relay.open THEN relay.closed ELSE relay.closed \cup {a}
           t == IF dev[a].win = relay.open /\ Len(relay.toHost) < QueueCap
                THEN Append(relay.toHost, Head(relay.fromDev[a])) ELSE relay.toHost
<1>1. relay.fromDev[a] # <<>> /\ UNCHANGED <<host, dev, hist>>
  BY DEF DeviceFrame
<1>2. relay.fromDev[a] \in Seq(FrameSet) /\ relay.toHost \in Seq(FrameSet)
  BY DEF TypeOK, RelaySet
<1>3. Head(relay.fromDev[a]) \in FrameSet /\ Tail(relay.fromDev[a]) \in Seq(FrameSet)
  BY <1>1, <1>2
<1>4. q \in [Attempt -> Seq(FrameSet)] /\ c \in SUBSET Attempt /\ t \in Seq(FrameSet)
  BY <1>2, <1>3 DEF TypeOK, RelaySet
<1>5. relay' = [relay EXCEPT !.fromDev = q, !.closed = c, !.toHost = t]
  BY DEF DeviceFrame, TypeOK, RelaySet
<1>6. t \in {relay.toHost, Append(relay.toHost, Head(relay.fromDev[a]))}
  OBVIOUS
<1> HIDE DEF q, c, t
<1>7. relay' \in RelaySet /\ relay'.fromDev = q /\ relay'.toHost = t /\ relay'.toDev = relay.toDev /\ WindowsKept
  BY <1>4, <1>5 DEF TypeOK, RelaySet, WindowsKept
<1> QED
  BY <1>1, <1>6, <1>7 DEF q

LEMMA DeviceDetachEffect ==
  ASSUME TypeOK, NEW a \in Attempt, DeviceDetach(a)
  PROVE  /\ UNCHANGED <<host, dev, hist>> /\ relay' \in RelaySet /\ WindowsKept
         /\ relay'.toDev = relay.toDev /\ relay'.toHost = relay.toHost
         /\ relay'.fromDev = [relay.fromDev EXCEPT ![a] = <<>>]
<1> DEFINE q == [relay.fromDev EXCEPT ![a] = <<>>]
           c == [relay.conns EXCEPT ![dev[a].win] = @ \ {a}]
<1>1. relay' = [relay EXCEPT !.conns = c, !.fromDev = q]
  BY DEF DeviceDetach, TypeOK, RelaySet
<1>2. q \in [Attempt -> Seq(FrameSet)] /\ c \in [Window -> SUBSET Attempt]
  <2>1. <<>> \in Seq(FrameSet) /\ relay.fromDev \in [Attempt -> Seq(FrameSet)]
    BY DEF TypeOK, RelaySet
  <2>2. relay.conns \in [Window -> SUBSET Attempt]
    BY DEF TypeOK, RelaySet
  <2>3. q \in [Attempt -> Seq(FrameSet)]
    BY <2>1
  <2>4. c \in [Window -> SUBSET Attempt]
    BY <2>2
  <2> QED
    BY <2>3, <2>4
<1> HIDE DEF q, c
<1>3. relay' \in RelaySet /\ relay'.fromDev = q /\ relay'.toHost = relay.toHost /\ relay'.toDev = relay.toDev /\ WindowsKept
  BY <1>1, <1>2 DEF TypeOK, RelaySet, WindowsKept
<1> QED
  BY <1>3 DEF q, DeviceDetach

LEMMA PairAttachEffect ==
  ASSUME TypeOK, NEW a \in Attempt, PairAttach(a)
  PROVE  /\ UNCHANGED <<host, hist>> /\ relay' \in RelaySet /\ WindowsKept
         /\ relay'.toDev = relay.toDev /\ relay'.toHost = relay.toHost /\ relay'.fromDev = relay.fromDev
         /\ dev[a].pc = "idle" /\ relay.open # 0
         /\ \E token \in 1..host.win :
              dev' = [dev EXCEPT ![a] = [@ EXCEPT !.pc = "admitted", !.token = token, !.win = relay.open]]
<1>1. relay' = [relay EXCEPT !.attaches = relay.attaches + 1] /\ relay \in RelaySet
  BY DEF PairAttach, TypeOK
<1>2. relay.attaches + 1 \in Nat
  BY DEF TypeOK, RelaySet
<1>3. /\ relay' \in RelaySet /\ WindowsKept
      /\ relay'.toDev = relay.toDev /\ relay'.toHost = relay.toHost /\ relay'.fromDev = relay.fromDev
  BY <1>1, <1>2 DEF RelaySet, WindowsKept
<1> QED
  BY <1>3 DEF PairAttach, Admits

\* The frames of a device.
InitFrame(a) == Frame("pair.init", 0, dev[a].win, <<a, 0>>, dev[a].token)
HeaderFrame(a, n) == Frame("sess.header", 0, dev[a].win, <<a, n>>, 0)
IdentityFrame(a, n) == Frame("pair.identity", 1, dev[a].win, <<a, n>>, 0)

LEMMA DeviceFrames ==
  ASSUME TypeOK, NEW a \in Attempt, NEW n \in Nat
  PROVE  /\ InitFrame(a) \in FrameSet /\ HeaderFrame(a, n) \in FrameSet /\ IdentityFrame(a, n) \in FrameSet
         /\ InitFrame(a).kind = "pair.init" /\ InitFrame(a).body = dev[a].token
         /\ HeaderFrame(a, n).kind = "sess.header"
         /\ IdentityFrame(a, n).kind = "pair.identity" /\ IdentityFrame(a, n).seq = 1
         /\ InitFrame(a).keys = <<a, 0>> /\ HeaderFrame(a, n).keys = <<a, n>> /\ IdentityFrame(a, n).keys = <<a, n>>
         /\ InitFrame(a).win = dev[a].win /\ HeaderFrame(a, n).win = dev[a].win /\ IdentityFrame(a, n).win = dev[a].win
<1>1. dev[a].win \in Nat /\ dev[a].token \in Nat
  BY Limits DEF TypeOK, DevSet
<1>2. <<a, 0>> \in KeySet /\ <<a, n>> \in KeySet
  BY DEF KeySet, AnyAttempt
<1>3. "pair.init" \in Kind /\ "sess.header" \in Kind /\ "pair.identity" \in Kind
  BY DEF Kind
<1>4. 0 \in Nat /\ 1 \in Nat
  OBVIOUS
<1>5. /\ InitFrame(a) \in FrameSet /\ InitFrame(a).kind = "pair.init" /\ InitFrame(a).body = dev[a].token
      /\ InitFrame(a).keys = <<a, 0>> /\ InitFrame(a).win = dev[a].win
  BY <1>1, <1>2, <1>3, <1>4 DEF InitFrame, Frame, FrameSet
<1>6. /\ HeaderFrame(a, n) \in FrameSet /\ HeaderFrame(a, n).kind = "sess.header"
      /\ HeaderFrame(a, n).keys = <<a, n>> /\ HeaderFrame(a, n).win = dev[a].win
  BY <1>1, <1>2, <1>3, <1>4 DEF HeaderFrame, Frame, FrameSet
<1>7. /\ IdentityFrame(a, n) \in FrameSet /\ IdentityFrame(a, n).kind = "pair.identity" /\ IdentityFrame(a, n).seq = 1
      /\ IdentityFrame(a, n).keys = <<a, n>> /\ IdentityFrame(a, n).win = dev[a].win
  BY <1>1, <1>2, <1>3, <1>4 DEF IdentityFrame, Frame, FrameSet
<1> QED
  BY <1>5, <1>6, <1>7

LEMMA PairInsertEffect ==
  ASSUME TypeOK, NEW a \in Attempt, PairInsert(a)
  PROVE  /\ UNCHANGED <<host, hist>> /\ relay' \in RelaySet /\ WindowsKept
         /\ relay'.toDev = relay.toDev /\ relay'.toHost = relay.toHost
         /\ relay'.fromDev = [relay.fromDev EXCEPT ![a] = <<InitFrame(a)>>]
         /\ dev[a].pc = "admitted" /\ dev' = [dev EXCEPT ![a].pc = "init"]
<1> DEFINE q == [relay.fromDev EXCEPT ![a] = <<InitFrame(a)>>]
           c == [relay.conns EXCEPT ![dev[a].win] = @ \cup {a}]
<1>1. relay' = [relay EXCEPT !.conns = c, !.fromDev = q]
  BY DEF PairInsert, insertPairConn, InitFrame, TypeOK, RelaySet
<1>2. <<InitFrame(a)>> \in Seq(FrameSet)
  BY DeviceFrames
<1>3. q \in [Attempt -> Seq(FrameSet)] /\ c \in [Window -> SUBSET Attempt]
  BY <1>2 DEF TypeOK, RelaySet
<1> HIDE DEF q, c
<1>4. relay' \in RelaySet /\ relay'.fromDev = q /\ relay'.toHost = relay.toHost /\ relay'.toDev = relay.toDev /\ WindowsKept
  BY <1>1, <1>3 DEF TypeOK, RelaySet, WindowsKept
<1> QED
  BY <1>4 DEF q, PairInsert

\* pair.accept is answered by two frames under the new keys ...
LEMMA PairReadAcceptEffect ==
  ASSUME TypeOK, NEW a \in Attempt, PairReadAccept(a)
  PROVE  /\ UNCHANGED <<host, hist>> /\ relay' \in RelaySet /\ WindowsKept
         /\ relay'.toHost = relay.toHost
         /\ dev[a].pc = "init"
         /\ \/ \E n \in Nat :
                 /\ dev' = [dev EXCEPT ![a] = [@ EXCEPT !.pc = "identity", !.keys = <<a, n>>]]
                 /\ relay.toDev[a] # <<>>
                 /\ relay'.toDev = [relay.toDev EXCEPT ![a] = Tail(@)]
                 /\ relay'.fromDev = [relay.fromDev EXCEPT ![a] = @ \o <<HeaderFrame(a, n), IdentityFrame(a, n)>>]
            \/ /\ dev' = [dev EXCEPT ![a].pc = "failed"]
               /\ relay'.toDev = [relay.toDev EXCEPT ![a] = <<>>]
               /\ relay'.fromDev = relay.fromDev
<1> DEFINE f == Head(relay.toDev[a])
           n == f.keys[2]
<1>1. relay.toDev[a] # <<>> /\ dev[a].pc = "init" /\ UNCHANGED <<host, hist>>
  BY DEF PairReadAccept
<1>2. /\ relay.toDev \in [Attempt -> Seq(FrameSet)] /\ relay.fromDev \in [Attempt -> Seq(FrameSet)]
      /\ relay \in RelaySet
  BY DEF TypeOK, RelaySet
<1>3. f \in FrameSet /\ Tail(relay.toDev[a]) \in Seq(FrameSet)
  BY <1>1, <1>2
<1>4. n \in Nat
  BY <1>3 DEF FrameSet, KeySet
<1>5. CASE f.kind = "pair.accept"
  <2> DEFINE d == [relay.toDev EXCEPT ![a] = Tail(@)]
             q == [relay.fromDev EXCEPT ![a] = @ \o <<HeaderFrame(a, n), IdentityFrame(a, n)>>]
  <2>1. <<HeaderFrame(a, n), IdentityFrame(a, n)>> \in Seq(FrameSet)
    BY <1>4, DeviceFrames
  <2>2. dev' = [dev EXCEPT ![a] = [@ EXCEPT !.pc = "identity", !.keys = <<a, n>>]]
    BY <1>5 DEF PairReadAccept
  <2>3. relay' = [relay EXCEPT !.toDev[a] = Tail(@),
                               !.fromDev[a] = @ \o <<HeaderFrame(a, n), IdentityFrame(a, n)>>]
    BY <1>5 DEF PairReadAccept, HeaderFrame, IdentityFrame
  <2> HIDE DEF n
  <2>4. relay' = [relay EXCEPT !.toDev = d, !.fromDev = q]
    BY <1>2, <2>3 DEF RelaySet
  <2>5. d \in [Attempt -> Seq(FrameSet)]
    BY <1>2, <1>3
  <2>6. relay.fromDev[a] \o <<HeaderFrame(a, n), IdentityFrame(a, n)>> \in Seq(FrameSet)
    BY <1>2, <2>1
  <2>7. q \in [Attempt -> Seq(FrameSet)]
    BY <1>2, <2>6
  <2> HIDE DEF d, q
  <2>8. relay' \in RelaySet /\ relay'.fromDev = q /\ relay'.toHost = relay.toHost /\ relay'.toDev = d /\ WindowsKept
    BY <1>2, <2>4, <2>5, <2>7 DEF RelaySet, WindowsKept
  <2> QED
    BY <1>1, <1>4, <2>2, <2>8 DEF d, q
<1>6. CASE f.kind # "pair.accept"
  <2> DEFINE d == [relay.toDev EXCEPT ![a] = <<>>]
  <2>1. dev' = [dev EXCEPT ![a].pc = "failed"] /\ relay' = [relay EXCEPT !.toDev[a] = <<>>]
    BY <1>6 DEF PairReadAccept
  <2>2. relay' = [relay EXCEPT !.toDev = d] /\ d \in [Attempt -> Seq(FrameSet)]
    BY <1>2, <2>1 DEF RelaySet
  <2> HIDE DEF d
  <2>3. /\ relay' \in RelaySet /\ relay'.fromDev = relay.fromDev /\ relay'.toHost = relay.toHost
        /\ relay'.toDev = d /\ WindowsKept
    BY <1>2, <2>2 DEF RelaySet, WindowsKept
  <2> QED
    BY <1>1, <2>1, <2>3 DEF d
<1> QED
  BY <1>5, <1>6

\* ... and pair.complete ends the call, as do a closed connection and giving up.
LEMMA PairEndEffect ==
  ASSUME TypeOK, NEW a \in Attempt, PairReadComplete(a) \/ PairClosed(a) \/ PairGivesUp(a)
  PROVE  /\ UNCHANGED <<host, hist>> /\ relay' \in RelaySet /\ WindowsKept
         /\ relay'.toHost = relay.toHost /\ relay'.fromDev = relay.fromDev
         /\ relay'.toDev = [relay.toDev EXCEPT ![a] = <<>>]
         /\ dev[a].pc \in {"admitted", "init", "identity"}
         /\ \/ dev' = [dev EXCEPT ![a].pc = "failed"]
            \/ LET f == Head(relay.toDev[a])
               IN  /\ dev[a].pc = "identity" /\ relay.toDev[a] # <<>>
                   /\ f.kind = "pair.complete" /\ f.keys = dev[a].keys
                   /\ dev' = [dev EXCEPT ![a] = [@ EXCEPT !.pc = "paired",
                               !.state = [channel |-> f.body, D2HLastSent |-> 1, H2DLastSeen |-> f.seq]]]
<1> DEFINE d == [relay.toDev EXCEPT ![a] = <<>>]
<1>1. relay' = [relay EXCEPT !.toDev[a] = <<>>] /\ UNCHANGED <<host, hist>>
  BY DEF PairReadComplete, PairClosed, PairGivesUp
<1>2. relay.toDev \in [Attempt -> Seq(FrameSet)] /\ relay \in RelaySet
  BY DEF TypeOK, RelaySet
<1>3. relay' = [relay EXCEPT !.toDev = d] /\ d \in [Attempt -> Seq(FrameSet)]
  BY <1>1, <1>2 DEF RelaySet
<1> HIDE DEF d
<1>4. /\ relay' \in RelaySet /\ relay'.fromDev = relay.fromDev /\ relay'.toHost = relay.toHost
      /\ relay'.toDev = d /\ WindowsKept
  BY <1>2, <1>3 DEF RelaySet, WindowsKept
<1>5. CASE PairReadComplete(a)
  BY <1>1, <1>4, <1>5 DEF PairReadComplete, Authentic, d
<1>6. CASE PairClosed(a) \/ PairGivesUp(a)
  BY <1>1, <1>4, <1>6 DEF PairClosed, PairGivesUp, Waiting, d
<1> QED
  BY <1>5, <1>6

\* The steps of windows at the relay leave the host's pairing and all frames alone.
HostKept ==
  /\ host'.win = host.win /\ host'.tokenLive = host.tokenLive /\ host'.macFailures = host.macFailures
  /\ host'.pairing = host.pairing /\ host'.prompting = host.prompting /\ host'.device = host.device

FramesKept == relay'.toHost = relay.toHost /\ relay'.toDev = relay.toDev /\ relay'.fromDev = relay.fromDev

LEMMA WindowEffect ==
  ASSUME TypeOK, ExpireWindow \/ PostWindow \/ \E w \in Window : CloseWindow(w)
  PROVE  /\ TypeOK'
         /\ UNCHANGED <<dev, hist>> /\ HostKept /\ FramesKept
         /\ relay'.channels = relay.channels
<1> DEFINE e == expireWindowLocked(relay)
<1>0. host \in HostSet /\ relay \in RelaySet
  BY DEF TypeOK
<1>1. /\ e \in RelaySet
      /\ e.open = 0
      /\ e.opened = relay.opened /\ e.channels = relay.channels
      /\ e.toHost = relay.toHost /\ e.toDev = relay.toDev /\ e.fromDev = relay.fromDev
  BY <1>0, ExpireEffect
<1> HIDE DEF e
<1>2. CASE ExpireWindow
  BY <1>1, <1>2 DEF ExpireWindow, TypeOK, HostKept, FramesKept, RelaySet, e
<1>3. CASE PostWindow
  <2>1. relay.opened + 1 \in 0..MaxWindow /\ 0 \in Nat
    BY <1>3, <1>0, Limits DEF PostWindow, RelaySet
  <2>2. relay' = [e EXCEPT !.opened = relay.opened + 1, !.open = relay.opened + 1, !.attaches = 0]
    BY <1>3, <1>1 DEF PostWindow, handleOpenWindow, e
  <2>3. /\ relay' \in RelaySet /\ relay'.opened = relay.opened + 1 /\ relay'.open = relay.opened + 1
        /\ relay'.channels = relay.channels /\ FramesKept
    BY <1>1, <2>1, <2>2 DEF RelaySet, FramesKept
  <2>4. host' \in HostSet /\ host'.posted = relay.opened + 1 /\ HostKept
    BY <1>0, <1>3, <2>1 DEF PostWindow, HostSet, HostKept
  <2>5. host'.win <= host'.posted
    BY <1>0, <2>4, Limits DEF TypeOK, HostKept, HostSet
  <2>6. relay'.open <= relay'.opened
    BY <1>0, <2>3, Limits DEF RelaySet
  <2>7. UNCHANGED <<dev, hist>>
    BY <1>3 DEF PostWindow
  <2> QED
    BY <2>3, <2>4, <2>5, <2>6, <2>7 DEF TypeOK
<1>4. ASSUME NEW w \in Window, CloseWindow(w)
      PROVE  TypeOK' /\ UNCHANGED <<dev, hist>> /\ HostKept /\ FramesKept /\ relay'.channels = relay.channels
  <2>1. host' \in HostSet /\ host'.posted = host.posted /\ HostKept /\ UNCHANGED <<dev, hist>>
    BY <1>0, <1>4 DEF CloseWindow, HostSet, HostKept
  <2>2. relay' = relay \/ relay' = e
    BY <1>4 DEF CloseWindow, closeWindow, e
  <2>3. /\ relay' \in RelaySet /\ relay'.opened = relay.opened /\ relay'.open \in {0, relay.open}
        /\ relay'.channels = relay.channels /\ FramesKept
    BY <1>0, <1>1, <2>2 DEF FramesKept
  <2>4. relay'.open <= relay'.opened
    BY <1>0, <2>3, Limits DEF TypeOK, RelaySet
  <2> QED
    BY <2>1, <2>3, <2>4 DEF TypeOK, HostKept
<1> QED
  BY <1>2, <1>3, <1>4

LEMMA HostReadType == ASSUME TypeOK, HostRead PROVE TypeOK'
<1> DEFINE f == Head(relay.toHost)
<1>1. /\ f \in FrameSet /\ UNCHANGED dev /\ relay' \in RelaySet
      /\ relay'.opened = relay.opened /\ relay'.open = relay.open /\ relay'.channels = relay.channels
      /\ \/ Dropped
         \/ /\ f.win = host.win
            /\ Failed \/ Struck(f) \/ Refused(f) \/ Accepted(f) \/ Headed(f) \/ Prompted(f)
  BY HostReadEffect
<1> HIDE DEF f
<1>2. host \in HostSet /\ hist \in HistSet /\ host.pairing \in PairingSet
  BY DEF TypeOK, HostSet
<1>3. Strike(host) \in HostSet /\ consumeToken(host) \in HostSet
  BY <1>2, StrikeType
<1>4. Strike(host).posted = host.posted /\ Strike(host).win = host.win
      /\ consumeToken(host).posted = host.posted /\ consumeToken(host).win = host.win
  BY <1>2 DEF Strike, consumeToken, HostSet
<1>5. SUFFICES host' \in HostSet /\ hist' \in HistSet /\ host'.posted = host.posted /\ host'.win = host.win
  BY <1>1 DEF TypeOK
<1>6. CASE Dropped
  BY <1>2, <1>6 DEF Dropped
<1>7. CASE Failed
  BY <1>2, <1>7, NoValues DEF Failed, HostSet
<1>8. CASE Struck(f)
  <2>1. hist' \in HistSet
    <3> DEFINE t == [hist.tried EXCEPT ![host.win] = @ + 1]
    <3>1. hist' = [hist EXCEPT !.tried = t]
      BY <1>2, <1>8 DEF Struck, HistSet
    <3>2. t \in [Window -> Nat]
      <4>1. hist.tried \in [Window -> Nat]
        BY <1>2 DEF HistSet
      <4>2. CASE host.win \in Window
        BY <4>1, <4>2
      <4>3. CASE host.win \notin Window
        BY <4>1, <4>3
      <4> QED
        BY <4>2, <4>3
    <3> HIDE DEF t
    <3> QED
      BY <1>2, <3>1, <3>2 DEF HistSet
  <2>2. host' \in HostSet /\ host'.posted = host.posted /\ host'.win = host.win
    BY <1>3, <1>4, <1>8, NoValues DEF Struck, HostSet
  <2> QED
    BY <2>1, <2>2
<1>9. CASE Refused(f)
  BY <1>2, <1>3, <1>4, <1>9, NoValues DEF Refused, HostSet
<1>10. CASE Accepted(f)
  <2> DEFINE p == [NoPairing EXCEPT !.keys = <<f.keys[1], host.nonce + 1>>, !.step = 2]
  <2>1. host.nonce + 1 \in Nat
    BY <1>2 DEF HostSet
  <2>2. <<f.keys[1], host.nonce + 1>> \in KeySet
    BY <1>1, <2>1 DEF FrameSet, KeySet
  <2>3. p \in PairingSet
    BY <2>2, NoValues DEF PairingSet
  <2>4. host' = [consumeToken(host) EXCEPT !.nonce = host.nonce + 1, !.pairing = p] /\ hist' = hist
    BY <1>10 DEF Accepted
  <2> HIDE DEF p
  <2> QED
    BY <1>2, <1>3, <1>4, <2>1, <2>3, <2>4 DEF HostSet
<1>11. CASE Headed(f)
  <2> DEFINE p == [host.pairing EXCEPT !.pull = f.keys, !.step = 3]
  <2>1. p \in PairingSet
    BY <1>1, <1>2 DEF PairingSet, FrameSet
  <2>2. host' = [host EXCEPT !.pairing = p] /\ hist' = hist
    BY <1>11 DEF Headed
  <2> HIDE DEF p
  <2> QED
    BY <1>2, <2>1, <2>2 DEF HostSet
<1>12. CASE Prompted(f)
  <2> DEFINE p == [host.pairing EXCEPT !.tracker = Accept(host.pairing.tracker, f.seq)]
  <2>1. Accept(host.pairing.tracker, f.seq) \in TrackerSet
    BY <1>1 DEF Accept, TrackerSet, FrameSet
  <2>2. p \in PairingSet
    BY <1>2, <2>1 DEF PairingSet
  <2>3. host' = [host EXCEPT !.prompting = TRUE, !.pairing = p] /\ hist' = [hist EXCEPT !.shown = f.keys[1]]
    BY <1>12 DEF Prompted
  <2>4. f.keys[1] \in AnyAttempt
    BY <1>1 DEF FrameSet, KeySet
  <2> HIDE DEF p
  <2> QED
    BY <1>2, <2>2, <2>3, <2>4 DEF HostSet, HistSet
<1> QED
  BY <1>1, <1>6, <1>7, <1>8, <1>9, <1>10, <1>11, <1>12

LEMMA OperatorType == ASSUME TypeOK, OperatorAccepts \/ OperatorDeclines \/ OpenPairingWindow PROVE TypeOK'
<1>0. host \in HostSet /\ relay \in RelaySet /\ hist \in HistSet /\ host.pairing \in PairingSet
  BY DEF TypeOK, HostSet
<1>1. CASE OpenPairingWindow
  <2>1. host' \in HostSet /\ host'.posted = host.posted /\ host'.win = host.posted
    BY <1>0, <1>1 DEF OpenPairingWindow, HostSet
  <2>2. UNCHANGED <<relay, dev, hist>> /\ host.posted \in Nat
    BY <1>0, <1>1, Limits DEF OpenPairingWindow, HostSet
  <2> QED
    BY <2>1, <2>2 DEF TypeOK
<1>2. CASE host' = [host EXCEPT !.prompting = FALSE, !.pairing = NoPairing] /\ UNCHANGED <<relay, dev, hist>>
  <2>1. host' \in HostSet /\ host'.posted = host.posted /\ host'.win = host.win
    BY <1>0, <1>2, NoValues DEF HostSet
  <2> QED
    BY <1>2, <2>1 DEF TypeOK
<1>3. CASE OperatorDeclines
  <2> DEFINE f == Frame("pair.denied", 1, host.win, host.pairing.keys, 0)
  <2>1. host' \in HostSet /\ host'.posted = host.posted /\ host'.win = host.win
    BY <1>0, <1>3, NoValues DEF OperatorDeclines, HostSet
  <2>2. relay' = hostFrame(relay, f)
    BY <1>0, <1>3, SendEncryptedEffect DEF OperatorDeclines
  <2>3. f \in FrameSet
    BY <1>0, Limits DEF Frame, FrameSet, Kind, HostSet, PairingSet
  <2> HIDE DEF f
  <2>4. relay' \in RelaySet /\ relay'.opened = relay.opened /\ relay'.open = relay.open /\ relay'.channels = relay.channels
    BY <1>0, <2>2, <2>3, HostFrameEffect
  <2> QED
    BY <1>3, <2>1, <2>4 DEF OperatorDeclines, TypeOK
<1>4. CASE Registered /\ UNCHANGED dev
  <2> DEFINE a == host.pairing.keys[1]
             d == [id |-> a, channel |-> NewChannel, h2dSent |-> 1, d2h |-> host.pairing.tracker.last]
  <2>1. NewChannel \in Nat /\ a \in AnyAttempt
    BY <1>0, FS_CardinalityType DEF NewChannel, TypeOK, PairingSet, KeySet
  <2>2. d \in DeviceSet
    BY <1>0, <2>1 DEF DeviceSet, PairingSet, TrackerSet
  <2>3. host' = [host EXCEPT !.prompting = FALSE, !.pairing = NoPairing,
                             !.closing = @ \cup {host.win}, !.device = d]
    BY <1>4 DEF Registered
  <2>4. host.win \in Nat
    BY <1>0, Limits DEF HostSet
  <2> HIDE DEF d, NewChannel
  <2>5. host' \in HostSet /\ host'.posted = host.posted /\ host'.win = host.win
    BY <1>0, <2>2, <2>3, <2>4, NoValues DEF HostSet
  <2>6. hist' \in HistSet
    <3> DEFINE t == [hist.recorded EXCEPT ![host.win] = @ \cup {<<a, hist.shown>>}]
    <3>1. hist' = [hist EXCEPT !.recorded = t]
      BY <1>0, <1>4 DEF Registered, HistSet
    <3>2. <<a, hist.shown>> \in AnyAttempt \X AnyAttempt
      BY <1>0, <2>1 DEF HistSet
    <3>3. t \in [Window -> SUBSET (AnyAttempt \X AnyAttempt)]
      BY <1>0, <3>2 DEF HistSet
    <3> HIDE DEF t
    <3> QED
      BY <1>0, <3>1, <3>3 DEF HistSet
  <2>7. IsFiniteSet(relay'.channels)
    <3>1. relay'.channels = relay.channels \cup {<<NewChannel, a>>} /\ IsFiniteSet(relay.channels)
      BY <1>4 DEF Registered, TypeOK
    <3> HIDE DEF a
    <3>2. IsFiniteSet(relay.channels \cup {<<NewChannel, a>>})
      BY <3>1, FS_AddElement
    <3> QED
      BY <3>1, <3>2
  <2> QED
    BY <1>4, <2>5, <2>6, <2>7 DEF Registered, TypeOK
<1> QED
  BY <1>1, <1>2, <1>3, <1>4, OperatorAcceptsEffect

DeviceNext(a) ==
  \/ DeviceFrame(a) \/ DeviceDetach(a)
  \/ PairAttach(a) \/ PairInsert(a) \/ PairReadAccept(a) \/ PairReadComplete(a)
  \/ PairClosed(a) \/ PairGivesUp(a)

\* A device step is the device's own; the token it scanned and the window it was
\* admitted to are settled by the attach.
Settled(a) ==
  /\ dev'[a].pc = "idle" <=> dev[a].pc = "idle"
  /\ dev'[a].token = dev[a].token /\ dev'[a].win = dev[a].win

LEMMA DeviceEffect ==
  ASSUME TypeOK, NEW a \in Attempt, DeviceNext(a)
  PROVE  /\ UNCHANGED <<host, hist>> /\ relay' \in RelaySet /\ WindowsKept
         /\ dev' \in [Attempt -> DevSet]
         /\ \A b \in Attempt \ {a} : dev'[b] = dev[b]
         /\ \/ Settled(a)
            \/ dev[a].pc = "idle" /\ dev'[a].pc # "idle" /\ dev'[a].token \in 1..host.win
<1>0. dev \in [Attempt -> DevSet] /\ dev[a] \in DevSet /\ host \in HostSet /\ relay \in RelaySet
  BY DEF TypeOK
<1> DEFINE Goal ==
      /\ UNCHANGED <<host, hist>> /\ relay' \in RelaySet /\ WindowsKept
      /\ dev' \in [Attempt -> DevSet]
      /\ \A b \in Attempt \ {a} : dev'[b] = dev[b]
      /\ \/ Settled(a)
         \/ dev[a].pc = "idle" /\ dev'[a].pc # "idle" /\ dev'[a].token \in 1..host.win
<1>1. ASSUME NEW d \in DevSet, dev' = [dev EXCEPT ![a] = d]
      PROVE  dev' \in [Attempt -> DevSet] /\ dev'[a] = d /\ \A b \in Attempt \ {a} : dev'[b] = dev[b]
  BY <1>0, <1>1
<1>2. CASE DeviceFrame(a) \/ DeviceDetach(a)
  <2>1. UNCHANGED <<host, dev, hist>> /\ relay' \in RelaySet /\ WindowsKept
    BY <1>2, DeviceFrameEffect, DeviceDetachEffect
  <2> QED
    BY <1>0, <2>1 DEF Settled
<1>3. CASE PairAttach(a)
  <2>1. UNCHANGED <<host, hist>> /\ relay' \in RelaySet /\ WindowsKept /\ dev[a].pc = "idle"
    BY <1>3, PairAttachEffect
  <2>2. PICK token \in 1..host.win :
          dev' = [dev EXCEPT ![a] = [@ EXCEPT !.pc = "admitted", !.token = token, !.win = relay.open]]
    BY <1>3, PairAttachEffect
  <2> DEFINE d == [dev[a] EXCEPT !.pc = "admitted", !.token = token, !.win = relay.open]
  <2>3. token \in 0..MaxWindow /\ relay.open \in 0..MaxWindow
    BY <1>0, Limits DEF HostSet, RelaySet
  <2>4. d \in DevSet /\ d.pc = "admitted" /\ d.token = token
    BY <1>0, <2>3 DEF DevSet
  <2>5. dev' = [dev EXCEPT ![a] = d]
    BY <2>2
  <2> HIDE DEF d
  <2> QED
    BY <1>1, <2>1, <2>4, <2>5
<1>4. ASSUME UNCHANGED <<host, hist>> /\ relay' \in RelaySet /\ WindowsKept /\ dev[a].pc # "idle",
             NEW pc \in {"init", "failed"}, dev' = [dev EXCEPT ![a].pc = pc]
      PROVE  Goal
  <2> DEFINE d == [dev[a] EXCEPT !.pc = pc]
  <2>1. d \in DevSet /\ d.pc = pc /\ d.token = dev[a].token /\ d.win = dev[a].win
    BY <1>0 DEF DevSet
  <2>2. dev' = [dev EXCEPT ![a] = d]
    BY <1>4
  <2> HIDE DEF d
  <2> QED
    BY <1>1, <1>4, <2>1, <2>2 DEF Settled
<1>5. CASE PairInsert(a)
  BY <1>4, <1>5, PairInsertEffect
<1>6. CASE PairReadAccept(a)
  <2>1. UNCHANGED <<host, hist>> /\ relay' \in RelaySet /\ WindowsKept /\ dev[a].pc = "init"
    BY <1>6, PairReadAcceptEffect
  <2>2. ASSUME NEW n \in Nat, dev' = [dev EXCEPT ![a] = [@ EXCEPT !.pc = "identity", !.keys = <<a, n>>]]
        PROVE  Goal
    <3> DEFINE d == [dev[a] EXCEPT !.pc = "identity", !.keys = <<a, n>>]
    <3>1. <<a, n>> \in KeySet
      BY DEF KeySet, AnyAttempt
    <3>2. d \in DevSet /\ d.pc = "identity" /\ d.token = dev[a].token /\ d.win = dev[a].win
      BY <1>0, <3>1 DEF DevSet
    <3>3. dev' = [dev EXCEPT ![a] = d]
      BY <2>2
    <3> HIDE DEF d
    <3> QED
      BY <1>1, <2>1, <3>2, <3>3 DEF Settled
  <2>3. CASE dev' = [dev EXCEPT ![a].pc = "failed"]
    <3>1. dev[a].pc # "idle"
      BY <2>1
    <3> QED
      BY <1>4, <2>1, <2>3, <3>1
  <2>4. \/ \E n \in Nat : dev' = [dev EXCEPT ![a] = [@ EXCEPT !.pc = "identity", !.keys = <<a, n>>]]
        \/ dev' = [dev EXCEPT ![a].pc = "failed"]
    BY <1>6, PairReadAcceptEffect
  <2> QED
    BY <2>2, <2>3, <2>4
<1>7. CASE PairReadComplete(a) \/ PairClosed(a) \/ PairGivesUp(a)
  <2> DEFINE f == Head(relay.toDev[a])
  <2>1. /\ UNCHANGED <<host, hist>> /\ relay' \in RelaySet /\ WindowsKept
        /\ dev[a].pc \in {"admitted", "init", "identity"}
    BY <1>7, PairEndEffect
  <2>2. CASE dev' = [dev EXCEPT ![a].pc = "failed"]
    BY <1>4, <2>1, <2>2
  <2>3. CASE /\ relay.toDev[a] # <<>>
             /\ dev' = [dev EXCEPT ![a] = [@ EXCEPT !.pc = "paired",
                          !.state = [channel |-> f.body, D2HLastSent |-> 1, H2DLastSeen |-> f.seq]]]
    <3> DEFINE st == [channel |-> f.body, D2HLastSent |-> 1, H2DLastSeen |-> f.seq]
               d == [dev[a] EXCEPT !.pc = "paired", !.state = st]
    <3>0. relay.toDev[a] \in Seq(FrameSet)
      BY <1>0 DEF RelaySet
    <3>1. f \in FrameSet
      BY <2>3, <3>0
    <3>2. st \in [channel : Nat, D2HLastSent : Nat, H2DLastSeen : Nat]
      BY <3>1 DEF FrameSet
    <3>3. dev' = [dev EXCEPT ![a] = d]
      BY <2>3
    <3> HIDE DEF st
    <3>4. d \in DevSet /\ d.pc = "paired" /\ d.token = dev[a].token /\ d.win = dev[a].win
      BY <1>0, <3>2 DEF DevSet
    <3> HIDE DEF d
    <3> QED
      BY <1>1, <2>1, <3>3, <3>4 DEF Settled
  <2>4. \/ dev' = [dev EXCEPT ![a].pc = "failed"]
        \/ /\ relay.toDev[a] # <<>>
           /\ dev' = [dev EXCEPT ![a] = [@ EXCEPT !.pc = "paired",
                        !.state = [channel |-> f.body, D2HLastSent |-> 1, H2DLastSeen |-> f.seq]]]
    BY <1>7, PairEndEffect
  <2> HIDE DEF f
  <2> QED
    BY <2>2, <2>3, <2>4, SMTT(30)
<1> QED
  BY <1>2, <1>3, <1>5, <1>6, <1>7 DEF DeviceNext

LEMMA NextType == TypeOK /\ [Next]_vars => TypeOK'
<1> SUFFICES ASSUME TypeOK, [Next]_vars PROVE TypeOK'
  OBVIOUS
<1>1. ASSUME NEW a \in Attempt, DeviceNext(a) PROVE TypeOK'
  BY <1>1, DeviceEffect DEF TypeOK, WindowsKept
<1>2. CASE UNCHANGED vars
  BY <1>2 DEF vars, TypeOK
<1> QED
  BY <1>1, <1>2, WindowEffect, HostReadType, OperatorType DEF Next, DeviceNext

\* Types of the three parties' state: in particular the host's window is never
\* ahead of the relay's, and registrations stay finitely many.
THEOREM CeremonyTypeCorrect == Spec => []TypeOK
<1>1. Init => TypeOK
  <2> SUFFICES ASSUME Init PROVE TypeOK
    OBVIOUS
  <2>1. NoAttempt \in AnyAttempt /\ 0 \in 0..MaxWindow /\ {} \in SUBSET Nat
    BY Limits DEF AnyAttempt
  <2>2. host \in HostSet /\ host.posted = 0 /\ host.win = 0
    BY <2>1, NoValues DEF Init, HostSet
  <2>3. relay \in RelaySet /\ relay.opened = 0 /\ relay.open = 0 /\ relay.channels = {}
    BY <2>1 DEF Init, RelaySet
  <2>4. dev \in [Attempt -> DevSet]
    BY <2>1, NoValues DEF Init, DevSet, NoState
  <2>5. hist \in HistSet
    BY <2>1 DEF Init, HistSet
  <2> QED
    BY <2>2, <2>3, <2>4, <2>5, FS_EmptySet DEF TypeOK
<1> QED
  BY <1>1, NextType, PTL DEF Spec

-----------------------------------------------------------------------------
(* Wrong MACs *)

\* Strengthening of WrongMacsBounded: while a token lives, the host's counter is
\* the number of wrong MACs tried on it and is below the limit.
TokenInv ==
  /\ \A w \in Window : hist.tried[w] <= MacStrikes
  /\ \A w \in Window : w > host.win => hist.tried[w] = 0
  /\ host.tokenLive =>
       host.win \in Window /\ hist.tried[host.win] = host.macFailures /\ host.macFailures < MacStrikes

LEMMA NextToken == TypeOK /\ TokenInv /\ [Next]_vars => TokenInv'
<1> SUFFICES ASSUME TypeOK, TokenInv, [Next]_vars PROVE TokenInv'
  OBVIOUS
<1>0. host \in HostSet /\ hist \in HistSet /\ host.win \in 0..MaxWindow /\ host.macFailures \in Nat
  BY DEF TypeOK, HostSet
<1>1. CASE /\ host'.win = host.win /\ hist' = hist
           /\ host'.macFailures = host.macFailures /\ (host'.tokenLive => host.tokenLive)
  BY <1>1 DEF TokenInv
<1>2. ASSUME NEW a \in Attempt, DeviceNext(a) PROVE TokenInv'
  BY <1>1, <1>2, DeviceEffect
<1>3. CASE ExpireWindow \/ PostWindow \/ \E w \in Window : CloseWindow(w)
  BY <1>1, <1>3, WindowEffect DEF HostKept
<1>4. CASE OpenPairingWindow
  <2>1. /\ host'.win = host.posted /\ host'.tokenLive /\ host'.macFailures = 0 /\ hist' = hist
        /\ host.posted # host.win
    BY <1>0, <1>4 DEF OpenPairingWindow, HostSet
  <2>2. host.posted \in Window /\ host.posted > host.win
    BY <1>0, <2>1, Limits DEF TypeOK, HostSet, Window
  <2>3. hist.tried[host.posted] = 0
    BY <2>2 DEF TokenInv
  <2>4. \A w \in Window : w > host.posted => w > host.win
    BY <1>0, <2>2, Limits DEF Window
  <2> QED
    BY <2>1, <2>2, <2>3, <2>4, Limits DEF TokenInv
<1>5. CASE OperatorAccepts \/ OperatorDeclines
  <2>1. CASE OperatorDeclines
    BY <1>0, <1>1, <2>1 DEF OperatorDeclines, HostSet
  <2>2. CASE host' = [host EXCEPT !.prompting = FALSE, !.pairing = NoPairing] /\ UNCHANGED <<relay, hist>>
    BY <1>0, <1>1, <2>2 DEF HostSet
  <2>3. CASE Registered
    <3>1. /\ host'.win = host.win /\ host'.macFailures = host.macFailures /\ host'.tokenLive = host.tokenLive
          /\ hist'.tried = hist.tried
      BY <1>0, <2>3 DEF Registered, HostSet, HistSet
    <3> QED
      BY <3>1 DEF TokenInv
  <2> QED
    BY <1>5, <2>1, <2>2, <2>3, OperatorAcceptsEffect
<1>6. CASE HostRead
  <2> DEFINE f == Head(relay.toHost)
  <2>1. CASE Dropped
    BY <1>1, <2>1 DEF Dropped
  <2>2. CASE Failed
    BY <1>0, <1>1, <2>2 DEF Failed, HostSet
  <2>3. CASE Struck(f)
    <3>1. host' = [Strike(host) EXCEPT !.pairing = NoPairing] /\ host.tokenLive
      BY <2>3 DEF Struck
    <3>2. host'.win = host.win /\ host'.macFailures = host.macFailures + 1
          /\ (host'.tokenLive => host.macFailures + 1 < MacStrikes)
      BY <1>0, <3>1 DEF Strike, HostSet
    <3>3. host.win \in Window /\ hist.tried[host.win] = host.macFailures /\ host.macFailures < MacStrikes
      BY <3>1 DEF TokenInv
    <3>4. hist'.tried = [hist.tried EXCEPT ![host.win] = @ + 1] /\ hist.tried \in [Window -> Nat]
      BY <1>0, <2>3 DEF Struck, HistSet
    <3>5. /\ hist'.tried[host.win] = host.macFailures + 1
          /\ \A w \in Window : w # host.win => hist'.tried[w] = hist.tried[w]
      BY <3>3, <3>4
    <3> QED
      BY <1>0, <3>2, <3>3, <3>5, Limits DEF TokenInv, Window
  <2>4. CASE Refused(f)
    BY <1>0, <1>1, <2>4 DEF Refused, consumeToken, HostSet
  <2>5. CASE Accepted(f)
    BY <1>0, <1>1, <2>5 DEF Accepted, consumeToken, HostSet
  <2>6. CASE Headed(f)
    BY <1>0, <1>1, <2>6 DEF Headed, HostSet
  <2>7. CASE Prompted(f)
    <3>1. /\ host'.win = host.win /\ host'.macFailures = host.macFailures /\ host'.tokenLive = host.tokenLive
          /\ hist'.tried = hist.tried
      BY <1>0, <2>7 DEF Prompted, HostSet, HistSet
    <3> QED
      BY <3>1 DEF TokenInv
  <2> HIDE DEF f
  <2>8. \/ Dropped
        \/ Failed \/ Struck(f) \/ Refused(f) \/ Accepted(f) \/ Headed(f) \/ Prompted(f)
    BY <1>6, HostReadEffect DEF f
  <2> QED
    BY <2>1, <2>2, <2>3, <2>4, <2>5, <2>6, <2>7, <2>8
<1>7. CASE UNCHANGED vars
  BY <1>1, <1>7 DEF vars
<1> QED
  BY <1>2, <1>3, <1>4, <1>5, <1>6, <1>7 DEF Next, DeviceNext

\* A token is never tried with more than MacStrikes wrong MACs, however many
\* devices, windows and stale QRs there are.
THEOREM StrikesBounded == Spec => []WrongMacsBounded
<1>1. Init => TokenInv
  BY Limits DEF Init, TokenInv
<1>2. TokenInv => WrongMacsBounded
  BY DEF TokenInv, WrongMacsBounded
<1> QED
  BY <1>1, <1>2, CeremonyTypeCorrect, NextToken, PTL DEF Spec

-----------------------------------------------------------------------------
(* Who is recorded *)

\* The frames a device may have sent: its own, for the window it was admitted to,
\* the pair.init made with the token it scanned.
UpSet ==
  {f \in FrameSet :
     /\ f.keys[1] \in Attempt
     /\ LET d == dev[f.keys[1]]
        IN  /\ d.pc # "idle" /\ f.win = d.win
            /\ \/ f.kind = "pair.init" /\ f.body = d.token
               \/ f.kind = "sess.header"
               \/ f.kind = "pair.identity" /\ f.seq = 1}

UpInv == relay.toHost \in Seq(UpSet) /\ \A a \in Attempt : relay.fromDev[a] \in Seq(UpSet)

\* A pairing in flight belongs to a device that scanned the QR of the window it
\* attached to, and its token is spent.  At the prompt that window is the host's.
PairingInv ==
  /\ \A a \in Attempt : dev[a].pc # "idle" => dev[a].token \in 1..host.win
  /\ host.prompting => host.pairing.step = 3
  /\ host.pairing.step # 0 =>
       LET a == host.pairing.keys[1]
       IN  /\ a \in Attempt /\ dev[a].pc # "idle" /\ dev[a].win = dev[a].token
           /\ dev[a].win = host.win => ~host.tokenLive
           /\ host.prompting => dev[a].win = host.win /\ hist.shown = a /\ host.pairing.tracker.last = 1

\* A window recorded nobody, or one device that scanned its QR, and then neither
\* its token nor a pairing of the window is left.
RecordedInv ==
  /\ \A w \in Window :
       \/ hist.recorded[w] = {}
       \/ \E a \in Attempt : hist.recorded[w] = {<<a, a>>} /\ dev[a].pc # "idle" /\ dev[a].token = w
  /\ \A w \in Window : w > host.win => hist.recorded[w] = {}
  /\ host.win \in Window /\ hist.recorded[host.win] # {} =>
       /\ ~host.tokenLive
       /\ host.pairing.step # 0 => dev[host.pairing.keys[1]].win # host.win

ConsentInv == UpInv /\ PairingInv /\ RecordedInv

LEMMA SeqMono == ASSUME NEW S, NEW T, S \subseteq T, NEW q \in Seq(S) PROVE q \in Seq(T)
OBVIOUS

LEMMA SeqJoin == ASSUME NEW S, NEW p \in Seq(S), NEW q \in Seq(S) PROVE p \o q \in Seq(S)
OBVIOUS

\* What an attach settled stays settled.
LEMMA StaysSettled ==
  ASSUME TypeOK, [Next]_vars, NEW a \in Attempt, dev[a].pc # "idle"
  PROVE  dev'[a].pc # "idle" /\ dev'[a].token = dev[a].token /\ dev'[a].win = dev[a].win
<1>1. CASE UNCHANGED dev
  BY <1>1
<1>2. ASSUME NEW b \in Attempt, DeviceNext(b)
      PROVE  dev'[a].pc # "idle" /\ dev'[a].token = dev[a].token /\ dev'[a].win = dev[a].win
  BY <1>2, DeviceEffect DEF Settled
<1> QED
  BY <1>1, <1>2 DEF Next, DeviceNext, vars, ExpireWindow, PostWindow, OpenPairingWindow, HostRead,
    OperatorAccepts, OperatorDeclines, CloseWindow

LEMMA UpGrows == ASSUME TypeOK, [Next]_vars PROVE UpSet \subseteq UpSet'
<1> SUFFICES ASSUME NEW f \in UpSet PROVE f \in UpSet'
  OBVIOUS
<1>1. f.keys[1] \in Attempt /\ dev[f.keys[1]].pc # "idle"
  BY DEF UpSet
<1>2. LET a == f.keys[1] IN dev'[a].pc # "idle" /\ dev'[a].token = dev[a].token /\ dev'[a].win = dev[a].win
  BY <1>1, StaysSettled
<1> QED
  BY <1>1, <1>2 DEF UpSet

LEMMA NextUp == ASSUME TypeOK, UpInv, [Next]_vars PROVE UpInv'
<1> DEFINE U == UpSet'
<1>1. relay.toHost \in Seq(U) /\ \A a \in Attempt : relay.fromDev[a] \in Seq(U)
  <2>1. UpSet \subseteq U
    BY UpGrows
  <2> HIDE DEF U
  <2> QED
    BY <2>1, SeqMono DEF UpInv
<1>2. relay.fromDev \in [Attempt -> Seq(FrameSet)] /\ dev \in [Attempt -> DevSet]
  BY DEF TypeOK, RelaySet
<1>3. SUFFICES relay'.toHost \in Seq(U) /\ \A a \in Attempt : relay'.fromDev[a] \in Seq(U)
  BY DEF UpInv
<1> HIDE DEF U
<1>4. CASE relay'.toHost = relay.toHost /\ relay'.fromDev = relay.fromDev
  BY <1>1, <1>4
<1>5. CASE HostRead
  <2>1. relay.toHost # <<>> /\ relay'.toHost = Tail(relay.toHost) /\ relay'.fromDev = relay.fromDev
    BY <1>5, HostReadEffect
  <2> QED
    BY <1>1, <2>1
<1>6. CASE OperatorAccepts \/ OperatorDeclines
  <2>1. CASE OperatorDeclines
    <3> DEFINE f == Frame("pair.denied", 1, host.win, host.pairing.keys, 0)
    <3>1. relay' = hostFrame(relay, f) /\ host \in HostSet /\ relay \in RelaySet
      BY <2>1, SendEncryptedEffect DEF OperatorDeclines, TypeOK
    <3>2. f \in FrameSet
      BY <3>1, Limits DEF Frame, FrameSet, Kind, HostSet, PairingSet
    <3> HIDE DEF f
    <3> QED
      BY <1>4, <3>1, <3>2, HostFrameEffect
  <2> QED
    BY <1>4, <1>6, <2>1, OperatorAcceptsEffect DEF Registered
<1>7. ASSUME NEW a \in Attempt, DeviceFrame(a) \/ DeviceDetach(a)
      PROVE  relay'.toHost \in Seq(U) /\ \A b \in Attempt : relay'.fromDev[b] \in Seq(U)
  <2>1. CASE DeviceFrame(a)
    <3>1. /\ relay.fromDev[a] # <<>>
          /\ relay'.fromDev = [relay.fromDev EXCEPT ![a] = Tail(@)]
          /\ relay'.toHost \in {relay.toHost, Append(relay.toHost, Head(relay.fromDev[a]))}
      BY <2>1, DeviceFrameEffect
    <3>2. Head(relay.fromDev[a]) \in U /\ Tail(relay.fromDev[a]) \in Seq(U)
      BY <1>1, <3>1
    <3>3. relay'.toHost \in Seq(U)
      <4> DEFINE x == Head(relay.fromDev[a])
                 q == relay.toHost
      <4>1. x \in U /\ q \in Seq(U) /\ relay'.toHost \in {q, Append(q, x)}
        BY <1>1, <3>1, <3>2
      <4> HIDE DEF x, q
      <4>2. Append(q, x) \in Seq(U)
        BY <4>1
      <4> QED
        BY <4>1, <4>2
    <3>4. \A b \in Attempt : relay'.fromDev[b] = IF b = a THEN Tail(relay.fromDev[a]) ELSE relay.fromDev[b]
      BY <1>2, <3>1
    <3> QED
      BY <1>1, <3>2, <3>3, <3>4
  <2>2. CASE DeviceDetach(a)
    <3>1. relay'.toHost = relay.toHost /\ relay'.fromDev = [relay.fromDev EXCEPT ![a] = <<>>]
      BY <2>2, DeviceDetachEffect
    <3>2. \A b \in Attempt : relay'.fromDev[b] = IF b = a THEN <<>> ELSE relay.fromDev[b]
      BY <1>2, <3>1
    <3>3. <<>> \in Seq(U)
      OBVIOUS
    <3> QED
      BY <1>1, <3>1, <3>2, <3>3
  <2> QED
    BY <1>7, <2>1, <2>2
<1>8. ASSUME NEW a \in Attempt, PairInsert(a)
      PROVE  relay'.toHost \in Seq(U) /\ \A b \in Attempt : relay'.fromDev[b] \in Seq(U)
  <2>1. /\ relay'.toHost = relay.toHost
        /\ relay'.fromDev = [relay.fromDev EXCEPT ![a] = <<InitFrame(a)>>]
        /\ dev' = [dev EXCEPT ![a].pc = "init"]
    BY <1>8, PairInsertEffect
  <2>2. dev'[a].pc = "init" /\ dev'[a].win = dev[a].win /\ dev'[a].token = dev[a].token
    BY <1>2, <2>1 DEF DevSet
  <2>3. /\ InitFrame(a) \in FrameSet /\ InitFrame(a).kind = "pair.init" /\ InitFrame(a).body = dev[a].token
        /\ InitFrame(a).keys = <<a, 0>> /\ InitFrame(a).win = dev[a].win
    BY DeviceFrames
  <2>4. InitFrame(a) \in U
    BY <2>2, <2>3 DEF U, UpSet
  <2> QED
    BY <1>1, <1>2, <2>1, <2>4
<1>9. ASSUME NEW a \in Attempt, PairReadAccept(a)
      PROVE  relay'.toHost \in Seq(U) /\ \A b \in Attempt : relay'.fromDev[b] \in Seq(U)
  <2>1. relay'.toHost = relay.toHost
    BY <1>9, PairReadAcceptEffect
  <2>2. CASE relay'.fromDev = relay.fromDev
    BY <1>1, <2>1, <2>2
  <2>3. ASSUME NEW n \in Nat, dev' = [dev EXCEPT ![a] = [@ EXCEPT !.pc = "identity", !.keys = <<a, n>>]],
               relay'.fromDev = [relay.fromDev EXCEPT ![a] = @ \o <<HeaderFrame(a, n), IdentityFrame(a, n)>>]
        PROVE  relay'.toHost \in Seq(U) /\ \A b \in Attempt : relay'.fromDev[b] \in Seq(U)
    <3>1. dev'[a].pc = "identity" /\ dev'[a].win = dev[a].win
      BY <1>2, <2>3 DEF DevSet
    <3>2. /\ HeaderFrame(a, n) \in FrameSet /\ HeaderFrame(a, n).kind = "sess.header"
          /\ HeaderFrame(a, n).keys = <<a, n>> /\ HeaderFrame(a, n).win = dev[a].win
          /\ IdentityFrame(a, n) \in FrameSet /\ IdentityFrame(a, n).kind = "pair.identity"
          /\ IdentityFrame(a, n).seq = 1
          /\ IdentityFrame(a, n).keys = <<a, n>> /\ IdentityFrame(a, n).win = dev[a].win
      BY DeviceFrames
    <3>3. HeaderFrame(a, n) \in U /\ IdentityFrame(a, n) \in U
      BY <3>1, <3>2 DEF U, UpSet
    <3>4. relay.fromDev[a] \o <<HeaderFrame(a, n), IdentityFrame(a, n)>> \in Seq(U)
      <4> DEFINE q == <<HeaderFrame(a, n), IdentityFrame(a, n)>>
                 p == relay.fromDev[a]
      <4>1. q \in Seq(U) /\ p \in Seq(U)
        BY <1>1, <3>3
      <4> HIDE DEF q, p
      <4>2. p \o q \in Seq(U)
        BY <4>1, SeqJoin, SMTT(30)
      <4> QED
        BY <4>2 DEF q, p
    <3> QED
      BY <1>1, <1>2, <2>1, <2>3, <3>4
  <2> QED
    BY <1>9, <2>2, <2>3, PairReadAcceptEffect
<1>10. ASSUME NEW a \in Attempt, PairAttach(a) \/ PairReadComplete(a) \/ PairClosed(a) \/ PairGivesUp(a)
       PROVE  relay'.toHost = relay.toHost /\ relay'.fromDev = relay.fromDev
  BY <1>10, PairAttachEffect, PairEndEffect
<1>11. CASE ExpireWindow \/ PostWindow \/ \E w \in Window : CloseWindow(w)
  BY <1>4, <1>11, WindowEffect DEF FramesKept
<1>12. CASE OpenPairingWindow \/ UNCHANGED vars
  BY <1>4, <1>12 DEF OpenPairingWindow, vars
<1> QED
  BY <1>4, <1>5, <1>6, <1>7, <1>8, <1>9, <1>10, <1>11, <1>12 DEF Next

LEMMA NextPairing == ASSUME TypeOK, ConsentInv, [Next]_vars PROVE PairingInv'
<1>0. /\ host \in HostSet /\ hist \in HistSet /\ host.win \in 0..MaxWindow /\ host.posted \in 0..MaxWindow
      /\ dev \in [Attempt -> DevSet] /\ PairingInv /\ UpInv /\ host.pairing \in PairingSet
  BY DEF TypeOK, HostSet, ConsentInv
<1>1. CASE /\ host'.win = host.win /\ (host'.tokenLive => host.tokenLive)
           /\ host'.pairing = NoPairing /\ ~host'.prompting /\ UNCHANGED dev
  BY <1>0, <1>1 DEF PairingInv, NoPairing
<1>2. CASE /\ host'.win = host.win /\ host'.tokenLive = host.tokenLive
           /\ host'.pairing = host.pairing /\ host'.prompting = host.prompting /\ UNCHANGED <<dev, hist>>
  BY <1>0, <1>2 DEF PairingInv
<1>3. ASSUME NEW a \in Attempt, DeviceNext(a) PROVE PairingInv'
  <2>1. /\ UNCHANGED <<host, hist>>
        /\ \A b \in Attempt \ {a} : dev'[b] = dev[b]
        /\ \/ Settled(a)
           \/ dev[a].pc = "idle" /\ dev'[a].pc # "idle" /\ dev'[a].token \in 1..host.win
    BY <1>3, DeviceEffect
  <2>2. \A b \in Attempt : dev[b].pc # "idle" =>
          dev'[b].pc # "idle" /\ dev'[b].token = dev[b].token /\ dev'[b].win = dev[b].win
    BY <2>1 DEF Settled
  <2>3. \A b \in Attempt : dev'[b].pc # "idle" => dev'[b].token \in 1..host.win
    BY <1>0, <2>1 DEF Settled, PairingInv
  <2> QED
    BY <1>0, <2>1, <2>2, <2>3 DEF PairingInv
<1>4. CASE ExpireWindow \/ PostWindow \/ \E w \in Window : CloseWindow(w)
  BY <1>2, <1>4, WindowEffect DEF HostKept
<1>5. CASE OpenPairingWindow
  <2>1. /\ host'.win = host.posted /\ host'.pairing = host.pairing /\ host'.prompting = host.prompting
        /\ ~host.prompting /\ UNCHANGED <<dev, hist>> /\ host.posted # host.win
    BY <1>0, <1>5 DEF OpenPairingWindow, HostSet
  <2>2. host.posted > host.win
    BY <1>0, <2>1, Limits DEF TypeOK
  <2>3. \A a \in Attempt : dev[a].pc # "idle" =>
          dev[a].token \in 1..host.posted /\ (dev[a].win = dev[a].token => dev[a].win # host.posted)
    BY <1>0, <2>2, Limits DEF PairingInv
  <2> QED
    BY <1>0, <2>1, <2>3 DEF PairingInv
<1>6. CASE OperatorAccepts \/ OperatorDeclines
  <2>1. CASE OperatorDeclines
    BY <1>0, <1>1, <2>1 DEF OperatorDeclines, HostSet
  <2>2. CASE host' = [host EXCEPT !.prompting = FALSE, !.pairing = NoPairing] /\ UNCHANGED dev
    BY <1>0, <1>1, <2>2 DEF HostSet
  <2>3. CASE Registered /\ UNCHANGED dev
    BY <1>0, <1>1, <2>3 DEF Registered, HostSet
  <2> QED
    BY <1>6, <2>1, <2>2, <2>3, OperatorAcceptsEffect
<1>7. CASE HostRead
  <2> DEFINE f == Head(relay.toHost)
  <2>1. ~host.prompting /\ UNCHANGED dev /\ relay.toHost # <<>>
    BY <1>7, HostReadEffect
  <2>2. \/ Dropped
        \/ /\ f.win = host.win
           /\ Failed \/ Struck(f) \/ Refused(f) \/ Accepted(f) \/ Headed(f) \/ Prompted(f)
    BY <1>7, HostReadEffect
  <2>3. f \in UpSet
    BY <1>0, <2>1 DEF UpInv
  <2> HIDE DEF f
  <2>4. CASE Dropped
    BY <1>2, <2>1, <2>4 DEF Dropped
  <2>5. CASE Failed
    BY <1>0, <1>1, <2>1, <2>5 DEF Failed, HostSet
  <2>6. CASE Struck(f)
    BY <1>0, <1>1, <2>1, <2>6 DEF Struck, Strike, HostSet
  <2>7. CASE Refused(f)
    BY <1>0, <1>1, <2>1, <2>7 DEF Refused, consumeToken, HostSet
  <2>8. CASE f.win = host.win /\ Accepted(f)
    <3>1. /\ host'.win = host.win /\ ~host'.tokenLive /\ ~host'.prompting
          /\ host'.pairing = [NoPairing EXCEPT !.keys = <<f.keys[1], host.nonce + 1>>, !.step = 2]
      BY <1>0, <2>1, <2>8 DEF Accepted, consumeToken, HostSet
    <3>2. host'.pairing.keys[1] = f.keys[1] /\ host'.pairing.step = 2
      BY <3>1 DEF NoPairing
    <3>3. f.keys[1] \in Attempt /\ dev[f.keys[1]].pc # "idle" /\ f.win = dev[f.keys[1]].win /\ f.body = dev[f.keys[1]].token
      BY <2>3, <2>8 DEF UpSet, Accepted
    <3>4. f.body = f.win
      BY <2>8 DEF Accepted
    <3> QED
      BY <1>0, <2>1, <3>1, <3>2, <3>3, <3>4 DEF PairingInv
  <2>9. CASE Headed(f)
    <3>1. /\ host'.win = host.win /\ host'.tokenLive = host.tokenLive /\ ~host'.prompting
          /\ host'.pairing = [host.pairing EXCEPT !.pull = f.keys, !.step = 3] /\ hist' = hist
          /\ host.pairing.step = 2
      BY <1>0, <2>1, <2>9 DEF Headed, HostSet
    <3>2. host'.pairing.keys = host.pairing.keys
      BY <1>0, <3>1 DEF PairingSet
    <3> QED
      BY <1>0, <2>1, <3>1, <3>2 DEF PairingInv
  <2>10. CASE f.win = host.win /\ Prompted(f)
    <3>1. /\ host'.win = host.win /\ host'.tokenLive = host.tokenLive
          /\ host'.pairing = [host.pairing EXCEPT !.tracker = Accept(host.pairing.tracker, f.seq)]
          /\ host.pairing.step = 3 /\ f.keys = host.pairing.keys
          /\ f.kind \notin {"pair.init", "sess.header"}
      BY <1>0, <2>10 DEF Prompted, HostSet
    <3>2. hist'.shown = f.keys[1]
      BY <1>0, <2>10 DEF Prompted, HistSet
    <3>3. /\ host'.pairing.keys = host.pairing.keys /\ host'.pairing.step = 3
          /\ host'.pairing.tracker = Accept(host.pairing.tracker, f.seq)
      BY <1>0, <3>1 DEF PairingSet
    <3>4. f.seq = 1 /\ f.win = dev[f.keys[1]].win
      BY <2>3, <3>1 DEF UpSet
    <3>5. host'.pairing.tracker.last = 1
      BY <3>3, <3>4 DEF Accept
    <3> QED
      BY <1>0, <2>1, <2>10, <3>1, <3>2, <3>3, <3>4, <3>5 DEF PairingInv
  <2> QED
    BY <2>2, <2>4, <2>5, <2>6, <2>7, <2>8, <2>9, <2>10
<1>8. CASE UNCHANGED vars
  BY <1>2, <1>8 DEF vars
<1> QED
  BY <1>3, <1>4, <1>5, <1>6, <1>7, <1>8 DEF Next, DeviceNext

LEMMA NextRecorded == ASSUME TypeOK, ConsentInv, [Next]_vars PROVE RecordedInv'
<1>0. /\ host \in HostSet /\ hist \in HistSet /\ host.win \in 0..MaxWindow /\ host.posted \in 0..MaxWindow
      /\ dev \in [Attempt -> DevSet] /\ PairingInv /\ RecordedInv /\ UpInv /\ host.pairing \in PairingSet
      /\ hist.recorded \in [Window -> SUBSET (AnyAttempt \X AnyAttempt)]
  BY DEF TypeOK, HostSet, HistSet, ConsentInv
<1>1. CASE /\ host'.win = host.win /\ (host'.tokenLive => host.tokenLive)
           /\ host'.pairing.step # 0 => host.pairing.step # 0 /\ host'.pairing.keys = host.pairing.keys
           /\ hist'.recorded = hist.recorded /\ UNCHANGED dev
  BY <1>0, <1>1 DEF RecordedInv
<1>2. NoPairing.step = 0
  BY DEF NoPairing
<1>3. ASSUME NEW a \in Attempt, DeviceNext(a) PROVE RecordedInv'
  <2>1. UNCHANGED <<host, hist>>
    BY <1>3, DeviceEffect
  <2>2. \A b \in Attempt : dev[b].pc # "idle" =>
          dev'[b].pc # "idle" /\ dev'[b].token = dev[b].token /\ dev'[b].win = dev[b].win
    BY <1>3, DeviceEffect DEF Settled
  <2>3. host.pairing.step # 0 =>
          host.pairing.keys[1] \in Attempt /\ dev[host.pairing.keys[1]].pc # "idle"
    BY <1>0 DEF PairingInv
  <2> QED
    BY <1>0, <2>1, <2>2, <2>3 DEF RecordedInv
<1>4. CASE ExpireWindow \/ PostWindow \/ \E w \in Window : CloseWindow(w)
  BY <1>1, <1>4, WindowEffect DEF HostKept
<1>5. CASE OpenPairingWindow
  <2>1. /\ host'.win = host.posted /\ UNCHANGED <<dev, hist>> /\ host.posted # host.win
    BY <1>0, <1>5 DEF OpenPairingWindow, HostSet
  <2>2. host.posted > host.win /\ host.posted \in Window
    BY <1>0, <2>1, Limits DEF TypeOK, Window
  <2>3. \A w \in Window : w > host.posted => w > host.win
    BY <1>0, <2>2, Limits DEF Window
  <2>4. hist.recorded[host.posted] = {}
    BY <1>0, <2>2 DEF RecordedInv
  <2> QED
    BY <1>0, <2>1, <2>2, <2>3, <2>4 DEF RecordedInv
<1>6. CASE OperatorAccepts \/ OperatorDeclines
  <2>1. CASE OperatorDeclines
    BY <1>0, <1>1, <1>2, <2>1 DEF OperatorDeclines, HostSet
  <2>2. CASE host' = [host EXCEPT !.prompting = FALSE, !.pairing = NoPairing] /\ UNCHANGED <<dev, hist>>
    BY <1>0, <1>1, <1>2, <2>2 DEF HostSet
  <2>3. CASE Registered /\ host.prompting /\ UNCHANGED dev
    <3> DEFINE a == host.pairing.keys[1]
    <3>1. /\ host'.win = host.win /\ host'.tokenLive = host.tokenLive /\ host'.pairing = NoPairing
      BY <1>0, <2>3 DEF Registered, HostSet
    <3>2. hist'.recorded = [hist.recorded EXCEPT ![host.win] = @ \cup {<<a, hist.shown>>}]
      BY <1>0, <2>3 DEF Registered, HistSet
    <3>3. /\ host.pairing.step = 3 /\ a \in Attempt /\ dev[a].pc # "idle"
          /\ dev[a].token = host.win /\ dev[a].win = host.win /\ ~host.tokenLive
          /\ hist.shown = a /\ host.win \in 1..host.win
      BY <1>0, <2>3 DEF PairingInv
    <3>4. host.win \in Window
      BY <1>0, <3>3, Limits DEF Window
    <3>5. hist.recorded[host.win] = {}
      BY <1>0, <3>3, <3>4 DEF RecordedInv
    <3> HIDE DEF a
    <3>6. /\ hist'.recorded[host.win] = {<<a, a>>}
          /\ \A w \in Window : w # host.win => hist'.recorded[w] = hist.recorded[w]
      BY <1>0, <3>2, <3>3, <3>4, <3>5
    <3>7. \A w \in Window : w > host.win => w # host.win
      BY <1>0, Limits DEF Window
    <3>8. UNCHANGED dev
      BY <2>3
    <3>9. \A w \in Window :
            \/ hist'.recorded[w] = {}
            \/ \E b \in Attempt : hist'.recorded[w] = {<<b, b>>} /\ dev'[b].pc # "idle" /\ dev'[b].token = w
      <4> SUFFICES ASSUME NEW w \in Window
                   PROVE  \/ hist'.recorded[w] = {}
                          \/ \E b \in Attempt : hist'.recorded[w] = {<<b, b>>} /\ dev'[b].pc # "idle" /\ dev'[b].token = w
        OBVIOUS
      <4>1. CASE w = host.win
        BY <3>3, <3>6, <3>8, <4>1
      <4>2. CASE w # host.win
        BY <1>0, <3>6, <3>8, <4>2 DEF RecordedInv
      <4> QED
        BY <4>1, <4>2
    <3>10. \A w \in Window : w > host.win => hist'.recorded[w] = {}
      BY <1>0, <3>6, <3>7 DEF RecordedInv
    <3> QED
      BY <1>2, <3>1, <3>3, <3>9, <3>10 DEF RecordedInv
  <2> QED
    BY <1>6, <2>1, <2>2, <2>3, OperatorAcceptsEffect
<1>7. CASE HostRead
  <2> DEFINE f == Head(relay.toHost)
  <2>1. ~host.prompting /\ UNCHANGED dev
    BY <1>7, HostReadEffect
  <2>2. \/ Dropped
        \/ Failed \/ Struck(f) \/ Refused(f) \/ Accepted(f) \/ Headed(f) \/ Prompted(f)
    BY <1>7, HostReadEffect
  <2> HIDE DEF f
  <2>4. CASE Dropped
    BY <1>1, <2>1, <2>4 DEF Dropped
  <2>5. CASE Failed
    BY <1>0, <1>1, <1>2, <2>1, <2>5 DEF Failed, HostSet
  <2>6. CASE Struck(f)
    BY <1>0, <1>1, <1>2, <2>1, <2>6 DEF Struck, Strike, HostSet, HistSet
  <2>7. CASE Refused(f)
    BY <1>0, <1>1, <1>2, <2>1, <2>7 DEF Refused, consumeToken, HostSet
  <2>8. CASE Accepted(f)
    <3>1. host'.win = host.win /\ ~host'.tokenLive /\ host.tokenLive /\ hist' = hist
      BY <1>0, <2>8 DEF Accepted, consumeToken, HostSet
    <3>2. ~(host.win \in Window /\ hist.recorded[host.win] # {})
      BY <1>0, <3>1 DEF RecordedInv
    <3> QED
      BY <1>0, <2>1, <3>1, <3>2 DEF RecordedInv
  <2>9. CASE Headed(f)
    <3>1. /\ host'.win = host.win /\ host'.tokenLive = host.tokenLive
          /\ host'.pairing = [host.pairing EXCEPT !.pull = f.keys, !.step = 3] /\ hist' = hist
          /\ host.pairing.step = 2
      BY <1>0, <2>9 DEF Headed, HostSet
    <3>2. host'.pairing.keys = host.pairing.keys /\ host'.pairing.step = 3
      BY <1>0, <3>1 DEF PairingSet
    <3> QED
      BY <1>1, <2>1, <3>1, <3>2
  <2>10. CASE Prompted(f)
    <3>1. /\ host'.win = host.win /\ host'.tokenLive = host.tokenLive
          /\ host'.pairing = [host.pairing EXCEPT !.tracker = Accept(host.pairing.tracker, f.seq)]
          /\ host.pairing.step = 3 /\ hist'.recorded = hist.recorded
      BY <1>0, <2>10 DEF Prompted, HostSet, HistSet
    <3>2. host'.pairing.keys = host.pairing.keys /\ host'.pairing.step = 3
      BY <1>0, <3>1 DEF PairingSet
    <3> QED
      BY <1>1, <2>1, <3>1, <3>2
  <2> QED
    BY <2>2, <2>4, <2>5, <2>6, <2>7, <2>8, <2>9, <2>10
<1>8. CASE UNCHANGED vars
  BY <1>1, <1>8 DEF vars
<1> QED
  BY <1>3, <1>4, <1>5, <1>6, <1>7, <1>8 DEF Next, DeviceNext

LEMMA ConsentInvariant == Spec => []ConsentInv
<1>1. Init => ConsentInv
  <2> SUFFICES ASSUME Init PROVE ConsentInv
    OBVIOUS
  <2>1. UpInv
    BY DEF Init, UpInv
  <2>2. PairingInv
    BY DEF Init, PairingInv, NoPairing
  <2>3. RecordedInv
    BY DEF Init, RecordedInv
  <2> QED
    BY <2>1, <2>2, <2>3 DEF ConsentInv
<1>2. TypeOK /\ ConsentInv /\ [Next]_vars => ConsentInv'
  BY NextUp, NextPairing, NextRecorded DEF ConsentInv
<1> QED
  BY <1>1, <1>2, CeremonyTypeCorrect, PTL DEF Spec

\* A token is spent by the first device it records: no interleaving of windows,
\* attaches and late frames makes it record a second one.
THEOREM TokenRecordsOnce == Spec => []OneDevicePerToken
<1>1. ConsentInv => OneDevicePerToken
  <2> SUFFICES ASSUME ConsentInv, NEW w \in Window PROVE Cardinality(hist.recorded[w]) <= 1
    BY DEF OneDevicePerToken
  <2>1. CASE hist.recorded[w] = {}
    BY <2>1, FS_EmptySet
  <2>2. ASSUME NEW a \in Attempt, hist.recorded[w] = {<<a, a>>} PROVE Cardinality(hist.recorded[w]) <= 1
    <3> DEFINE x == <<a, a>>
    <3>1. hist.recorded[w] = {x}
      BY <2>2
    <3> HIDE DEF x
    <3> QED
      BY <3>1, FS_Singleton
  <2> QED
    BY <2>1, <2>2 DEF ConsentInv, RecordedInv
<1> QED
  BY <1>1, ConsentInvariant, PTL

\* The device that is recorded is the one the operator saw, and it holds the QR of
\* the window that recorded it.
THEOREM RecordedAsShown == Spec => []ConsentNamesDevice
<1>1. ConsentInv => ConsentNamesDevice
  BY DEF ConsentInv, RecordedInv, ConsentNamesDevice
<1> QED
  BY <1>1, ConsentInvariant, PTL

-----------------------------------------------------------------------------
(* What the two sides keep *)

\* Channels are numbered in the order they were registered.
ChannelsInv ==
  /\ \A c \in relay.channels : c[1] \in 1..Cardinality(relay.channels)
  /\ host.device.channel \in 0..Cardinality(relay.channels)

\* The relay registered the channel for a; if the host's record is of that channel
\* it is a's, at the counters a pairing ends with.
Agreed(a, ch) ==
  /\ <<ch, a>> \in relay.channels
  /\ host.device.channel = ch => host.device = [id |-> a, channel |-> ch, h2dSent |-> 1, d2h |-> 1]

DownSet == {f \in FrameSet : f.kind = "pair.complete" => f.seq = 1 /\ Agreed(f.keys[1], f.body)}

\* Strengthening of PairedAgrees: every pair.complete under way was agreed for the
\* device whose keys seal it, and a device that waits for one holds keys of its own.
AgreedInv ==
  \A a \in Attempt :
    /\ relay.toDev[a] \in Seq(DownSet)
    /\ dev[a].pc = "identity" => dev[a].keys[1] = a
    /\ dev[a].pc = "paired" =>
         dev[a].state.D2HLastSent = 1 /\ dev[a].state.H2DLastSeen = 1 /\ Agreed(a, dev[a].state.channel)

\* The frames of a step that registers nobody.
Replies(a) ==
  \/ relay'.toDev[a] \in {relay.toDev[a], <<>>}
  \/ relay.toDev[a] # <<>> /\ relay'.toDev[a] = Tail(relay.toDev[a])
  \/ \E g \in FrameSet : g.kind # "pair.complete" /\ relay'.toDev[a] = Append(relay.toDev[a], g)

LEMMA OtherSteps ==
  ASSUME TypeOK, [Next]_vars
  PROVE  \/ OperatorAccepts /\ Registered
         \/ host'.device = host.device /\ relay'.channels = relay.channels /\ \A a \in Attempt : Replies(a)
<1>0. host \in HostSet /\ relay \in RelaySet /\ relay.toDev \in [Attempt -> Seq(FrameSet)]
  BY DEF TypeOK, RelaySet
<1> DEFINE Quiet == host'.device = host.device /\ relay'.channels = relay.channels /\ \A a \in Attempt : Replies(a)
<1>1. CASE host'.device = host.device /\ relay'.channels = relay.channels /\ relay'.toDev = relay.toDev
  BY <1>1 DEF Replies
<1>2. CASE HostRead
  <2> DEFINE f == Head(relay.toHost)
  <2>1. /\ relay'.channels = relay.channels
        /\ \A a \in Attempt : \/ relay'.toDev[a] = relay.toDev[a]
                              \/ \E g \in FrameSet : g.kind # "pair.complete" /\ relay'.toDev[a] = Append(relay.toDev[a], g)
        /\ Dropped \/ Failed \/ Struck(f) \/ Refused(f) \/ Accepted(f) \/ Headed(f) \/ Prompted(f)
    BY <1>2, HostReadEffect
  <2> HIDE DEF f
  <2>2. host'.device = host.device
    BY <1>0, <2>1 DEF Dropped, Failed, Struck, Refused, Accepted, Headed, Prompted, Strike, consumeToken, HostSet
  <2> QED
    BY <2>1, <2>2 DEF Replies
<1>3. CASE OperatorDeclines
  <2> DEFINE f == Frame("pair.denied", 1, host.win, host.pairing.keys, 0)
  <2>1. relay' = hostFrame(relay, f) /\ host'.device = host.device
    BY <1>0, <1>3, SendEncryptedEffect DEF OperatorDeclines, HostSet
  <2>2. f \in FrameSet /\ f.kind # "pair.complete"
    BY <1>0, Limits DEF Frame, FrameSet, Kind, HostSet, PairingSet
  <2> HIDE DEF f
  <2>3. relay'.channels = relay.channels /\ \A a \in Attempt : relay'.toDev[a] \in {relay.toDev[a], Append(relay.toDev[a], f)}
    BY <1>0, <2>1, <2>2, HostFrameEffect
  <2> QED
    BY <2>1, <2>2, <2>3 DEF Replies
<1>4. CASE OperatorAccepts
  <2>1. CASE host' = [host EXCEPT !.prompting = FALSE, !.pairing = NoPairing] /\ UNCHANGED relay
    BY <1>0, <1>1, <2>1 DEF HostSet
  <2> QED
    BY <1>4, <2>1, OperatorAcceptsEffect
<1>5. CASE ExpireWindow \/ PostWindow \/ \E w \in Window : CloseWindow(w)
  BY <1>1, <1>5, WindowEffect DEF HostKept, FramesKept
<1>6. CASE OpenPairingWindow \/ UNCHANGED vars
  BY <1>0, <1>1, <1>6 DEF OpenPairingWindow, vars, HostSet
<1>7. ASSUME NEW a \in Attempt, DeviceNext(a) PROVE Quiet
  <2>1. UNCHANGED host /\ relay'.channels = relay.channels
    BY <1>7, DeviceEffect DEF WindowsKept
  <2>2. CASE relay'.toDev = relay.toDev
    BY <2>1, <2>2 DEF Replies
  <2>3. CASE relay'.toDev = [relay.toDev EXCEPT ![a] = <<>>]
    <3>1. \A b \in Attempt : relay'.toDev[b] = IF b = a THEN <<>> ELSE relay.toDev[b]
      BY <1>0, <2>3
    <3> QED
      BY <2>1, <3>1 DEF Replies
  <2>4. CASE relay.toDev[a] # <<>> /\ relay'.toDev = [relay.toDev EXCEPT ![a] = Tail(@)]
    <3>1. \A b \in Attempt : relay'.toDev[b] = IF b = a THEN Tail(relay.toDev[a]) ELSE relay.toDev[b]
      BY <1>0, <2>4
    <3> QED
      BY <2>1, <2>4, <3>1 DEF Replies
  <2>5. CASE DeviceFrame(a) \/ DeviceDetach(a) \/ PairAttach(a) \/ PairInsert(a)
    BY <2>2, <2>5, DeviceFrameEffect, DeviceDetachEffect, PairAttachEffect, PairInsertEffect
  <2>6. CASE PairReadAccept(a)
    <3>1. \/ relay.toDev[a] # <<>> /\ relay'.toDev = [relay.toDev EXCEPT ![a] = Tail(@)]
          \/ relay'.toDev = [relay.toDev EXCEPT ![a] = <<>>]
      BY <2>6, PairReadAcceptEffect, ZenonT(30)
    <3> QED
      BY <2>3, <2>4, <3>1
  <2>7. CASE PairReadComplete(a) \/ PairClosed(a) \/ PairGivesUp(a)
    BY <2>3, <2>7, PairEndEffect
  <2> QED
    BY <1>7, <2>5, <2>6, <2>7 DEF DeviceNext
<1> QED
  BY <1>2, <1>3, <1>4, <1>5, <1>6, <1>7 DEF Next, DeviceNext

\* A registration takes a number nobody has.
LEMMA RegisteredChannel ==
  ASSUME TypeOK, ChannelsInv, Registered
  PROVE  /\ relay'.channels = relay.channels \cup {<<NewChannel, host.pairing.keys[1]>>}
         /\ Cardinality(relay.channels) \in Nat /\ NewChannel = Cardinality(relay.channels) + 1
         /\ Cardinality(relay'.channels) = NewChannel
         /\ host'.device = [id |-> host.pairing.keys[1], channel |-> NewChannel, h2dSent |-> 1,
                            d2h |-> host.pairing.tracker.last]
<1> DEFINE N == Cardinality(relay.channels)
           x == <<NewChannel, host.pairing.keys[1]>>
<1>1. relay'.channels = relay.channels \cup {x} /\ IsFiniteSet(relay.channels) /\ N \in Nat
  BY FS_CardinalityType DEF Registered, TypeOK
<1>2. x \notin relay.channels
  <2>1. NewChannel \notin 1..N
    BY <1>1 DEF NewChannel
  <2>2. x[1] = NewChannel
    OBVIOUS
  <2> HIDE DEF x
  <2> QED
    BY <2>1, <2>2 DEF ChannelsInv
<1>3. Cardinality(relay.channels \cup {x}) = N + 1
  <2> HIDE DEF x
  <2> QED
    BY <1>1, <1>2, FS_AddElement
<1>4. host'.device = [id |-> host.pairing.keys[1], channel |-> NewChannel, h2dSent |-> 1,
                      d2h |-> host.pairing.tracker.last]
  BY DEF Registered, TypeOK, HostSet
<1> QED
  BY <1>1, <1>3, <1>4 DEF NewChannel

LEMMA NextChannels == ASSUME TypeOK, ChannelsInv, [Next]_vars PROVE ChannelsInv'
<1>1. CASE host'.device = host.device /\ relay'.channels = relay.channels
  BY <1>1 DEF ChannelsInv
<1>2. CASE Registered
  <2> DEFINE N == Cardinality(relay.channels)
             x == <<NewChannel, host.pairing.keys[1]>>
  <2>1. /\ relay'.channels = relay.channels \cup {x} /\ N \in Nat /\ NewChannel = N + 1
        /\ Cardinality(relay'.channels) = NewChannel /\ host'.device.channel = NewChannel
    BY <1>2, RegisteredChannel
  <2>2. x[1] = NewChannel
    OBVIOUS
  <2>3. \A c \in relay.channels : c[1] \in 1..N
    BY DEF ChannelsInv
  <2> HIDE DEF x, N, NewChannel
  <2>4. \A c \in relay'.channels : c[1] \in 1..(N + 1)
    BY <2>1, <2>2, <2>3
  <2> QED
    BY <2>1, <2>4 DEF ChannelsInv
<1> QED
  BY <1>1, <1>2, OtherSteps

LEMMA StaysAgreed ==
  ASSUME TypeOK, ChannelsInv, [Next]_vars, NEW a, NEW ch, Agreed(a, ch)
  PROVE  Agreed(a, ch)'
<1>1. CASE host'.device = host.device /\ relay'.channels = relay.channels
  BY <1>1 DEF Agreed
<1>2. CASE Registered
  <2> DEFINE N == Cardinality(relay.channels)
  <2>1. /\ relay.channels \subseteq relay'.channels /\ N \in Nat /\ NewChannel = N + 1
        /\ host'.device.channel = NewChannel
    BY <1>2, RegisteredChannel
  <2>2. ch \in 1..N
    <3> DEFINE x == <<ch, a>>
    <3>1. x \in relay.channels /\ x[1] = ch
      BY DEF Agreed
    <3> HIDE DEF x
    <3> QED
      BY <3>1 DEF ChannelsInv
  <2> HIDE DEF N, NewChannel
  <2>3. host'.device.channel # ch
    BY <2>1, <2>2
  <2> QED
    BY <2>1, <2>3 DEF Agreed
<1> QED
  BY <1>1, <1>2, OtherSteps

LEMMA NextDown ==
  ASSUME TypeOK, ConsentInv, ChannelsInv, AgreedInv, [Next]_vars, NEW a \in Attempt
  PROVE  relay'.toDev[a] \in Seq(DownSet')
<1> DEFINE D == DownSet'
           q == relay.toDev[a]
<1>0. SUFFICES relay'.toDev[a] \in Seq(D)
  OBVIOUS
<1>1. DownSet \subseteq D
  BY StaysAgreed DEF DownSet
<1> HIDE DEF D
<1>2. q \in Seq(D)
  BY <1>1, SeqMono DEF AgreedInv
<1>3. ASSUME NEW g \in D PROVE Append(q, g) \in Seq(D)
  <2> HIDE DEF q
  <2> QED
    BY <1>2, <1>3
<1>4. CASE Replies(a)
  <2>1. CASE relay'.toDev[a] \in {q, <<>>}
    <3>1. <<>> \in Seq(D)
      OBVIOUS
    <3> QED
      BY <1>2, <2>1, <3>1
  <2>2. CASE q # <<>> /\ relay'.toDev[a] = Tail(q)
    <3> HIDE DEF q
    <3> QED
      BY <1>2, <2>2
  <2>3. ASSUME NEW g \in FrameSet, g.kind # "pair.complete", relay'.toDev[a] = Append(q, g)
        PROVE  relay'.toDev[a] \in Seq(D)
    <3>1. g \in D
      BY <2>3 DEF D, DownSet
    <3> QED
      BY <1>3, <2>3, <3>1
  <2> QED
    BY <1>4, <2>1, <2>2, <2>3 DEF Replies
<1>5. CASE OperatorAccepts /\ Registered
  <2> DEFINE b == host.pairing.keys[1]
  <2>1. PICK f \in FrameSet :
          /\ f.kind = "pair.complete" /\ f.seq = 1 /\ f.keys = host.pairing.keys /\ f.body = NewChannel
          /\ \A c \in Attempt : relay'.toDev[c] \in {relay.toDev[c], Append(relay.toDev[c], f)}
    BY <1>5 DEF Registered
  <2>2. /\ relay'.channels = relay.channels \cup {<<NewChannel, b>>}
        /\ host'.device = [id |-> b, channel |-> NewChannel, h2dSent |-> 1, d2h |-> host.pairing.tracker.last]
    BY <1>5, RegisteredChannel
  <2>3. host.pairing.tracker.last = 1
    BY <1>5 DEF OperatorAccepts, ConsentInv, PairingInv
  <2>4. f \in D
    <3> HIDE DEF NewChannel
    <3> QED
      BY <2>1, <2>2, <2>3 DEF D, DownSet, Agreed
  <2> QED
    BY <1>2, <1>3, <2>1, <2>4
<1> QED
  BY <1>4, <1>5, OtherSteps

LEMMA NextAgreed == ASSUME TypeOK, ConsentInv, ChannelsInv, AgreedInv, [Next]_vars PROVE AgreedInv'
<1> DEFINE Holds(a) ==
      /\ dev[a].pc = "identity" => dev[a].keys[1] = a
      /\ dev[a].pc = "paired" =>
           dev[a].state.D2HLastSent = 1 /\ dev[a].state.H2DLastSeen = 1 /\ Agreed(a, dev[a].state.channel)
<1> dev \in [Attempt -> DevSet]
  BY DEF TypeOK
<1>0. \A a \in Attempt : Holds(a)
  BY DEF AgreedInv
<1>1. ASSUME NEW a \in Attempt, dev'[a] = dev[a] PROVE Holds(a)'
  <2>1. dev[a].pc = "paired" => Agreed(a, dev[a].state.channel)
    BY <1>0
  <2>2. ASSUME NEW ch, Agreed(a, ch) PROVE Agreed(a, ch)'
    BY <2>2, StaysAgreed
  <2>3. dev[a].pc = "paired" => <<dev[a].state.channel, a>> \in relay'.channels
          /\ (host'.device.channel = dev[a].state.channel =>
                host'.device = [id |-> a, channel |-> dev[a].state.channel, h2dSent |-> 1, d2h |-> 1])
    BY <2>1, <2>2 DEF Agreed
  <2> QED
    BY <1>0, <1>1, <2>3 DEF Agreed
<1>2. ASSUME NEW a \in Attempt, dev'[a].pc \notin {"identity", "paired"} PROVE Holds(a)'
  BY <1>2
<1>3. ASSUME NEW a \in Attempt, PairReadAccept(a) PROVE Holds(a)'
  <2>1. ASSUME NEW n \in Nat, dev' = [dev EXCEPT ![a] = [@ EXCEPT !.pc = "identity", !.keys = <<a, n>>]]
        PROVE  Holds(a)'
    <3>1. dev'[a].pc = "identity" /\ dev'[a].keys = <<a, n>>
      BY <1>0, <2>1 DEF DevSet
    <3> QED
      BY <3>1
  <2>2. CASE dev' = [dev EXCEPT ![a].pc = "failed"]
    <3>1. dev'[a].pc = "failed"
      BY <2>2 DEF DevSet
    <3> QED
      BY <1>2, <3>1
  <2> QED
    BY <1>3, <2>1, <2>2, PairReadAcceptEffect, ZenonT(30)
<1>4. ASSUME NEW a \in Attempt, PairReadComplete(a) \/ PairClosed(a) \/ PairGivesUp(a) PROVE Holds(a)'
  <2> DEFINE f == Head(relay.toDev[a])
  <2>1. CASE dev' = [dev EXCEPT ![a].pc = "failed"]
    <3>1. dev'[a].pc = "failed"
      BY <2>1 DEF DevSet
    <3> QED
      BY <1>2, <3>1
  <2>2. CASE /\ dev[a].pc = "identity" /\ relay.toDev[a] # <<>>
             /\ f.kind = "pair.complete" /\ f.keys = dev[a].keys
             /\ dev' = [dev EXCEPT ![a] = [@ EXCEPT !.pc = "paired",
                         !.state = [channel |-> f.body, D2HLastSent |-> 1, H2DLastSeen |-> f.seq]]]
    <3>1. f \in DownSet
      BY <2>2 DEF AgreedInv
    <3>2. f.keys[1] = a
      BY <1>0, <2>2
    <3>3. f.seq = 1 /\ Agreed(a, f.body)
      BY <2>2, <3>1, <3>2 DEF DownSet
    <3>4. dev'[a].pc = "paired" /\ dev'[a].state = [channel |-> f.body, D2HLastSent |-> 1, H2DLastSeen |-> f.seq]
      BY <1>0, <2>2 DEF DevSet
    <3> HIDE DEF f
    <3>5. ASSUME NEW ch, Agreed(a, ch) PROVE Agreed(a, ch)'
      BY <3>5, StaysAgreed
    <3>6. /\ <<f.body, a>> \in relay'.channels
          /\ host'.device.channel = f.body =>
               host'.device = [id |-> a, channel |-> f.body, h2dSent |-> 1, d2h |-> 1]
      BY <3>3, <3>5 DEF Agreed
    <3> QED
      BY <3>3, <3>4, <3>6 DEF Agreed
  <2> QED
    BY <1>4, <2>1, <2>2, PairEndEffect
<1>5. ASSUME NEW a \in Attempt, DeviceNext(a) PROVE \A b \in Attempt : Holds(b)'
  <2>1. \A b \in Attempt \ {a} : dev'[b] = dev[b]
    BY <1>5, DeviceEffect
  <2>2. Holds(a)'
    <3>1. CASE DeviceFrame(a) \/ DeviceDetach(a)
      BY <1>1, <3>1, DeviceFrameEffect, DeviceDetachEffect
    <3>2. CASE PairAttach(a)
      <4>1. dev'[a].pc = "admitted"
        BY <3>2 DEF PairAttach, DevSet
      <4> QED
        BY <1>2, <4>1
    <3>3. CASE PairInsert(a)
      <4>1. dev'[a].pc = "init"
        BY <3>3 DEF PairInsert, DevSet
      <4> QED
        BY <1>2, <4>1
    <3> QED
      BY <1>3, <1>4, <1>5, <3>1, <3>2, <3>3 DEF DeviceNext
  <2> HIDE DEF Holds
  <2> QED
    BY <1>1, <2>1, <2>2
<1>6. ASSUME UNCHANGED dev PROVE \A b \in Attempt : Holds(b)'
  <2> HIDE DEF Holds
  <2> QED
    BY <1>1, <1>6
<1>7. \A a \in Attempt : Holds(a)'
  <2> HIDE DEF Holds
  <2> QED
    BY <1>5, <1>6 DEF Next, DeviceNext, vars, ExpireWindow, PostWindow, OpenPairingWindow, HostRead,
      OperatorAccepts, OperatorDeclines, CloseWindow
<1> QED
  BY <1>7, NextDown DEF AgreedInv

\* A device that keeps a State and the host that recorded it agree on the channel
\* and the counters, although every attach of the window hears every host frame.
THEOREM PairedSidesAgree == Spec => []PairedAgrees
<1>1. Init => ChannelsInv /\ AgreedInv
  <2> SUFFICES ASSUME Init PROVE ChannelsInv /\ AgreedInv
    OBVIOUS
  <2>1. ChannelsInv
    BY FS_EmptySet DEF Init, ChannelsInv, NoDevice
  <2>2. AgreedInv
    BY DEF Init, AgreedInv
  <2> QED
    BY <2>1, <2>2
<1>2. AgreedInv => PairedAgrees
  BY DEF AgreedInv, PairedAgrees, Agreed
<1>3. TypeOK /\ ConsentInv /\ ChannelsInv /\ AgreedInv /\ [Next]_vars => (ChannelsInv /\ AgreedInv)'
  BY NextChannels, NextAgreed
<1> QED
  BY <1>1, <1>2, <1>3, CeremonyTypeCorrect, ConsentInvariant, PTL DEF Spec
=============================================================================
