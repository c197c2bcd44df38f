---------------------------- MODULE RouterProofs ----------------------------
(***************************************************************************)
(* Proofs about Router, for every set of channels, hosts, devices and      *)
(* connections and every limit.  Each safety theorem has a lemma NextX: its*)
(* invariant is kept by every step; the variables it does not read are set *)
(* aside first by a lemma XSteps.                                          *)
(***************************************************************************)
EXTENDS Router, SequenceTheorems, TLAPS

-----------------------------------------------------------------------------
(* Type correctness *)

\* The values of unused locals.
LEMMA Defaults ==
  /\ NoFrame \in Frame
  /\ NoSnap \in [ch : Channel, val : Presence]
<1>1. NoFrame \in Frame
  <2>1. PICK c \in Channel : TRUE
    BY RouterAssumption
  <2>2. [seq |-> 1, ch |-> c, push |-> "none", big |-> FALSE] \in Frame
    BY RouterAssumption DEF Frame, PushClass
  <2> QED
    BY <2>2 DEF NoFrame
<1>2. NoSnap \in [ch : Channel, val : Presence]
  BY RouterAssumption DEF NoSnap, Presence
<1> QED
  BY <1>1, <1>2

LEMMA InitType == Init => TypeOK
<1> SUFFICES ASSUME Init PROVE TypeOK
  OBVIOUS
<1>1. StoreType
  BY RouterAssumption DEF Init, StoreType, Presence
<1>2. HostType
  BY Defaults, RouterAssumption DEF Init, HostType, HostPc, Presence
<1>3. DevType
  BY RouterAssumption DEF Init, DevType, DevPc, Presence
<1>4. TableType /\ RestType /\ GhostType
  BY RouterAssumption DEF Init, TableType, RestType, GhostType, Fate
<1> QED
  BY <1>1, <1>2, <1>3, <1>4 DEF TypeOK

\* A part none of whose variables changes keeps its type.
LEMMA TypeSame ==
  /\ StoreType /\ UNCHANGED storeVars => StoreType'
  /\ TableType /\ UNCHANGED tableVars => TableType'
  /\ HostType /\ UNCHANGED hostVars => HostType'
  /\ DevType /\ UNCHANGED devVars => DevType'
  /\ RestType /\ UNCHANGED restVars => RestType'
  /\ GhostType /\ UNCHANGED ghostVars => GhostType'
<1>1. StoreType /\ UNCHANGED storeVars => StoreType'
  BY DEF StoreType, storeVars
<1>2. TableType /\ UNCHANGED tableVars => TableType'
  BY DEF TableType, tableVars
<1>3. HostType /\ UNCHANGED hostVars => HostType'
  BY DEF HostType, hostVars
<1>4. DevType /\ UNCHANGED devVars => DevType'
  BY DEF DevType, devVars
<1>5. RestType /\ UNCHANGED restVars => RestType'
  BY DEF RestType, restVars
<1>6. GhostType /\ UNCHANGED ghostVars => GhostType'
  BY DEF GhostType, noteVars, ghostVars, noteVars
<1> QED
  BY <1>1, <1>2, <1>3, <1>4, <1>5, <1>6

\* The two notes on device presence keep their type when the rest of the observers stand.
LEMMA NoteType ==
  ASSUME GhostType, UNCHANGED <<sent, fate, pushed, seen, raced>>,
         overlapped' \subseteq Channel, overtaken' \subseteq HostConn \X Channel
  PROVE  GhostType'
BY DEF GhostType

LEMMA NextType == TypeOK /\ [Next]_vars => TypeOK'
<1> SUFFICES ASSUME TypeOK, [Next]_vars PROVE TypeOK'
  OBVIOUS
<1>1. ASSUME NEW id \in PairingId, NEW c \in Channel, NEW h \in Host, NEW d \in Device, CreatePairing(id, c, h, d) PROVE TypeOK'
  <2>1. StoreType'
    BY <1>1 DEF CreatePairing, TypeOK, StoreType, GhostType, Presence, Pairing
  <2>2. GhostType'
    BY <1>1 DEF CreatePairing, TypeOK, StoreType, GhostType, noteVars, Fate
  <2>3. UNCHANGED <<tableVars, hostVars, devVars, restVars>>
    BY <1>1 DEF CreatePairing
  <2> QED
    BY <2>1, <2>2, <2>3, TypeSame DEF TypeOK
<1>2. ASSUME NEW x \in DelReq, DeleteLookup(x) PROVE TypeOK'
  <2>1. RestType'
    BY <1>2 DEF DeleteLookup, TypeOK, StoreType, RestType
  <2>2. UNCHANGED <<storeVars, tableVars, hostVars, devVars, ghostVars>>
    BY <1>2 DEF DeleteLookup
  <2> QED
    BY <2>1, <2>2, TypeSame DEF TypeOK
<1>3. ASSUME NEW x \in DelReq, DeletePairing(x) PROVE TypeOK'
  <2>1. StoreType'
    <3>1. CASE xpair[x] \notin pairings
      BY <1>3, <3>1 DEF DeletePairing, TypeOK, StoreType
    <3>2. CASE xpair[x] \in pairings
      <4> DEFINE p == xpair[x]
      <4>1. p.ch \in Channel /\ pairings' \subseteq Pairing /\ apns' \subseteq Device
        BY <1>3, <3>2 DEF DeletePairing, TypeOK, StoreType, Pairing
      <4>2. /\ byChannel' \in [Channel -> PairingId \cup {NoId}]
            /\ devPres' \in [Channel -> Presence]
            /\ usedIds' \subseteq PairingId
        BY <1>3, <3>2, <4>1 DEF DeletePairing, TypeOK, StoreType, Presence
      <4>3. mailbox' = [mailbox EXCEPT ![p.ch] = <<>>]
        BY <1>3, <3>2 DEF DeletePairing
      <4>4. mailbox' \in [Channel -> Seq(Frame)]
        BY <4>1, <4>3 DEF TypeOK, StoreType
      <4>5. \A c \in Channel : Len(mailbox'[c]) <= MailboxMaxFrames
        BY <4>1, <4>3, RouterAssumption DEF TypeOK, StoreType
      <4> QED
        BY <4>1, <4>2, <4>4, <4>5 DEF StoreType
    <3> QED
      BY <3>1, <3>2
  <2>2. RestType'
    BY <1>3 DEF DeletePairing, TypeOK, StoreType, RestType
  <2>3. UNCHANGED <<tableVars, hostVars, devVars>>
    BY <1>3 DEF DeletePairing
  <2>4. GhostType'
    <3>1. UNCHANGED <<sent, fate, pushed, seen, raced, overtaken>>
      BY <1>3 DEF DeletePairing
    <3>2. overlapped' \subseteq overlapped \cup {xpair[x].ch} /\ xpair[x].ch \in Channel
      BY <1>3 DEF DeletePairing, Overlap, TypeOK, RestType, Pairing
    <3> QED
      BY <3>1, <3>2, NoteType DEF TypeOK, GhostType
  <2> QED
    BY <2>1, <2>2, <2>3, <2>4, TypeSame DEF TypeOK
<1>4. ASSUME NEW x \in DelReq, DeleteTakeConns(x) PROVE TypeOK'
  <2>1. TableType'
    BY <1>4 DEF DeleteTakeConns, TypeOK, TableType, RestType, GhostType
  <2>2. RestType'
    BY <1>4 DEF DeleteTakeConns, TypeOK, TableType, RestType, GhostType, Pairing
  <2>3. GhostType'
    BY <1>4 DEF DeleteTakeConns, TypeOK, TableType, RestType, GhostType, noteVars, Fate, Forwarding
  <2>4. UNCHANGED <<storeVars, hostVars, devVars>>
    BY <1>4 DEF DeleteTakeConns
  <2> QED
    BY <2>1, <2>2, <2>3, <2>4, TypeSame DEF TypeOK
<1>5. ASSUME NEW x \in DelReq, DeleteCloseConns(x) PROVE TypeOK'
  <2>1. DevType'
    BY <1>5 DEF DeleteCloseConns, TypeOK, DevType, RestType, DevPc, Presence
  <2>2. RestType'
    BY <1>5 DEF DeleteCloseConns, TypeOK, DevType, RestType
  <2>3. UNCHANGED <<storeVars, tableVars, hostVars, ghostVars>>
    BY <1>5 DEF DeleteCloseConns
  <2> QED
    BY <2>1, <2>2, <2>3, TypeSame DEF TypeOK
<1>6. ASSUME NEW d \in TokenDevice, RegisterCheckOwner(d) PROVE TypeOK'
  <2>1. RestType'
    BY <1>6, RouterAssumption DEF RegisterCheckOwner, TypeOK, StoreType, RestType
  <2>2. UNCHANGED <<storeVars, tableVars, hostVars, devVars, ghostVars>>
    BY <1>6 DEF RegisterCheckOwner
  <2> QED
    BY <2>1, <2>2, TypeSame DEF TypeOK
<1>7. ASSUME NEW d \in TokenDevice, RegisterPutToken(d) PROVE TypeOK'
  <2>1. StoreType'
    BY <1>7 DEF RegisterPutToken, TypeOK, StoreType, RestType, Presence
  <2>2. RestType'
    BY <1>7 DEF RegisterPutToken, TypeOK, StoreType, RestType
  <2>3. UNCHANGED <<tableVars, hostVars, devVars, ghostVars>>
    BY <1>7 DEF RegisterPutToken
  <2> QED
    BY <2>1, <2>2, <2>3, TypeSame DEF TypeOK
<1>8. ASSUME NEW hc \in HostConn, NEW h \in Host, HostAttach(hc, h) PROVE TypeOK'
  <2>1. TableType'
    BY <1>8 DEF HostAttach, TypeOK, StoreType, TableType, HostType, HostGoto
  <2>2. HostType'
    BY <1>8 DEF HostAttach, TypeOK, StoreType, TableType, HostType, HostGoto, HostPc, Presence
  <2>3. UNCHANGED <<storeVars, devVars, restVars, ghostVars>>
    BY <1>8 DEF HostAttach
  <2> QED
    BY <2>1, <2>2, <2>3, TypeSame DEF TypeOK
<1>9. ASSUME NEW hc \in HostConn, HostListPairings(hc) PROVE TypeOK'
  <2>1. HostType'
    BY <1>9 DEF HostListPairings, TypeOK, StoreType, HostType, HostGoto, HostPc, Presence, Pairing
  <2>2. UNCHANGED <<storeVars, tableVars, devVars, restVars, ghostVars>>
    BY <1>9 DEF HostListPairings
  <2> QED
    BY <2>1, <2>2, TypeSame DEF TypeOK
<1>10. ASSUME NEW hc \in HostConn, NEW c \in Channel, HostSnapLookup(hc, c) PROVE TypeOK'
  <2>1. HostType'
    BY <1>10 DEF HostSnapLookup, TypeOK, StoreType, HostType, HostGoto, HostPc, Presence
  <2>2. UNCHANGED <<storeVars, tableVars, devVars, restVars, ghostVars>>
    BY <1>10 DEF HostSnapLookup
  <2> QED
    BY <2>1, <2>2, TypeSame DEF TypeOK
<1>11. ASSUME NEW hc \in HostConn, HostSnapSend(hc) PROVE TypeOK'
  <2>1. HostType'
    BY <1>11, Defaults DEF HostSnapSend, TypeOK, HostType, HostGoto, HostPc, Presence
  <2>2. UNCHANGED <<storeVars, tableVars, devVars, restVars, ghostVars>>
    BY <1>11 DEF HostSnapSend
  <2> QED
    BY <2>1, <2>2, TypeSame DEF TypeOK
<1>12. ASSUME NEW hc \in HostConn, NEW c \in Channel, NEW push \in PushClass,
             NEW big \in BOOLEAN, HostRead(hc, c, push, big)
      PROVE  TypeOK'
  <2>1. HostType'
    BY <1>12, RouterAssumption DEF HostRead, TypeOK, HostType, GhostType, HostGoto, HostPc,
       Presence, Frame
  <2>2. GhostType'
    BY <1>12, RouterAssumption DEF HostRead, TypeOK, HostType, GhostType, noteVars, HostGoto, Fate,
       LiveIds, StoreType, Pairing
  <2>3. UNCHANGED <<storeVars, tableVars, devVars, restVars>>
    BY <1>12 DEF HostRead
  <2> QED
    BY <2>1, <2>2, <2>3, TypeSame DEF TypeOK
<1>13. ASSUME NEW hc \in HostConn, HostLookup(hc) PROVE TypeOK'
  <2>1. HostType'
    <3>1. CASE HostReturn(hc)
      BY <1>13, <3>1, Defaults DEF HostLookup, TypeOK, HostType, HostReturn, HostGoto, HostPc
    <3>2. CASE /\ \E p \in pairings : hpair' = [hpair EXCEPT ![hc] = p]
               /\ HostGoto(hc, "check")
               /\ UNCHANGED hframe
      <4>1. PICK p \in pairings : hpair' = [hpair EXCEPT ![hc] = p]
        BY <3>2
      <4>2. p \in Pairing
        BY DEF TypeOK, StoreType
      <4>3. UNCHANGED <<hhost, snapTodo, snap, told>>
        BY <1>13 DEF HostLookup
      <4> QED
        BY <3>2, <4>1, <4>2, <4>3 DEF TypeOK, HostType, HostGoto, HostPc
    <3> QED
      BY <1>13, <3>1, <3>2 DEF HostLookup, PairingByChannel
  <2>2. GhostType'
    BY <1>13 DEF HostLookup, TypeOK, HostType, GhostType, noteVars, HostReturn, HostGoto,
       PairingByChannel, Fate
  <2>3. UNCHANGED <<storeVars, tableVars, devVars, restVars>>
    BY <1>13 DEF HostLookup
  <2> QED
    BY <2>1, <2>2, <2>3, TypeSame DEF TypeOK
<1>14. ASSUME NEW hc \in HostConn, HostCheckAttached(hc) PROVE TypeOK'
  <2>1. HostType'
    BY <1>14 DEF HostCheckAttached, TypeOK, HostType, GhostType, HostGoto, HostPc, Presence
  <2>2. UNCHANGED <<storeVars, tableVars, devVars, restVars, ghostVars>>
    BY <1>14 DEF HostCheckAttached, ghostVars
  <2> QED
    BY <2>1, <2>2, TypeSame DEF TypeOK
<1>15. ASSUME NEW hc \in HostConn, HostForward(hc) PROVE TypeOK'
  <2>1. HostType'
    BY <1>15, Defaults DEF HostForward, TypeOK, HostType, GhostType, HostReturn, HostGoto,
       HostPc, Presence
  <2>2. GhostType'
    BY <1>15 DEF HostForward, TypeOK, HostType, GhostType, noteVars, HostReturn, HostGoto, Fate
  <2>3. UNCHANGED <<storeVars, tableVars, devVars, restVars>>
    BY <1>15 DEF HostForward
  <2> QED
    BY <2>1, <2>2, <2>3, TypeSame DEF TypeOK
<1>16. ASSUME NEW hc \in HostConn, HostAppendMailbox(hc) PROVE TypeOK'
  <2>1. StoreType'
    <3> DEFINE c   == hframe[hc].ch
               all == Append(mailbox[c], hframe[hc])
               new == IF hframe[hc].big THEN <<>>
                      ELSE IF Len(all) > MailboxMaxFrames THEN Tail(all) ELSE all
    <3>1. c \in Channel /\ hframe[hc] \in Frame /\ mailbox[c] \in Seq(Frame)
      BY DEF TypeOK, StoreType, HostType, Frame
    <3>2. all \in Seq(Frame) /\ all # <<>> /\ Len(all) = Len(mailbox[c]) + 1
      BY <3>1, AppendProperties
    <3>3. Tail(all) \in Seq(Frame) /\ Len(Tail(all)) = Len(all) - 1
      BY <3>2, HeadTailProperties
    <3>4. Len(mailbox[c]) \in Nat /\ Len(mailbox[c]) <= MailboxMaxFrames
      BY <3>1, LenProperties DEF TypeOK, StoreType
    <3>5. new \in Seq(Frame) /\ Len(new) <= MailboxMaxFrames
      <4>1. <<>> \in Seq(Frame) /\ Len(<<>>) = 0
        BY EmptySeq
      <4> QED
        BY <3>2, <3>3, <3>4, <4>1, RouterAssumption
    <3> HIDE DEF new
    <3>6. mailbox' = [mailbox EXCEPT ![c] = new] /\ UNCHANGED <<pairings, byChannel, usedIds, devPres, apns>>
      BY <1>16 DEF HostAppendMailbox, new
    <3> QED
      BY <3>1, <3>5, <3>6 DEF TypeOK, StoreType
  <2>2. HostType'
    BY <1>16 DEF HostAppendMailbox, TypeOK, StoreType, HostType, GhostType, HostGoto, HostPc,
       Presence
  <2>3. GhostType'
    BY <1>16 DEF HostAppendMailbox, TypeOK, StoreType, HostType, GhostType, noteVars, HostGoto, Fate
  <2>4. UNCHANGED <<tableVars, devVars, restVars>>
    BY <1>16 DEF HostAppendMailbox
  <2> QED
    BY <2>1, <2>2, <2>3, <2>4, TypeSame DEF TypeOK
<1>17. ASSUME NEW hc \in HostConn, HostMaybePush(hc) PROVE TypeOK'
  <2>1. HostType'
    BY <1>17, Defaults DEF HostMaybePush, TypeOK, StoreType, HostType, GhostType, HostReturn,
       HostGoto, HostPc, Presence
  <2>2. GhostType'
    BY <1>17 DEF HostMaybePush, TypeOK, StoreType, HostType, GhostType, noteVars, HostReturn, HostGoto,
       Fate, Frame
  <2>3. UNCHANGED <<storeVars, tableVars, devVars, restVars>>
    BY <1>17 DEF HostMaybePush
  <2> QED
    BY <2>1, <2>2, <2>3, TypeSame DEF TypeOK
<1>18. ASSUME NEW hc \in HostConn, HostEnd(hc) PROVE TypeOK'
  <2>1. HostType'
    BY <1>18 DEF HostEnd, TypeOK, HostType, HostGoto, HostPc, Presence
  <2>2. UNCHANGED <<storeVars, tableVars, devVars, restVars, ghostVars>>
    BY <1>18 DEF HostEnd
  <2> QED
    BY <2>1, <2>2, TypeSame DEF TypeOK
<1>19. ASSUME NEW hc \in HostConn, HostCleanup(hc) PROVE TypeOK'
  <2>1. TableType'
    BY <1>19 DEF HostCleanup, TypeOK, TableType, HostType, HostGoto
  <2>2. HostType'
    BY <1>19 DEF HostCleanup, TypeOK, TableType, HostType, HostGoto, HostPc, Presence
  <2>3. UNCHANGED <<storeVars, devVars, restVars>>
    BY <1>19 DEF HostCleanup
  <2>4. GhostType'
    BY <1>19, NoteType DEF HostCleanup, TypeOK, GhostType
  <2> QED
    BY <2>1, <2>2, <2>3, <2>4, TypeSame DEF TypeOK
<1>20. ASSUME NEW dc \in DevConn, NEW c \in Channel, DevAuthorize(dc, c) PROVE TypeOK'
  <2>1. DevType'
    BY <1>20 DEF DevAuthorize, TypeOK, DevType, RestType, DevGoto, PairingByChannel, DevPc, Presence
  <2>2. UNCHANGED <<storeVars, tableVars, hostVars, restVars, ghostVars>>
    BY <1>20 DEF DevAuthorize
  <2> QED
    BY <2>1, <2>2, TypeSame DEF TypeOK
<1>21. ASSUME NEW dc \in DevConn, DevCheckCap(dc) PROVE TypeOK'
  <2>1. DevType'
    BY <1>21 DEF DevCheckCap, TypeOK, DevType, DevGoto, DevPc, Presence
  <2>2. UNCHANGED <<storeVars, tableVars, hostVars, restVars, ghostVars>>
    BY <1>21 DEF DevCheckCap
  <2> QED
    BY <2>1, <2>2, TypeSame DEF TypeOK
<1>22. ASSUME NEW dc \in DevConn, DevUpgradeFails(dc) PROVE TypeOK'
  <2>1. DevType'
    BY <1>22 DEF DevUpgradeFails, TypeOK, DevType, DevGoto, DevPc, Presence
  <2>2. UNCHANGED <<storeVars, tableVars, hostVars, restVars, ghostVars>>
    BY <1>22 DEF DevUpgradeFails
  <2> QED
    BY <2>1, <2>2, TypeSame DEF TypeOK
<1>23. ASSUME NEW dc \in DevConn, DevInsert(dc) PROVE TypeOK'
  <2>1. TableType'
    BY <1>23 DEF DevInsert, TypeOK, TableType, DevType, DevGoto
  <2>2. DevType'
    BY <1>23 DEF DevInsert, TypeOK, TableType, DevType, DevGoto, DevPc, Presence
  <2>3. UNCHANGED <<storeVars, hostVars, restVars>>
    BY <1>23 DEF DevInsert
  <2>4. GhostType'
    BY <1>23, NoteType DEF DevInsert, Overlap, TypeOK, GhostType, DevType
  <2> QED
    BY <2>1, <2>2, <2>3, <2>4, TypeSame DEF TypeOK
<1>24. ASSUME NEW dc \in DevConn, SetLookup(dc) PROVE TypeOK'
  <2>1. DevType'
    BY <1>24 DEF SetLookup, TypeOK, StoreType, DevType, DevGoto, DevPc, Presence
  <2>2. UNCHANGED <<storeVars, tableVars, hostVars, restVars, ghostVars>>
    BY <1>24 DEF SetLookup
  <2> QED
    BY <2>1, <2>2, TypeSame DEF TypeOK
<1>25. ASSUME NEW dc \in DevConn, SetPut(dc) PROVE TypeOK'
  <2>1. StoreType'
    BY <1>25 DEF SetPut, TypeOK, StoreType, DevType, DevGoto, AfterSet, Presence
  <2>2. DevType'
    BY <1>25 DEF SetPut, TypeOK, StoreType, DevType, DevGoto, AfterSet, DevPc, Presence
  <2>3. UNCHANGED <<tableVars, hostVars, restVars, ghostVars>>
    BY <1>25 DEF SetPut
  <2> QED
    BY <2>1, <2>2, <2>3, TypeSame DEF TypeOK
<1>26. ASSUME NEW dc \in DevConn, SetPairing(dc) PROVE TypeOK'
  <2>1. DevType'
    <3>1. CASE DevGoto(dc, AfterSet(dc)) /\ UNCHANGED dpair
      BY <1>26, <3>1 DEF SetPairing, TypeOK, DevType, DevGoto, AfterSet, DevPc
    <3>2. CASE /\ \E p \in pairings : dpair' = [dpair EXCEPT ![dc] = p]
               /\ DevGoto(dc, "setPublish")
      <4>1. PICK p \in pairings : dpair' = [dpair EXCEPT ![dc] = p]
        BY <3>2
      <4>2. p \in Pairing
        BY DEF TypeOK, StoreType
      <4>3. UNCHANGED <<dch, dgoal, dold, closed>>
        BY <1>26 DEF SetPairing
      <4> QED
        BY <3>2, <4>1, <4>2, <4>3 DEF TypeOK, DevType, DevGoto, DevPc
    <3> QED
      BY <1>26, <3>1, <3>2 DEF SetPairing, PairingByChannel
  <2>2. UNCHANGED <<storeVars, tableVars, hostVars, restVars>>
    BY <1>26 DEF SetPairing
  <2>3. GhostType'
    BY <1>26, NoteType DEF SetPairing, TypeOK, GhostType, DevType
  <2> QED
    BY <2>1, <2>2, <2>3, TypeSame DEF TypeOK
<1>27. ASSUME NEW dc \in DevConn, SetPublish(dc) PROVE TypeOK'
  <2>1. HostType'
    BY <1>27 DEF SetPublish, TypeOK, TableType, HostType, DevType, DevGoto, AfterSet, HostPc,
       Presence
  <2>2. DevType'
    BY <1>27 DEF SetPublish, TypeOK, TableType, HostType, DevType, DevGoto, AfterSet, DevPc,
       Presence
  <2>3. UNCHANGED <<storeVars, tableVars, restVars>>
    BY <1>27 DEF SetPublish
  <2>4. GhostType'
    <3>1. dpair[dc].host \in Host /\ dch[dc] \in Channel
      BY <1>27 DEF SetPublish, TypeOK, DevType, Pairing
    <3>2. hostConns[dpair[dc].host] \subseteq HostConn
      BY <3>1 DEF TypeOK, TableType
    <3>3. overtaken' \subseteq overtaken \cup (hostConns[dpair[dc].host] \X {dch[dc]})
      BY <1>27 DEF SetPublish
    <3>4. overlapped' \subseteq overlapped /\ UNCHANGED <<sent, fate, pushed, seen, raced>>
      BY <1>27 DEF SetPublish
    <3> QED
      BY <3>1, <3>2, <3>3, <3>4, NoteType DEF TypeOK, GhostType
  <2> QED
    BY <2>1, <2>2, <2>3, <2>4, TypeSame DEF TypeOK
<1>28. ASSUME NEW dc \in DevConn, DevRead(dc) PROVE TypeOK'
  <2>1. DevType'
    BY <1>28 DEF DevRead, TypeOK, DevType, GhostType, DevGoto, DevPc, Presence
  <2>2. GhostType'
    BY <1>28 DEF DevRead, TypeOK, DevType, GhostType, noteVars, DevGoto, Fate, LiveIds, StoreType, Pairing
  <2>3. UNCHANGED <<storeVars, tableVars, hostVars, restVars>>
    BY <1>28 DEF DevRead
  <2> QED
    BY <2>1, <2>2, <2>3, TypeSame DEF TypeOK
<1>29. ASSUME NEW dc \in DevConn, DevLookup(dc) PROVE TypeOK'
  <2>1. DevType'
    <3>1. CASE closed' = closed \cup {dc} /\ DevGoto(dc, "cleanup") /\ UNCHANGED dpair
      BY <1>29, <3>1 DEF DevLookup, TypeOK, DevType, DevGoto, DevPc
    <3>2. CASE /\ \E p \in pairings : dpair' = [dpair EXCEPT ![dc] = p]
               /\ DevGoto(dc, "forward")
               /\ UNCHANGED closed
      <4>1. PICK p \in pairings : dpair' = [dpair EXCEPT ![dc] = p]
        BY <3>2
      <4>2. p \in Pairing
        BY DEF TypeOK, StoreType
      <4>3. UNCHANGED <<dch, dgoal, dold>>
        BY <1>29 DEF DevLookup
      <4> QED
        BY <3>2, <4>1, <4>2, <4>3 DEF TypeOK, DevType, DevGoto, DevPc
    <3> QED
      BY <1>29, <3>1, <3>2 DEF DevLookup, PairingByChannel
  <2>2. GhostType'
    BY <1>29 DEF DevLookup, TypeOK, DevType, GhostType, noteVars, DevGoto, PairingByChannel, Fate
  <2>3. UNCHANGED <<storeVars, tableVars, hostVars, restVars>>
    BY <1>29 DEF DevLookup
  <2> QED
    BY <2>1, <2>2, <2>3, TypeSame DEF TypeOK
<1>30. ASSUME NEW dc \in DevConn, DevForward(dc) PROVE TypeOK'
  <2>1. DevType'
    BY <1>30 DEF DevForward, TypeOK, DevType, GhostType, DevGoto, DevPc, Presence
  <2>2. GhostType'
    BY <1>30 DEF DevForward, TypeOK, DevType, GhostType, noteVars, DevGoto, Fate
  <2>3. UNCHANGED <<storeVars, tableVars, hostVars, restVars>>
    BY <1>30 DEF DevForward
  <2> QED
    BY <2>1, <2>2, <2>3, TypeSame DEF TypeOK
<1>31. ASSUME NEW dc \in DevConn, DevEnd(dc) PROVE TypeOK'
  <2>1. DevType'
    BY <1>31 DEF DevEnd, TypeOK, DevType, DevGoto, DevPc, Presence
  <2>2. UNCHANGED <<storeVars, tableVars, hostVars, restVars, ghostVars>>
    BY <1>31 DEF DevEnd
  <2> QED
    BY <2>1, <2>2, TypeSame DEF TypeOK
<1>32. ASSUME NEW dc \in DevConn, DevCleanup(dc) PROVE TypeOK'
  <2>1. TableType'
    BY <1>32 DEF DevCleanup, TypeOK, TableType, DevType, GhostType, DevGoto
  <2>2. DevType'
    BY <1>32 DEF DevCleanup, TypeOK, TableType, DevType, GhostType, DevGoto, DevPc, Presence
  <2>3. GhostType'
    BY <1>32 DEF DevCleanup, TypeOK, TableType, DevType, GhostType, DevGoto, Fate, Forwarding, Overlap
  <2>4. UNCHANGED <<storeVars, hostVars, restVars>>
    BY <1>32 DEF DevCleanup
  <2> QED
    BY <2>1, <2>2, <2>3, <2>4, TypeSame DEF TypeOK
<1>33. CASE UNCHANGED vars
  BY <1>33, TypeSame DEF TypeOK, vars
<1> QED
  BY <1>1, <1>2, <1>3, <1>4, <1>5, <1>6, <1>7, <1>8, <1>9, <1>10, <1>11, <1>12, <1>13, <1>14,
     <1>15, <1>16, <1>17, <1>18, <1>19, <1>20, <1>21, <1>22, <1>23, <1>24, <1>25, <1>26, <1>27,
     <1>28, <1>29, <1>30, <1>31, <1>32, <1>33 DEF Next, RestNext, HostNext, DevNext

\* Type correctness of the router, with the mailbox cap and the locals a
\* handler holds, for every size of the system.
THEOREM TypeCorrect == Spec => []TypeOK
<1>1. Init => TypeOK
  BY InitType
<1>2. TypeOK /\ [Next]_vars => TypeOK'
  BY NextType
<1> QED
  BY <1>1, <1>2, PTL DEF Spec

-----------------------------------------------------------------------------
(* Registrations *)

\* Only registration and deletion touch the store's registration maps.
LEMMA RegistrationSteps ==
  ASSUME [Next]_vars
  PROVE  \/ \E id \in PairingId, c \in Channel, h \in Host, d \in Device : CreatePairing(id, c, h, d)
         \/ \E x \in DelReq : DeletePairing(x)
         \/ UNCHANGED <<pairings, byChannel, usedIds>>
<1>1. ASSUME NEW x \in DelReq, DeleteLookup(x) \/ DeleteTakeConns(x) \/ DeleteCloseConns(x)
      PROVE  UNCHANGED <<pairings, byChannel, usedIds>>
  BY <1>1 DEF DeleteLookup, DeleteTakeConns, DeleteCloseConns, storeVars
<1>2. ASSUME NEW d \in TokenDevice, RegisterCheckOwner(d) \/ RegisterPutToken(d)
      PROVE  UNCHANGED <<pairings, byChannel, usedIds>>
  BY <1>2 DEF RegisterCheckOwner, RegisterPutToken, storeVars
<1>3. ASSUME NEW hc \in HostConn, HostNext(hc) PROVE UNCHANGED <<pairings, byChannel, usedIds>>
  BY <1>3 DEF HostNext, storeVars,
     HostAttach, HostListPairings, HostSnapLookup, HostSnapSend, HostRead, HostLookup,
     HostCheckAttached, HostForward, HostAppendMailbox, HostMaybePush, HostEnd, HostCleanup
<1>4. ASSUME NEW dc \in DevConn, DevNext(dc) PROVE UNCHANGED <<pairings, byChannel, usedIds>>
  BY <1>4 DEF DevNext, storeVars,
     DevAuthorize, DevCheckCap, DevUpgradeFails, DevInsert, SetLookup, SetPut, SetPairing,
     SetPublish, DevRead, DevLookup, DevForward, DevEnd, DevCleanup
<1>5. CASE UNCHANGED vars
  BY <1>5 DEF vars, storeVars
<1> QED
  BY <1>1, <1>2, <1>3, <1>4, <1>5 DEF Next, RestNext

LEMMA NextIndexed == TypeOK /\ StoreIndexed /\ [Next]_vars => StoreIndexed'
<1> SUFFICES ASSUME TypeOK, StoreIndexed, [Next]_vars PROVE StoreIndexed'
  OBVIOUS
<1>1. ASSUME NEW id \in PairingId, NEW c \in Channel, NEW h \in Host, NEW d \in Device,
             CreatePairing(id, c, h, d)
      PROVE  StoreIndexed'
  <2> DEFINE new == [id |-> id, ch |-> c, host |-> h, dev |-> d]
  <2>1. /\ id \notin usedIds /\ byChannel[c] = NoId
        /\ pairings' = pairings \cup {new}
        /\ byChannel' = [byChannel EXCEPT ![c] = id]
        /\ usedIds' = usedIds \cup {id}
    BY <1>1 DEF CreatePairing, Registered
  <2>2. \A p \in pairings : p \in Pairing /\ p.ch # c /\ p.id # id
    BY <2>1, RouterAssumption DEF StoreIndexed, TypeOK, StoreType, Pairing
  <2>3. \A p \in pairings' : byChannel'[p.ch] = p.id /\ p.id \in usedIds'
    BY <2>1, <2>2 DEF StoreIndexed, TypeOK, StoreType, Pairing
  <2>4. ASSUME NEW e \in Channel, byChannel'[e] # NoId
        PROVE  \E p \in pairings' : p.id = byChannel'[e] /\ p.ch = e
    <3>1. CASE e = c
      <4>1. byChannel'[e] = id /\ new \in pairings' /\ new.id = id /\ new.ch = c
        BY <2>1, <3>1 DEF TypeOK, StoreType
      <4> QED
        BY <3>1, <4>1
    <3>2. CASE e # c
      BY <2>1, <2>4, <3>2 DEF StoreIndexed, Registered, TypeOK, StoreType
    <3> QED
      BY <3>1, <3>2
  <2>5. \A p, q \in pairings' : p.id = q.id => p = q
    BY <2>1, <2>2 DEF StoreIndexed
  <2> QED
    BY <2>3, <2>4, <2>5 DEF StoreIndexed, Registered
<1>2. ASSUME NEW x \in DelReq, DeletePairing(x) PROVE StoreIndexed'
  <2>1. CASE xpair[x] \notin pairings
    BY <1>2, <2>1 DEF DeletePairing, StoreIndexed, Registered
  <2>2. CASE xpair[x] \in pairings
    <3> DEFINE p == xpair[x]
    <3>1. /\ p \in Pairing /\ p.ch \in Channel
          /\ pairings' = pairings \ {p}
          /\ byChannel' = [byChannel EXCEPT ![p.ch] = NoId]
          /\ usedIds' = usedIds
      BY <1>2, <2>2 DEF DeletePairing, TypeOK, StoreType, Pairing
    <3>2. \A q \in pairings' : q \in Pairing /\ q.ch # p.ch
      BY <2>2, <3>1 DEF StoreIndexed, TypeOK, StoreType, Pairing
    <3>3. \A q \in pairings' : byChannel'[q.ch] = q.id /\ q.id \in usedIds'
      BY <3>1, <3>2 DEF StoreIndexed, TypeOK, StoreType, Pairing
    <3>4. ASSUME NEW e \in Channel, byChannel'[e] # NoId
          PROVE  \E q \in pairings' : q.id = byChannel'[e] /\ q.ch = e
      <4>1. e # p.ch /\ byChannel'[e] = byChannel[e]
        BY <3>1, <3>4 DEF TypeOK, StoreType
      <4> QED
        BY <3>1, <3>4, <4>1 DEF StoreIndexed, Registered
    <3> QED
      BY <3>1, <3>3, <3>4 DEF StoreIndexed, Registered
  <2> QED
    BY <2>1, <2>2
<1>3. CASE UNCHANGED <<pairings, byChannel, usedIds>>
  BY <1>3 DEF StoreIndexed, Registered
<1> QED
  BY <1>1, <1>2, <1>3, RegistrationSteps

\* MemStore's registration maps agree in every reachable state, whatever
\* registrations and repeated deletions interleave.
THEOREM RegistrationsIndexed == Spec => []StoreIndexed
<1>1. Init => StoreIndexed
  BY DEF Init, StoreIndexed, Registered
<1>2. TypeOK /\ StoreIndexed /\ [Next]_vars => StoreIndexed'
  BY NextIndexed
<1> QED
  BY <1>1, <1>2, TypeCorrect, PTL DEF Spec

-----------------------------------------------------------------------------
(* Sockets *)

\* Neither the host side nor a registration touches what SocketAccounting reads.
LEMMA HostSocketSteps ==
  ASSUME NEW hc \in HostConn, HostNext(hc)
  PROVE  UNCHANGED <<devConns, xconns, devVars>>
BY DEF HostNext, tableVars, restVars,
   HostAttach, HostListPairings, HostSnapLookup, HostSnapSend, HostRead, HostLookup,
   HostCheckAttached, HostForward, HostAppendMailbox, HostMaybePush, HostEnd, HostCleanup

LEMMA RestSocketSteps ==
  ASSUME RestNext
  PROVE  \/ \E x \in DelReq : DeleteTakeConns(x) \/ DeleteCloseConns(x)
         \/ UNCHANGED <<devConns, xconns, devVars>>
BY DEF RestNext, tableVars, restVars, CreatePairing, DeleteLookup, DeletePairing,
   RegisterCheckOwner, RegisterPutToken

LEMMA NextSockets == TypeOK /\ SocketAccounting /\ [Next]_vars => SocketAccounting'
<1> SUFFICES ASSUME TypeOK, SocketAccounting, [Next]_vars PROVE SocketAccounting'
  OBVIOUS
<1>1. ASSUME NEW x \in DelReq, DeleteTakeConns(x) PROVE SocketAccounting'
  <2>1. xpair[x].ch \in Channel /\ xconns[x] = {}
    BY <1>1 DEF DeleteTakeConns, TypeOK, RestType, Pairing
  <2> QED
    BY <1>1, <2>1 DEF DeleteTakeConns, SocketAccounting, Attached, SetSpan, devVars, TypeOK, TableType,
       DevType, RestType
<1>2. ASSUME NEW x \in DelReq, DeleteCloseConns(x) PROVE SocketAccounting'
  BY <1>2 DEF DeleteCloseConns, SocketAccounting, Attached, SetSpan, tableVars, TypeOK, TableType,
     DevType, RestType
<1>3. ASSUME NEW dc \in DevConn, NEW c \in Channel, DevAuthorize(dc, c) PROVE SocketAccounting'
  BY <1>3 DEF DevAuthorize, SocketAccounting, Attached, SetSpan, DevGoto, tableVars, restVars, TypeOK,
     TableType, DevType, RestType
<1>4. ASSUME NEW dc \in DevConn, DevCheckCap(dc) PROVE SocketAccounting'
  BY <1>4 DEF DevCheckCap, SocketAccounting, Attached, SetSpan, DevGoto, tableVars, restVars, TypeOK,
     TableType, DevType
<1>5. ASSUME NEW dc \in DevConn, DevUpgradeFails(dc) PROVE SocketAccounting'
  BY <1>5 DEF DevUpgradeFails, SocketAccounting, Attached, SetSpan, DevGoto, tableVars, restVars, TypeOK,
     TableType, DevType
<1>6. ASSUME NEW dc \in DevConn, DevInsert(dc) PROVE SocketAccounting'
  BY <1>6 DEF DevInsert, SocketAccounting, Attached, SetSpan, DevGoto, restVars, TypeOK, TableType, DevType
<1>7. ASSUME NEW dc \in DevConn, SetLookup(dc) PROVE SocketAccounting'
  BY <1>7 DEF SetLookup, SocketAccounting, Attached, SetSpan, DevGoto, tableVars, restVars, TypeOK,
     TableType, DevType
<1>8. ASSUME NEW dc \in DevConn, SetPut(dc) PROVE SocketAccounting'
  BY <1>8 DEF SetPut, SocketAccounting, Attached, SetSpan, DevGoto, AfterSet, tableVars, restVars,
     TypeOK, TableType, DevType
<1>9. ASSUME NEW dc \in DevConn, SetPairing(dc) PROVE SocketAccounting'
  BY <1>9 DEF SetPairing, SocketAccounting, Attached, SetSpan, DevGoto, AfterSet, tableVars, restVars,
     TypeOK, TableType, DevType
<1>10. ASSUME NEW dc \in DevConn, SetPublish(dc) PROVE SocketAccounting'
  BY <1>10 DEF SetPublish, SocketAccounting, Attached, SetSpan, DevGoto, AfterSet, tableVars, restVars,
     TypeOK, TableType, DevType
<1>11. ASSUME NEW dc \in DevConn, DevRead(dc) PROVE SocketAccounting'
  BY <1>11 DEF DevRead, SocketAccounting, Attached, SetSpan, DevGoto, tableVars, restVars, TypeOK,
     TableType, DevType
<1>12. ASSUME NEW dc \in DevConn, DevLookup(dc) PROVE SocketAccounting'
  BY <1>12 DEF DevLookup, SocketAccounting, Attached, SetSpan, DevGoto, tableVars, restVars, TypeOK,
     TableType, DevType
<1>13. ASSUME NEW dc \in DevConn, DevForward(dc) PROVE SocketAccounting'
  BY <1>13 DEF DevForward, SocketAccounting, Attached, SetSpan, DevGoto, tableVars, restVars, TypeOK,
     TableType, DevType
<1>14. ASSUME NEW dc \in DevConn, DevEnd(dc) PROVE SocketAccounting'
  BY <1>14 DEF DevEnd, SocketAccounting, Attached, SetSpan, DevGoto, tableVars, restVars, TypeOK,
     TableType, DevType
<1>15. ASSUME NEW dc \in DevConn, DevCleanup(dc) PROVE SocketAccounting'
  BY <1>15 DEF DevCleanup, SocketAccounting, Attached, SetSpan, DevGoto, restVars, TypeOK, TableType, DevType
<1>16. CASE UNCHANGED <<devConns, xconns, devVars>>
  BY <1>16 DEF SocketAccounting, Attached, SetSpan, devVars
<1>17. UNCHANGED vars => UNCHANGED <<devConns, xconns, devVars>>
  BY DEF vars, tableVars, restVars
<1> QED
  BY <1>1, <1>2, <1>3, <1>4, <1>5, <1>6, <1>7, <1>8, <1>9, <1>10, <1>11, <1>12, <1>13, <1>14,
     <1>15, <1>16, <1>17,
     HostSocketSteps, RestSocketSteps DEF Next, DevNext

\* A table entry is a running handler of that very channel, and every running
\* handler is in the table, closed, or held by a revocation about to close it,
\* however attaches, detaches, revocations and re-registrations interleave.
THEOREM SocketsAccounted == Spec => []SocketAccounting
<1>1. Init => SocketAccounting
  BY DEF Init, SocketAccounting, Attached
<1>2. TypeOK /\ SocketAccounting /\ [Next]_vars => SocketAccounting'
  BY NextSockets
<1> QED
  BY <1>1, <1>2, TypeCorrect, PTL DEF Spec

-----------------------------------------------------------------------------
(* The live arm *)

\* Among the steps of devices and REST requests, only three change what the live
\* arm reads.
LEMMA LiveArmSteps ==
  ASSUME RestNext \/ \E dc \in DevConn : DevNext(dc)
  PROVE  \/ \E x \in DelReq : DeleteTakeConns(x)
         \/ \E dc \in DevConn : DevInsert(dc) \/ DevCleanup(dc)
         \/ UNCHANGED <<hpc, hframe, devConns, raced>>
<1>1. ASSUME RestNext
      PROVE  (\E x \in DelReq : DeleteTakeConns(x)) \/ UNCHANGED <<hpc, hframe, devConns, raced>>
  BY <1>1 DEF RestNext, tableVars, hostVars, ghostVars, CreatePairing, DeleteLookup, DeletePairing,
     DeleteCloseConns, RegisterCheckOwner, RegisterPutToken
<1>2. ASSUME NEW dc \in DevConn, DevNext(dc)
      PROVE  DevInsert(dc) \/ DevCleanup(dc) \/ UNCHANGED <<hpc, hframe, devConns, raced>>
  BY <1>2 DEF DevNext, tableVars, hostVars, ghostVars,
     DevAuthorize, DevCheckCap, DevUpgradeFails, SetLookup, SetPut, SetPairing, SetPublish,
     DevRead, DevLookup, DevForward, DevEnd
<1> QED
  BY <1>1, <1>2

LEMMA NextLost == TypeOK /\ LostOnlyToDetach /\ [Next]_vars => LostOnlyToDetach'
<1> SUFFICES ASSUME TypeOK, LostOnlyToDetach, [Next]_vars PROVE LostOnlyToDetach'
  OBVIOUS
<1> USE DEF LostOnlyToDetach, deviceAttachedNow
<1>1. ASSUME NEW x \in DelReq, DeleteTakeConns(x) PROVE LostOnlyToDetach'
  <2>1. xpair[x].ch \in Channel
    BY <1>1 DEF DeleteTakeConns, TypeOK, RestType, Pairing
  <2> QED
    BY <1>1, <2>1 DEF DeleteTakeConns, Forwarding, hostVars, TypeOK, TableType, HostType, Frame
<1>2. ASSUME NEW dc \in DevConn, DevInsert(dc) PROVE LostOnlyToDetach'
  BY <1>2 DEF DevInsert, hostVars, ghostVars, TypeOK, TableType, HostType, DevType, Frame
<1>3. ASSUME NEW dc \in DevConn, DevCleanup(dc) PROVE LostOnlyToDetach'
  BY <1>3 DEF DevCleanup, Forwarding, hostVars, TypeOK, TableType, HostType, DevType, Frame
<1>4. ASSUME NEW hc \in HostConn, NEW h \in Host, HostAttach(hc, h) PROVE LostOnlyToDetach'
  BY <1>4 DEF HostAttach, HostGoto, ghostVars, TypeOK, HostType
<1>5. ASSUME NEW hc \in HostConn, HostListPairings(hc) PROVE LostOnlyToDetach'
  BY <1>5 DEF HostListPairings, HostGoto, tableVars, ghostVars, TypeOK, HostType
<1>6. ASSUME NEW hc \in HostConn, NEW c \in Channel, HostSnapLookup(hc, c) PROVE LostOnlyToDetach'
  BY <1>6 DEF HostSnapLookup, HostGoto, tableVars, ghostVars, TypeOK, HostType
<1>7. ASSUME NEW hc \in HostConn, HostSnapSend(hc) PROVE LostOnlyToDetach'
  BY <1>7 DEF HostSnapSend, HostGoto, tableVars, ghostVars, TypeOK, HostType
<1>8. ASSUME NEW hc \in HostConn, NEW c \in Channel, NEW push \in PushClass,
             NEW big \in BOOLEAN, HostRead(hc, c, push, big)
      PROVE  LostOnlyToDetach'
  BY <1>8 DEF HostRead, HostGoto, tableVars, TypeOK, HostType
<1>9. ASSUME NEW hc \in HostConn, HostLookup(hc) PROVE LostOnlyToDetach'
  BY <1>9 DEF HostLookup, HostReturn, HostGoto, tableVars, TypeOK, HostType
<1>10. ASSUME NEW hc \in HostConn, HostCheckAttached(hc) PROVE LostOnlyToDetach'
  BY <1>10 DEF HostCheckAttached, HostGoto, ghostVars, tableVars, TypeOK, HostType
<1>11. ASSUME NEW hc \in HostConn, HostForward(hc) PROVE LostOnlyToDetach'
  BY <1>11 DEF HostForward, HostReturn, HostGoto, tableVars, TypeOK, HostType
<1>12. ASSUME NEW hc \in HostConn, HostAppendMailbox(hc) PROVE LostOnlyToDetach'
  BY <1>12 DEF HostAppendMailbox, HostGoto, tableVars, TypeOK, HostType
<1>13. ASSUME NEW hc \in HostConn, HostMaybePush(hc) PROVE LostOnlyToDetach'
  BY <1>13 DEF HostMaybePush, HostReturn, HostGoto, tableVars, TypeOK, HostType
<1>14. ASSUME NEW hc \in HostConn, HostEnd(hc) PROVE LostOnlyToDetach'
  BY <1>14 DEF HostEnd, HostGoto, tableVars, ghostVars, TypeOK, HostType
<1>15. ASSUME NEW hc \in HostConn, HostCleanup(hc) PROVE LostOnlyToDetach'
  BY <1>15 DEF HostCleanup, HostGoto, ghostVars, TypeOK, HostType
<1>16. CASE UNCHANGED <<hpc, hframe, devConns, raced>>
  BY <1>16
<1>17. UNCHANGED vars => UNCHANGED <<hpc, hframe, devConns, raced>>
  BY DEF vars, tableVars, hostVars, ghostVars
<1> QED
  BY <1>1, <1>2, <1>3, <1>4, <1>5, <1>6, <1>7, <1>8, <1>9, <1>10, <1>11, <1>12, <1>13, <1>14,
     <1>15, <1>16, <1>17,
     LiveArmSteps DEF Next, HostNext

\* The live arm loses a frame only to a detach or a revocation that happened
\* after the attachment check, never because of a stale presence record.
THEOREM LostOnlyInRace == Spec => []LostOnlyToDetach
<1>1. Init => LostOnlyToDetach
  BY DEF Init, LostOnlyToDetach
<1>2. TypeOK /\ LostOnlyToDetach /\ [Next]_vars => LostOnlyToDetach'
  BY NextLost
<1> QED
  BY <1>1, <1>2, TypeCorrect, PTL DEF Spec

-----------------------------------------------------------------------------
(* Routing under a registration *)

\* The strengthening RoutedUnderRegistration needs: `seen` of a connection with
\* a frame in hand covers every registration in force.
SeenCovers == \A k \in Routing : LiveIds \subseteq seen[k]

RoutedInv == SeenCovers /\ RoutedUnderRegistration

\* PairingByChannel returns the registration of the channel it was asked for.
LEMMA ByChannelExact ==
  ASSUME TypeOK, StoreIndexed, NEW c \in Channel, NEW p \in PairingByChannel(c)
  PROVE  p \in pairings /\ p \in Pairing /\ p.ch = c
<1>1. p \in pairings /\ p \in Pairing /\ p.id = byChannel[c] /\ p.id \in PairingId
  BY DEF PairingByChannel, TypeOK, StoreType, Pairing
<1>2. PICK q \in pairings : q.id = byChannel[c] /\ q.ch = c
  BY <1>1, RouterAssumption DEF StoreIndexed, Registered
<1> QED
  BY <1>1, <1>2 DEF StoreIndexed

\* Revocation (but for its store call) and token registration touch nothing that
\* routing reads.
LEMMA RestRoutingSteps ==
  ASSUME RestNext
  PROVE  \/ \E id \in PairingId, c \in Channel, h \in Host, d \in Device : CreatePairing(id, c, h, d)
         \/ \E x \in DelReq : DeletePairing(x)
         \/ UNCHANGED <<pairings, seen, hostVars, dpc, dpair, dch>>
BY DEF RestNext, storeVars, devVars, ghostVars, DeleteLookup, DeleteTakeConns, DeleteCloseConns,
   RegisterCheckOwner, RegisterPutToken

LEMMA NextRouted == TypeOK /\ StoreIndexed /\ RoutedInv /\ [Next]_vars => RoutedInv'
<1> SUFFICES ASSUME TypeOK, StoreIndexed, RoutedInv, [Next]_vars PROVE RoutedInv'
  OBVIOUS
<1> USE DEF RoutedInv, SeenCovers, RoutedUnderRegistration, Routing, LiveIds
<1>1. ASSUME NEW id \in PairingId, NEW c \in Channel, NEW h \in Host, NEW d \in Device,
             CreatePairing(id, c, h, d)
      PROVE  RoutedInv'
  BY <1>1 DEF CreatePairing, hostVars, devVars, TypeOK, GhostType
<1>2. ASSUME NEW x \in DelReq, DeletePairing(x) PROVE RoutedInv'
  BY <1>2 DEF DeletePairing, hostVars, devVars, ghostVars
<1>3. ASSUME NEW hc \in HostConn, NEW h \in Host, HostAttach(hc, h) PROVE RoutedInv'
  BY <1>3, RouterAssumption DEF HostAttach, HostGoto, storeVars, ghostVars, devVars, TypeOK,
     HostType, GhostType
<1>4. ASSUME NEW hc \in HostConn, HostListPairings(hc) PROVE RoutedInv'
  BY <1>4, RouterAssumption DEF HostListPairings, HostGoto, storeVars, ghostVars, devVars,
     TypeOK, HostType, GhostType
<1>5. ASSUME NEW hc \in HostConn, NEW c \in Channel, HostSnapLookup(hc, c) PROVE RoutedInv'
  BY <1>5, RouterAssumption DEF HostSnapLookup, HostGoto, storeVars, ghostVars, devVars, TypeOK,
     HostType, GhostType
<1>6. ASSUME NEW hc \in HostConn, HostSnapSend(hc) PROVE RoutedInv'
  BY <1>6, RouterAssumption DEF HostSnapSend, HostGoto, storeVars, ghostVars, devVars, TypeOK,
     HostType, GhostType
<1>7. ASSUME NEW hc \in HostConn, NEW c \in Channel, NEW push \in PushClass,
             NEW big \in BOOLEAN, HostRead(hc, c, push, big)
      PROVE  RoutedInv'
  BY <1>7, RouterAssumption DEF HostRead, HostGoto, storeVars, devVars, TypeOK, HostType, GhostType
<1>8. ASSUME NEW hc \in HostConn, HostLookup(hc) PROVE RoutedInv'
  <2>1. hframe[hc].ch \in Channel
    BY DEF TypeOK, HostType, Frame
  <2>2. CASE HostReturn(hc)
    BY <1>8, <2>2, RouterAssumption DEF HostLookup, HostReturn, HostGoto, storeVars, devVars,
       TypeOK, HostType, GhostType
  <2>3. CASE ~HostReturn(hc)
    <3>1. PICK p \in PairingByChannel(hframe[hc].ch) :
            p.host = hhost[hc] /\ hpair' = [hpair EXCEPT ![hc] = p]
      BY <1>8, <2>3 DEF HostLookup
    <3>2. p \in pairings /\ p.ch = hframe[hc].ch
      BY <2>1, ByChannelExact
    <3>3. p.id \in seen[hc]
      BY <1>8, <3>2 DEF HostLookup
    <3>4. /\ hpc[hc] = "lookup" /\ hpc' = [hpc EXCEPT ![hc] = "check"]
          /\ UNCHANGED <<hframe, hhost, seen, pairings, dpc, dpair, dch>>
      BY <1>8, <2>3 DEF HostLookup, HostGoto, storeVars, devVars
    <3> QED
      BY <3>1, <3>2, <3>3, <3>4, RouterAssumption DEF TypeOK, HostType
  <2> QED
    BY <2>2, <2>3
<1>9. ASSUME NEW hc \in HostConn, HostCheckAttached(hc) PROVE RoutedInv'
  BY <1>9, RouterAssumption DEF HostCheckAttached, HostGoto, ghostVars, storeVars, devVars, TypeOK,
     HostType, GhostType
<1>10. ASSUME NEW hc \in HostConn, HostForward(hc) PROVE RoutedInv'
  BY <1>10, RouterAssumption DEF HostForward, HostReturn, HostGoto, storeVars, devVars, TypeOK,
     HostType, GhostType
<1>11. ASSUME NEW hc \in HostConn, HostAppendMailbox(hc) PROVE RoutedInv'
  BY <1>11, RouterAssumption DEF HostAppendMailbox, HostGoto, devVars, TypeOK, HostType, GhostType
<1>12. ASSUME NEW hc \in HostConn, HostMaybePush(hc) PROVE RoutedInv'
  BY <1>12, RouterAssumption DEF HostMaybePush, HostReturn, HostGoto, storeVars, devVars,
     TypeOK, HostType, GhostType
<1>13. ASSUME NEW hc \in HostConn, HostEnd(hc) PROVE RoutedInv'
  BY <1>13, RouterAssumption DEF HostEnd, HostGoto, storeVars, ghostVars, devVars, TypeOK,
     HostType, GhostType
<1>14. ASSUME NEW hc \in HostConn, HostCleanup(hc) PROVE RoutedInv'
  BY <1>14, RouterAssumption DEF HostCleanup, HostGoto, storeVars, ghostVars, devVars, TypeOK,
     HostType, GhostType
<1>15. ASSUME NEW dc \in DevConn, NEW c \in Channel, DevAuthorize(dc, c) PROVE RoutedInv'
  BY <1>15, RouterAssumption DEF DevAuthorize, DevGoto, storeVars, ghostVars, hostVars, TypeOK,
     DevType, GhostType
<1>16. ASSUME NEW dc \in DevConn, DevCheckCap(dc) PROVE RoutedInv'
  BY <1>16, RouterAssumption DEF DevCheckCap, DevGoto, storeVars, ghostVars, hostVars, TypeOK,
     DevType, GhostType
<1>17. ASSUME NEW dc \in DevConn, DevUpgradeFails(dc) PROVE RoutedInv'
  BY <1>17, RouterAssumption DEF DevUpgradeFails, DevGoto, storeVars, ghostVars, hostVars,
     TypeOK, DevType, GhostType
<1>18. ASSUME NEW dc \in DevConn, DevInsert(dc) PROVE RoutedInv'
  BY <1>18, RouterAssumption DEF DevInsert, DevGoto, storeVars, ghostVars, hostVars, TypeOK,
     DevType, GhostType
<1>19. ASSUME NEW dc \in DevConn, SetLookup(dc) PROVE RoutedInv'
  BY <1>19, RouterAssumption DEF SetLookup, DevGoto, storeVars, ghostVars, hostVars, TypeOK,
     DevType, GhostType
<1>20. ASSUME NEW dc \in DevConn, SetPut(dc) PROVE RoutedInv'
  BY <1>20, RouterAssumption DEF SetPut, DevGoto, ghostVars, hostVars, TypeOK, DevType,
     GhostType, AfterSet
<1>21. ASSUME NEW dc \in DevConn, SetPairing(dc) PROVE RoutedInv'
  BY <1>21, RouterAssumption DEF SetPairing, DevGoto, storeVars, ghostVars, hostVars, TypeOK,
     DevType, GhostType, AfterSet
<1>22. ASSUME NEW dc \in DevConn, SetPublish(dc) PROVE RoutedInv'
  BY <1>22, RouterAssumption DEF SetPublish, DevGoto, storeVars, ghostVars, TypeOK, DevType,
     GhostType, AfterSet
<1>23. ASSUME NEW dc \in DevConn, DevRead(dc) PROVE RoutedInv'
  BY <1>23, RouterAssumption DEF DevRead, DevGoto, storeVars, hostVars, TypeOK, DevType, GhostType
<1>24. ASSUME NEW dc \in DevConn, DevLookup(dc) PROVE RoutedInv'
  <2>1. dch[dc] \in Channel
    BY DEF TypeOK, DevType
  <2>2. CASE DevGoto(dc, "cleanup") /\ seen' = [seen EXCEPT ![dc] = {}]
    BY <1>24, <2>2, RouterAssumption DEF DevLookup, DevGoto, storeVars, hostVars, TypeOK,
       DevType, GhostType
  <2>3. CASE DevGoto(dc, "forward")
    <3>1. dpc' = [dpc EXCEPT ![dc] = "forward"]
      BY <2>3 DEF DevGoto
    <3>2. /\ \E p \in PairingByChannel(dch[dc]) : dpair' = [dpair EXCEPT ![dc] = p]
          /\ dpc[dc] = "lookup"
          /\ UNCHANGED <<seen, dch, pairings, hpc, hpair, hframe, hhost>>
      BY <1>24, <3>1 DEF DevLookup, DevGoto, storeVars, hostVars, TypeOK, DevType
    <3>3. PICK p \in PairingByChannel(dch[dc]) : dpair' = [dpair EXCEPT ![dc] = p]
      BY <3>2
    <3>4. p \in pairings /\ p.ch = dch[dc]
      BY <2>1, ByChannelExact
    <3>5. p.id \in seen[dc]
      BY <3>2, <3>4
    <3> QED
      BY <3>1, <3>2, <3>3, <3>4, <3>5, RouterAssumption DEF TypeOK, DevType
  <2> QED
    BY <1>24, <2>2, <2>3 DEF DevLookup
<1>25. ASSUME NEW dc \in DevConn, DevForward(dc) PROVE RoutedInv'
  BY <1>25, RouterAssumption DEF DevForward, DevGoto, storeVars, hostVars, TypeOK, DevType,
     GhostType
<1>26. ASSUME NEW dc \in DevConn, DevEnd(dc) PROVE RoutedInv'
  BY <1>26, RouterAssumption DEF DevEnd, DevGoto, storeVars, ghostVars, hostVars, TypeOK,
     DevType, GhostType
<1>27. ASSUME NEW dc \in DevConn, DevCleanup(dc) PROVE RoutedInv'
  BY <1>27, RouterAssumption, SMTT(40) DEF DevCleanup, DevGoto, storeVars, hostVars, TypeOK, DevType,
     GhostType
<1>28. CASE UNCHANGED <<pairings, seen, hostVars, dpc, dpair, dch>>
  BY <1>28 DEF hostVars
<1>29. UNCHANGED vars => UNCHANGED <<pairings, seen, hostVars, dpc, dpair, dch>>
  BY DEF vars, storeVars, devVars, ghostVars
<1> QED
  BY <1>1, <1>2, <1>3, <1>4, <1>5, <1>6, <1>7, <1>8, <1>9, <1>10, <1>11, <1>12, <1>13, <1>14,
     <1>15, <1>16, <1>17, <1>18, <1>19, <1>20, <1>21, <1>22, <1>23, <1>24, <1>25, <1>26, <1>27,
     <1>28, <1>29,
     RestRoutingSteps DEF Next, HostNext, DevNext

\* No frame is routed under a registration revoked before the frame was read, and
\* a host frame only on a channel of its own host, in both directions.
THEOREM RoutedOnlyUnderRegistration == Spec => []RoutedUnderRegistration
<1>1. Init => RoutedInv
  BY DEF Init, RoutedInv, SeenCovers, RoutedUnderRegistration, Routing
<1>2. TypeOK /\ StoreIndexed /\ RoutedInv /\ [Next]_vars => RoutedInv'
  BY NextRouted
<1>3. RoutedInv => RoutedUnderRegistration
  BY DEF RoutedInv
<1> QED
  BY <1>1, <1>2, <1>3, TypeCorrect, RegistrationsIndexed, PTL DEF Spec

-----------------------------------------------------------------------------
(* Pushes *)

HostRouting == {hc \in HostConn : hpc[hc] \in {"lookup", "check", "forward", "append", "push"}}

\* The strengthening PushOnlyForBuffered needs: each handler carries a frame of
\* its own, whose fate is open until the arm it takes decides it.
FateInv ==
  /\ \A hc \in HostRouting :
       /\ hframe[hc].seq <= sent
       /\ hpc[hc] # "push" => fate[hframe[hc].seq] = "routing"
       /\ hpc[hc] = "push" => fate[hframe[hc].seq] \in {"mailboxed", "oversized"}
  /\ \A hc, hd \in HostRouting : hframe[hc].seq = hframe[hd].seq => hc = hd
  /\ \A n \in 1..MaxSeq : n > sent => fate[n] = "unsent"
  /\ PushOnlyForBuffered

\* Devices and REST requests decide no host frame's fate.
LEMMA FateSteps ==
  ASSUME RestNext \/ \E dc \in DevConn : DevNext(dc)
  PROVE  UNCHANGED <<hpc, hframe, fate, sent, pushed>>
<1>1. RestNext => UNCHANGED <<hpc, hframe, fate, sent, pushed>>
  BY SMTT(40) DEF RestNext, hostVars, ghostVars, CreatePairing, DeleteLookup, DeletePairing,
     DeleteTakeConns, DeleteCloseConns, RegisterCheckOwner, RegisterPutToken
<1>2. ASSUME NEW dc \in DevConn, DevNext(dc) PROVE UNCHANGED <<hpc, hframe, fate, sent, pushed>>
  BY <1>2 DEF DevNext, hostVars, ghostVars,
     DevAuthorize, DevCheckCap, DevUpgradeFails, DevInsert, SetLookup, SetPut, SetPairing,
     SetPublish, DevRead, DevLookup, DevForward, DevEnd, DevCleanup
<1> QED
  BY <1>1, <1>2

LEMMA NextFate == TypeOK /\ FateInv /\ [Next]_vars => FateInv'
<1> SUFFICES ASSUME TypeOK, FateInv, [Next]_vars PROVE FateInv'
  OBVIOUS
<1> USE DEF FateInv, PushOnlyForBuffered, HostRouting
<1>1. ASSUME NEW hc \in HostConn, NEW h \in Host, HostAttach(hc, h) PROVE FateInv'
  BY <1>1, RouterAssumption DEF HostAttach, HostGoto, ghostVars, TypeOK, HostType, GhostType
<1>2. ASSUME NEW hc \in HostConn, HostListPairings(hc) PROVE FateInv'
  BY <1>2, RouterAssumption DEF HostListPairings, HostGoto, ghostVars, TypeOK, HostType, GhostType
<1>3. ASSUME NEW hc \in HostConn, NEW c \in Channel, HostSnapLookup(hc, c) PROVE FateInv'
  BY <1>3, RouterAssumption DEF HostSnapLookup, HostGoto, ghostVars, TypeOK, HostType, GhostType
<1>4. ASSUME NEW hc \in HostConn, HostSnapSend(hc) PROVE FateInv'
  BY <1>4, RouterAssumption DEF HostSnapSend, HostGoto, ghostVars, TypeOK, HostType, GhostType
<1>5. ASSUME NEW hc \in HostConn, NEW c \in Channel, NEW push \in PushClass,
             NEW big \in BOOLEAN, HostRead(hc, c, push, big)
      PROVE  FateInv'
  BY <1>5, RouterAssumption DEF HostRead, HostGoto, TypeOK, HostType, GhostType, Frame
<1>6. ASSUME NEW hc \in HostConn, HostLookup(hc) PROVE FateInv'
  <2>1. CASE HostReturn(hc) /\ fate' = [fate EXCEPT ![hframe[hc].seq] = "not_found"]
    <3>1. hpc[hc] = "lookup" /\ UNCHANGED <<sent, pushed>>
      BY <1>6 DEF HostLookup
    <3>2. hframe[hc].seq \in 1..MaxSeq /\ hframe[hc].seq \notin pushed
      BY <3>1 DEF TypeOK, HostType, Frame
    <3> QED
      BY <2>1, <3>1, <3>2, RouterAssumption
         DEF HostReturn, HostGoto, TypeOK, HostType, GhostType, Frame
  <2>2. CASE HostGoto(hc, "check") /\ UNCHANGED <<fate, hframe>>
    BY <1>6, <2>2 DEF HostLookup, HostGoto, TypeOK, HostType, GhostType
  <2> QED
    BY <1>6, <2>1, <2>2 DEF HostLookup
<1>7. ASSUME NEW hc \in HostConn, HostCheckAttached(hc) PROVE FateInv'
  BY <1>7, RouterAssumption DEF HostCheckAttached, HostGoto, ghostVars, TypeOK, HostType, GhostType
<1>8. ASSUME NEW hc \in HostConn, HostForward(hc) PROVE FateInv'
  <2>1. PICK v \in {"live", "lost"} : fate' = [fate EXCEPT ![hframe[hc].seq] = v]
    BY <1>8 DEF HostForward
  <2>2. hpc[hc] = "forward" /\ HostReturn(hc) /\ UNCHANGED <<sent, pushed>>
    BY <1>8 DEF HostForward
  <2>3. hframe[hc].seq \in 1..MaxSeq /\ hframe[hc].seq \notin pushed
    BY <2>2 DEF TypeOK, HostType, Frame
  <2> QED
    BY <2>1, <2>2, <2>3, RouterAssumption DEF HostReturn, HostGoto, TypeOK, HostType, GhostType, Frame
<1>9. ASSUME NEW hc \in HostConn, HostAppendMailbox(hc) PROVE FateInv'
  <2>1. PICK v \in {"mailboxed", "oversized"} : fate' = [fate EXCEPT ![hframe[hc].seq] = v]
    BY <1>9 DEF HostAppendMailbox
  <2>2. /\ hpc[hc] = "append" /\ hpc' = [hpc EXCEPT ![hc] = "push"]
        /\ UNCHANGED <<hframe, sent, pushed>>
    BY <1>9 DEF HostAppendMailbox, HostGoto
  <2>3. hframe[hc].seq \in 1..MaxSeq /\ hframe[hc].seq \notin pushed
    BY <2>2 DEF TypeOK, HostType, Frame
  <2> QED
    BY <2>1, <2>2, <2>3, RouterAssumption DEF TypeOK, HostType, GhostType, Frame
<1>10. ASSUME NEW hc \in HostConn, HostMaybePush(hc) PROVE FateInv'
  BY <1>10, RouterAssumption DEF HostMaybePush, HostReturn, HostGoto, TypeOK, HostType,
     GhostType, Frame
<1>11. ASSUME NEW hc \in HostConn, HostEnd(hc) PROVE FateInv'
  BY <1>11, RouterAssumption DEF HostEnd, HostGoto, ghostVars, TypeOK, HostType, GhostType
<1>12. ASSUME NEW hc \in HostConn, HostCleanup(hc) PROVE FateInv'
  BY <1>12, RouterAssumption DEF HostCleanup, HostGoto, ghostVars, TypeOK, HostType, GhostType
<1>13. CASE UNCHANGED <<hpc, hframe, fate, sent, pushed>>
  BY <1>13
<1>14. UNCHANGED vars => UNCHANGED <<hpc, hframe, fate, sent, pushed>>
  BY DEF vars, hostVars, ghostVars
<1> QED
  BY <1>1, <1>2, <1>3, <1>4, <1>5, <1>6, <1>7, <1>8, <1>9, <1>10, <1>11, <1>12, <1>13, <1>14,
     FateSteps DEF Next, HostNext

\* A push goes out only for a frame that went to the mailbox, kept there or too big to
\* be, however many host connections route at once.
THEOREM PushesOnlyForBuffered == Spec => []PushOnlyForBuffered
<1>1. Init => FateInv
  BY RouterAssumption DEF Init, FateInv, PushOnlyForBuffered, HostRouting
<1>2. TypeOK /\ FateInv /\ [Next]_vars => FateInv'
  BY NextFate
<1>3. FateInv => PushOnlyForBuffered
  BY DEF FateInv
<1> QED
  BY <1>1, <1>2, <1>3, TypeCorrect, PTL DEF Spec


-----------------------------------------------------------------------------
(* Hosts are told *)

\* A running host handler, and no other, is in the table its host's broadcasts read.
HostTableInv ==
  /\ \A h \in Host : \A hc \in hostConns[h] : hhost[hc] = h /\ hpc[hc] # "idle"
  /\ \A hc \in HostConn : hpc[hc] # "idle" => hc \in hostConns[hhost[hc]]

\* What setDeviceAttached writes and publishes.
GoalInv ==
  /\ \A dc \in DevConn : dgoal[dc] # "unknown"
  /\ \A dc \in DevConn : dpc[dc] = "setPublish" => dpair[dc].ch = dch[dc]

\* A channel without an overlap has one transition at a time ...
Alone ==
  \A d, e \in DevConn :
    /\ dpc[d] \in SetSpan /\ dpc[e] \in SetSpan
    /\ dch[d] = dch[e] /\ dch[d] \notin overlapped
    => d = e

\* ... which finds the record as it left it, and the registration it is to tell.
Steady ==
  \A dc \in DevConn : dpc[dc] \in SetSpan /\ dch[dc] \notin overlapped =>
    /\ dgoal[dc] = "detached" => devConns[dch[dc]] = {}
    /\ dpc[dc] = "setPut" => dold[dc] = devPres[dch[dc]]
    /\ dpc[dc] \in {"setPairing", "setPublish"} => devPres[dch[dc]] = dgoal[dc]
    /\ dpc[dc] = "setPublish" => dpair[dc] \in pairings

\* A handler is at one of these steps of an attach of c.
Announces(c, pcs) ==
  \E dc \in DevConn : dch[dc] = c /\ dgoal[dc] = "attached" /\ dpc[dc] \in pcs

\* A revocation has yet to take c's sockets out of the table.
Revoking(c) == \E x \in DelReq : xpc[x] = "take" /\ xpair[x].ch = c

\* A socket is on record or about to be, and a record that no registration
\* announces is about to find out.
RecordInv ==
  \A c \in Channel \ overlapped :
    /\ devConns[c] # {} /\ ~Revoking(c) /\ devPres[c] # "attached"
         => Announces(c, {"setLookup", "setPut"})
    /\ ~Registered(c) /\ devPres[c] = "attached" => Announces(c, {"setPairing"})

\* The last word hc has, or has in hand, on c.
Word(hc, c) == IF hpc[hc] = "snapSend" /\ snap[hc].ch = c THEN snap[hc].val ELSE told[hc][c]

\* hc has yet to read the record of c for its snapshot.
SnapshotToCome(hc, c) ==
  \/ hpc[hc] = "pairings"
  \/ hpc[hc] \in {"snap", "snapSend"} /\ c \in snapTodo[hc]

\* Of a device on record a host connection has word, or is about to.
WordInv ==
  \A p \in pairings : \A hc \in hostConns[p.host] :
    /\ p.ch \notin overlapped /\ <<hc, p.ch>> \notin overtaken
    /\ devPres[p.ch] = "attached"
    => \/ Word(hc, p.ch) = "attached"
       \/ SnapshotToCome(hc, p.ch)
       \/ Announces(p.ch, {"setPairing", "setPublish"})

\* What a host step, a REST step and a device step leave alone.
LEMMA HostTellSteps ==
  ASSUME NEW hc \in HostConn, HostNext(hc)
  PROVE  UNCHANGED <<pairings, byChannel, devConns, devPres, dpc, dch, dpair, dgoal, dold,
                     overlapped, xpc, xpair>>
BY DEF HostNext, storeVars, tableVars, devVars, restVars, ghostVars, noteVars,
   HostAttach, HostListPairings, HostSnapLookup, HostSnapSend, HostRead, HostLookup,
   HostCheckAttached, HostForward, HostAppendMailbox, HostMaybePush, HostEnd, HostCleanup

LEMMA RestTellSteps ==
  ASSUME RestNext
  PROVE  UNCHANGED <<hostConns, hostVars, dpc, dch, dpair, dgoal, dold, overtaken>>
BY DEF RestNext, tableVars, devVars, ghostVars, noteVars, CreatePairing, DeleteLookup,
   DeletePairing, DeleteTakeConns, DeleteCloseConns, RegisterCheckOwner, RegisterPutToken

LEMMA DevTellSteps ==
  ASSUME TypeOK, NEW dc \in DevConn, DevNext(dc)
  PROVE  /\ UNCHANGED <<pairings, byChannel, hostConns, hpc, hhost, snapTodo, snap, xpc, xpair>>
         /\ \A d \in DevConn \ {dc} :
              /\ dpc'[d] = dpc[d] /\ dch'[d] = dch[d] /\ dpair'[d] = dpair[d]
              /\ dgoal'[d] = dgoal[d] /\ dold'[d] = dold[d]
<1>1. UNCHANGED <<pairings, byChannel, hostConns, hpc, hhost, snapTodo, snap, xpc, xpair>>
  BY DEF DevNext, storeVars, tableVars, hostVars, restVars,
     DevAuthorize, DevCheckCap, DevUpgradeFails, DevInsert, SetLookup, SetPut, SetPairing,
     SetPublish, DevRead, DevLookup, DevForward, DevEnd, DevCleanup
<1>2. \A d \in DevConn \ {dc} :
        /\ dpc'[d] = dpc[d] /\ dch'[d] = dch[d] /\ dpair'[d] = dpair[d]
        /\ dgoal'[d] = dgoal[d] /\ dold'[d] = dold[d]
  BY DEF DevNext, DevGoto, TypeOK, DevType, DevAuthorize, DevCheckCap, DevUpgradeFails,
     DevInsert, SetLookup, SetPut, SetPairing, SetPublish, DevRead, DevLookup, DevForward,
     DevEnd, DevCleanup
<1> QED
  BY <1>1, <1>2

\* A device step outside setDeviceAttached that neither fills nor empties the table.
Quiet(dc) ==
  /\ dpc[dc] \notin SetSpan /\ dpc'[dc] \notin SetSpan /\ dgoal'[dc] = dgoal[dc]
  /\ UNCHANGED <<devConns, devPres, told, overlapped, overtaken>>

LEMMA DevQuiet ==
  ASSUME TypeOK, NEW dc \in DevConn, DevNext(dc)
  PROVE  \/ Quiet(dc) \/ DevInsert(dc) \/ DevCleanup(dc)
         \/ SetLookup(dc) \/ SetPut(dc) \/ SetPairing(dc) \/ SetPublish(dc)
<1>1. ASSUME NEW c \in Channel, DevAuthorize(dc, c) PROVE Quiet(dc)
  BY <1>1 DEF Quiet, SetSpan, DevAuthorize, DevGoto, TypeOK, DevType, storeVars, tableVars, hostVars,
     ghostVars, noteVars
<1>2. CASE DevCheckCap(dc) \/ DevUpgradeFails(dc) \/ DevRead(dc) \/ DevForward(dc) \/ DevEnd(dc)
  BY <1>2 DEF Quiet, SetSpan, DevCheckCap, DevUpgradeFails, DevRead, DevForward, DevEnd, DevGoto,
     TypeOK, DevType, storeVars, tableVars, hostVars, ghostVars, noteVars
<1>3. CASE DevLookup(dc)
  BY <1>3 DEF Quiet, SetSpan, DevLookup, DevGoto, TypeOK, DevType, storeVars, tableVars, hostVars,
     noteVars
<1> QED
  BY <1>1, <1>2, <1>3 DEF DevNext

LEMMA NextHostTable == TypeOK /\ HostTableInv /\ [Next]_vars => HostTableInv'
<1> SUFFICES ASSUME TypeOK, HostTableInv, [Next]_vars PROVE HostTableInv'
  OBVIOUS
<1>1. ASSUME NEW hc \in HostConn, HostNext(hc) PROVE HostTableInv'
  <2>1. ASSUME NEW h \in Host, HostAttach(hc, h) PROVE HostTableInv'
    BY <2>1 DEF HostAttach, HostGoto, HostTableInv, TypeOK, TableType, HostType
  <2>2. CASE HostCleanup(hc)
    BY <2>2 DEF HostCleanup, HostGoto, HostTableInv, TypeOK, TableType, HostType
  <2>3. CASE /\ UNCHANGED <<hostConns, hhost>>
             /\ hpc[hc] # "idle"
             /\ \E v \in HostPc \ {"idle"} : hpc' = [hpc EXCEPT ![hc] = v]
    BY <2>3 DEF HostTableInv, TypeOK, TableType, HostType
  <2> QED
    BY <1>1, <2>1, <2>2, <2>3 DEF HostNext, tableVars, HostPc, HostGoto, HostReturn,
       HostListPairings, HostSnapLookup, HostSnapSend, HostRead, HostLookup,
       HostCheckAttached, HostForward, HostAppendMailbox, HostMaybePush, HostEnd
<1>2. CASE UNCHANGED <<hostConns, hpc, hhost>>
  BY <1>2 DEF HostTableInv
<1>3. RestNext \/ UNCHANGED vars => UNCHANGED <<hostConns, hpc, hhost>>
  BY RestTellSteps DEF vars, tableVars, hostVars
<1> QED
  BY <1>1, <1>2, <1>3, DevTellSteps DEF Next

LEMMA NextGoal == TypeOK /\ StoreIndexed /\ GoalInv /\ [Next]_vars => GoalInv'
<1> SUFFICES ASSUME TypeOK, StoreIndexed, GoalInv, [Next]_vars PROVE GoalInv'
  OBVIOUS
<1>1. ASSUME NEW dc \in DevConn, DevNext(dc) PROVE GoalInv'
  <2>1. dgoal'[dc] # "unknown" /\ (dpc'[dc] = "setPublish" => dpair'[dc].ch = dch'[dc])
    <3>1. CASE Quiet(dc)
      BY <3>1 DEF Quiet, SetSpan, GoalInv
    <3>2. CASE DevInsert(dc) \/ DevCleanup(dc) \/ SetLookup(dc)
      BY <3>2 DEF DevInsert, DevCleanup, SetLookup, DevGoto, GoalInv, TypeOK, DevType
    <3>3. CASE SetPut(dc) \/ SetPublish(dc)
      BY <3>3 DEF SetPut, SetPublish, DevGoto, AfterSet, GoalInv, TypeOK, DevType
    <3>4. CASE SetPairing(dc)
      <4>1. CASE DevGoto(dc, AfterSet(dc))
        BY <3>4, <4>1 DEF SetPairing, DevGoto, AfterSet, GoalInv, TypeOK, DevType
      <4>2. ASSUME NEW p \in PairingByChannel(dch[dc]), dpair' = [dpair EXCEPT ![dc] = p]
            PROVE  dgoal'[dc] # "unknown" /\ dpair'[dc].ch = dch'[dc]
        <5>1. p.ch = dch[dc]
          BY <4>2, ByChannelExact DEF TypeOK, DevType
        <5> QED
          BY <3>4, <4>2, <5>1 DEF SetPairing, GoalInv, TypeOK, DevType
      <4> QED
        BY <3>4, <4>1, <4>2 DEF SetPairing
    <3> QED
      BY <1>1, <3>1, <3>2, <3>3, <3>4, DevQuiet
  <2> QED
    BY <1>1, <2>1, DevTellSteps DEF GoalInv
<1>2. CASE UNCHANGED <<dpc, dch, dpair, dgoal>>
  BY <1>2 DEF GoalInv
<1>3. RestNext \/ UNCHANGED vars => UNCHANGED <<dpc, dch, dpair, dgoal>>
  BY RestTellSteps DEF vars, devVars
<1> QED
  BY <1>1, <1>2, <1>3, HostTellSteps DEF Next

LEMMA NextSpan ==
  TypeOK /\ StoreIndexed /\ GoalInv /\ Alone /\ Steady /\ [Next]_vars => Alone' /\ Steady'
<1> SUFFICES ASSUME TypeOK, StoreIndexed, GoalInv, Alone, Steady, [Next]_vars PROVE Alone' /\ Steady'
  OBVIOUS
<1> USE DEF Alone, Steady
<1>1. ASSUME NEW dc \in DevConn, DevNext(dc) PROVE Alone' /\ Steady'
  <2> DEFINE c == dch[dc]
  <2>1. c \in Channel /\ dgoal[dc] \in {"attached", "detached"}
    BY DEF TypeOK, DevType, GoalInv, Presence
  <2>2. /\ pairings' = pairings
        /\ \A d \in DevConn \ {dc} :
             /\ dpc'[d] = dpc[d] /\ dch'[d] = dch[d] /\ dpair'[d] = dpair[d]
             /\ dgoal'[d] = dgoal[d] /\ dold'[d] = dold[d]
    BY <1>1, DevTellSteps
  <2>3. \A d \in DevConn : dch[d] \in Channel
    BY DEF TypeOK, DevType
  <2> HIDE DEF c
  <2>4. CASE Quiet(dc)
    BY <2>2, <2>4 DEF Quiet
  <2>5. CASE DevInsert(dc)
    <3>1. /\ devConns' = [devConns EXCEPT ![c] = @ \cup {dc}] /\ devPres' = devPres
          /\ dch' = dch /\ dgoal'[dc] = "attached" /\ dpc[dc] = "insert"
      BY <2>5 DEF DevInsert, storeVars, c, TypeOK, DevType
    <3>2. \A k \in Channel \ {c} : devConns'[k] = devConns[k]
      BY <3>1 DEF TypeOK, TableType
    <3>3. CASE devConns[c] = {} /\ dpc'[dc] = "setLookup" /\ Overlap(c)
      <4>1. \A d \in DevConn : d # dc /\ dch[d] = c /\ dpc[d] \in SetSpan => c \in overlapped'
        BY <3>3 DEF Overlap, Publishing
      <4>2. overlapped \subseteq overlapped'
        BY <3>3 DEF Overlap
      <4>3. Alone'
        BY <2>2, <3>1, <3>3, <4>1, <4>2 DEF c
      <4>4. Steady'
        BY <2>2, <2>3, <3>1, <3>2, <3>3, <4>1, <4>2 DEF c
      <4> QED
        BY <4>3, <4>4
    <3>4. CASE devConns[c] # {} /\ dpc'[dc] = "read" /\ UNCHANGED overlapped
      <4>1. Alone'
        BY <2>2, <3>1, <3>4 DEF SetSpan
      <4>2. Steady'
        BY <2>2, <2>3, <3>1, <3>2, <3>4 DEF SetSpan
      <4> QED
        BY <4>1, <4>2
    <3> QED
      BY <2>5, <3>3, <3>4 DEF DevInsert, DevGoto, c, TypeOK, DevType
  <2>6. CASE DevCleanup(dc)
    <3>1. /\ devConns' = [devConns EXCEPT ![c] = @ \ {dc}] /\ devPres' = devPres
          /\ dch' = dch /\ dgoal'[dc] = "detached" /\ dpc[dc] = "cleanup"
      BY <2>6 DEF DevCleanup, storeVars, c, TypeOK, DevType
    <3>2. /\ \A k \in Channel \ {c} : devConns'[k] = devConns[k]
          /\ devConns'[c] = devConns[c] \ {dc}
      BY <2>1, <3>1 DEF TypeOK, TableType
    <3>3. CASE devConns[c] = {dc} /\ dpc'[dc] = "setLookup" /\ Overlap(c)
      <4>1. \A d \in DevConn : d # dc /\ dch[d] = c /\ dpc[d] \in SetSpan => c \in overlapped'
        BY <3>3 DEF Overlap, Publishing
      <4>2. overlapped \subseteq overlapped'
        BY <3>3 DEF Overlap
      <4>3. Alone'
        BY <2>2, <3>1, <3>3, <4>1, <4>2 DEF c
      <4>4. devConns'[c] = {}
        BY <3>2, <3>3
      <4>5. Steady'
        BY <2>2, <2>3, <3>1, <3>2, <3>3, <4>1, <4>2, <4>4 DEF c
      <4> QED
        BY <4>3, <4>5
    <3>4. CASE devConns[c] # {dc} /\ dpc'[dc] = "idle" /\ UNCHANGED overlapped
      <4>1. Alone'
        BY <2>2, <3>1, <3>4 DEF SetSpan
      <4>2. Steady'
        BY <2>2, <2>3, <3>1, <3>2, <3>4 DEF SetSpan
      <4> QED
        BY <4>1, <4>2
    <3> QED
      BY <2>6, <3>3, <3>4 DEF DevCleanup, DevGoto, c, TypeOK, DevType
  <2>7. CASE SetLookup(dc)
    <3>1. /\ dpc[dc] = "setLookup" /\ dpc'[dc] = "setPut" /\ dold'[dc] = devPres[c]
          /\ UNCHANGED <<dch, dgoal, devConns, devPres, overlapped>>
      BY <2>7 DEF SetLookup, DevGoto, c, storeVars, tableVars, ghostVars, noteVars, TypeOK, DevType
    <3> QED
      BY <2>2, <3>1 DEF SetSpan, c
  <2>8. CASE SetPut(dc)
    <3>1. /\ dpc[dc] = "setPut" /\ devPres' = [devPres EXCEPT ![c] = dgoal[dc]]
          /\ dpc'[dc] \in {"setPairing", "read", "idle"}
          /\ UNCHANGED <<dch, dgoal, devConns, overlapped>>
      BY <2>8 DEF SetPut, DevGoto, AfterSet, c, tableVars, ghostVars, noteVars, TypeOK, DevType
    <3>2. devPres'[c] = dgoal[dc] /\ \A k \in Channel \ {c} : devPres'[k] = devPres[k]
      BY <2>1, <3>1 DEF TypeOK, StoreType
    <3>3. Alone'
      BY <2>2, <3>1 DEF SetSpan
    <3>4. Steady'
      BY <2>2, <2>3, <3>1, <3>2 DEF SetSpan, c
    <3> QED
      BY <3>3, <3>4
  <2>9. CASE SetPairing(dc)
    <3>1. /\ dpc[dc] = "setPairing" /\ overlapped \subseteq overlapped'
          /\ dpc'[dc] = "setPublish" => dpair'[dc] \in pairings
          /\ dpc'[dc] \in {"setPublish", "read", "idle"}
          /\ UNCHANGED <<dch, dgoal, devConns, devPres>>
      BY <2>9 DEF SetPairing, DevGoto, AfterSet, PairingByChannel, storeVars, tableVars, TypeOK, DevType
    <3> QED
      BY <2>2, <3>1 DEF SetSpan
  <2>10. CASE SetPublish(dc)
    <3>1. /\ dpc[dc] = "setPublish" /\ dpc'[dc] \in {"read", "idle"}
          /\ UNCHANGED <<dch, dgoal, devConns, devPres>>
      BY <2>10 DEF SetPublish, DevGoto, AfterSet, storeVars, tableVars, TypeOK, DevType
    <3>2. \/ overlapped' = overlapped
          \/ overlapped' = overlapped \ {c} /\ Publishing(c) = {dc}
      BY <2>10 DEF SetPublish, Undisturbed, c
    <3>3. \A d \in DevConn : d # dc /\ dch[d] = c /\ dpc[d] \in SetSpan => overlapped' = overlapped
      BY <3>2 DEF Publishing
    <3>4. \A k \in Channel \ {c} : k \in overlapped <=> k \in overlapped'
      BY <3>2
    <3>5. Alone'
      BY <2>2, <2>3, <3>1, <3>3, <3>4 DEF SetSpan
    <3>6. Steady'
      BY <2>2, <2>3, <3>1, <3>3, <3>4 DEF SetSpan
    <3> QED
      BY <3>5, <3>6
  <2> QED
    BY <1>1, <2>4, <2>5, <2>6, <2>7, <2>8, <2>9, <2>10, DevQuiet
<1>2. ASSUME NEW x \in DelReq, DeletePairing(x), xpair[x] \in pairings PROVE Alone' /\ Steady'
  <2> DEFINE c == xpair[x].ch
  <2>1. /\ devPres' = [devPres EXCEPT ![c] = "unknown"] /\ pairings' = pairings \ {xpair[x]}
        /\ Overlap(c) /\ UNCHANGED <<dpc, dch, dpair, dgoal, dold, devConns>>
    BY <1>2 DEF DeletePairing, tableVars, devVars
  <2> HIDE DEF c
  <2>2. \A k \in Channel \ {c} : devPres'[k] = devPres[k]
    BY <2>1 DEF TypeOK, StoreType
  <2>3. /\ overlapped \subseteq overlapped'
        /\ \A d \in DevConn : dpc[d] \in SetSpan /\ dch[d] \notin overlapped' => dch[d] # c
    BY <2>1 DEF Overlap, Publishing
  <2>4. \A d \in DevConn : dch[d] \in Channel /\ (dpc[d] = "setPublish" => dpair[d].ch = dch[d])
    BY DEF TypeOK, DevType, GoalInv
  <2> QED
    BY <2>1, <2>2, <2>3, <2>4 DEF c
<1>3. ASSUME NEW x \in DelReq, DeleteTakeConns(x) PROVE Alone' /\ Steady'
  <2>1. \A k \in Channel : devConns'[k] \subseteq devConns[k]
    BY <1>3 DEF DeleteTakeConns, TypeOK, TableType
  <2>2. UNCHANGED <<pairings, devPres, dpc, dch, dpair, dgoal, dold, overlapped>>
    BY <1>3 DEF DeleteTakeConns, storeVars, devVars, noteVars
  <2>3. \A d \in DevConn : dch[d] \in Channel
    BY DEF TypeOK, DevType
  <2> QED
    BY <2>1, <2>2, <2>3
<1>4. CASE /\ pairings \subseteq pairings'
           /\ UNCHANGED <<devPres, devConns, dpc, dch, dpair, dgoal, dold, overlapped>>
  BY <1>4
<1>5. ASSUME RestNext
      PROVE  \/ \E x \in DelReq : DeletePairing(x) /\ xpair[x] \in pairings
             \/ \E x \in DelReq : DeleteTakeConns(x)
             \/ /\ pairings \subseteq pairings'
                /\ UNCHANGED <<devPres, devConns, dpc, dch, dpair, dgoal, dold, overlapped>>
  BY <1>5 DEF RestNext, storeVars, tableVars, devVars, ghostVars, noteVars, CreatePairing,
     DeleteLookup, DeletePairing, DeleteCloseConns, RegisterCheckOwner, RegisterPutToken
<1>6. ASSUME (\E hc \in HostConn : HostNext(hc)) \/ UNCHANGED vars
      PROVE  UNCHANGED <<pairings, devPres, devConns, dpc, dch, dpair, dgoal, dold, overlapped>>
  BY <1>6, HostTellSteps DEF vars, storeVars, tableVars, devVars, ghostVars, noteVars
<1> QED
  BY <1>1, <1>2, <1>3, <1>4, <1>5, <1>6 DEF Next

\* A channel's registration, and that there is none, agree with the lookup by channel.
LEMMA RegisteredExact ==
  ASSUME TypeOK, StoreIndexed, NEW c \in Channel
  PROVE  /\ Registered(c) <=> PairingByChannel(c) # {}
         /\ \A p \in pairings : p.ch = c => PairingByChannel(c) = {p}
<1>1. ASSUME NEW p \in pairings, p.ch = c PROVE PairingByChannel(c) = {p}
  BY <1>1 DEF PairingByChannel, StoreIndexed
<1>2. Registered(c) => PairingByChannel(c) # {}
  BY DEF PairingByChannel, StoreIndexed
<1>3. PairingByChannel(c) # {} => Registered(c)
  BY RouterAssumption DEF PairingByChannel, Registered, TypeOK, StoreType, Pairing
<1> QED
  BY <1>1, <1>2, <1>3

LEMMA NextRecord ==
  TypeOK /\ StoreIndexed /\ GoalInv /\ Alone /\ Steady /\ RecordInv /\ [Next]_vars => RecordInv'
<1> SUFFICES ASSUME TypeOK, StoreIndexed, GoalInv, Alone, Steady, RecordInv, [Next]_vars,
                    NEW c \in Channel, c \notin overlapped'
             PROVE  /\ devConns'[c] # {} /\ ~Revoking(c)' /\ devPres'[c] # "attached"
                         => Announces(c, {"setLookup", "setPut"})'
                    /\ ~Registered(c)' /\ devPres'[c] = "attached"
                         => Announces(c, {"setPairing"})'
  BY DEF RecordInv
<1> DEFINE OnRecord == devConns[c] # {} /\ ~Revoking(c) /\ devPres[c] # "attached"
                         => Announces(c, {"setLookup", "setPut"})
           Orphaned == ~Registered(c) /\ devPres[c] = "attached" => Announces(c, {"setPairing"})
<1>0. c \notin overlapped => OnRecord /\ Orphaned
  BY DEF RecordInv
<1> USE DEF Announces
<1>1. ASSUME NEW dc \in DevConn, DevNext(dc) PROVE OnRecord' /\ Orphaned'
  <2>1. /\ Registered(c)' = Registered(c) /\ Revoking(c)' = Revoking(c)
        /\ \A d \in DevConn \ {dc} :
             dpc'[d] = dpc[d] /\ dch'[d] = dch[d] /\ dgoal'[d] = dgoal[d]
    BY <1>1, DevTellSteps DEF Registered, Revoking
  <2>2. dch[dc] \in Channel /\ dgoal[dc] \in {"attached", "detached"}
    BY DEF TypeOK, DevType, GoalInv, Presence
  <2>3. CASE Quiet(dc)
    <3>1. OnRecord'
      BY <1>0, <2>1, <2>3 DEF Quiet, SetSpan
    <3>2. Orphaned'
      BY <1>0, <2>1, <2>3 DEF Quiet, SetSpan
    <3> QED
      BY <3>1, <3>2
  <2>4. CASE DevInsert(dc)
    <3>1. /\ dpc[dc] = "insert" /\ dch' = dch /\ dgoal'[dc] = "attached" /\ devPres' = devPres
          /\ devConns' = [devConns EXCEPT ![dch[dc]] = @ \cup {dc}]
          /\ overlapped \subseteq overlapped'
          /\ dpc'[dc] = IF devConns[dch[dc]] = {} THEN "setLookup" ELSE "read"
      BY <2>4 DEF DevInsert, DevGoto, Overlap, storeVars, TypeOK, DevType
    <3>2. dch[dc] # c => devConns'[c] = devConns[c]
      BY <3>1 DEF TypeOK, TableType
    <3>3. OnRecord'
      BY <1>0, <2>1, <3>1, <3>2
    <3>4. Orphaned'
      BY <1>0, <2>1, <3>1
    <3> QED
      BY <3>3, <3>4
  <2>5. CASE DevCleanup(dc)
    <3>1. /\ dpc[dc] = "cleanup" /\ dch' = dch /\ devPres' = devPres
          /\ devConns' = [devConns EXCEPT ![dch[dc]] = @ \ {dc}]
          /\ overlapped \subseteq overlapped'
      BY <2>5 DEF DevCleanup, Overlap, storeVars
    <3>2. devConns'[c] \subseteq devConns[c]
      BY <3>1 DEF TypeOK, TableType
    <3>3. OnRecord'
      BY <1>0, <2>1, <3>1, <3>2
    <3>4. Orphaned'
      BY <1>0, <2>1, <3>1
    <3> QED
      BY <3>3, <3>4
  <2>6. CASE SetLookup(dc)
    <3>1. /\ dpc[dc] = "setLookup" /\ dpc'[dc] = "setPut"
          /\ UNCHANGED <<dch, dgoal, devPres, devConns, overlapped>>
      BY <2>6 DEF SetLookup, DevGoto, storeVars, tableVars, ghostVars, noteVars, TypeOK, DevType
    <3>2. OnRecord'
      BY <1>0, <2>1, <3>1
    <3>3. Orphaned'
      BY <1>0, <2>1, <3>1
    <3> QED
      BY <3>2, <3>3
  <2>7. CASE SetPut(dc)
    <3>1. /\ dpc[dc] = "setPut" /\ devPres' = [devPres EXCEPT ![dch[dc]] = dgoal[dc]]
          /\ UNCHANGED <<dch, dgoal, devConns, overlapped>>
      BY <2>7 DEF SetPut, tableVars, ghostVars, noteVars
    <3>2. CASE dch[dc] # c
      <4>1. devPres'[c] = devPres[c]
        BY <3>1, <3>2 DEF TypeOK, StoreType
      <4>2. OnRecord'
        BY <1>0, <2>1, <3>1, <3>2, <4>1
      <4>3. Orphaned'
        BY <1>0, <2>1, <3>1, <3>2, <4>1
      <4> QED
        BY <4>2, <4>3
    <3>3. CASE dch[dc] = c
      <4>1. devPres'[c] = dgoal[dc] /\ dold[dc] = devPres[c]
        BY <2>2, <3>1, <3>3 DEF Steady, SetSpan, TypeOK, StoreType
      <4>2. dgoal[dc] = "detached" => devConns[c] = {}
        BY <3>1, <3>3 DEF Steady, SetSpan
      <4>3. OnRecord'
        BY <2>2, <3>1, <4>1, <4>2
      <4>4. Orphaned'
        <5>1. SUFFICES ASSUME ~Registered(c), dgoal[dc] = "attached"
                       PROVE  dpc'[dc] = "setPairing"
          BY <2>1, <3>1, <3>3, <4>1
        <5>2. devPres[c] # "attached"
          BY <1>0, <3>1, <3>3, <5>1 DEF Alone, SetSpan
        <5> QED
          BY <2>7, <4>1, <5>1, <5>2 DEF SetPut, DevGoto, TypeOK, DevType
      <4> QED
        BY <4>3, <4>4
    <3> QED
      BY <3>2, <3>3
  <2>8. CASE SetPairing(dc)
    <3>1. /\ dpc[dc] = "setPairing" /\ UNCHANGED <<dch, dgoal, devPres, devConns>>
          /\ overlapped \subseteq overlapped'
          /\ PairingByChannel(dch[dc]) = {} /\ dgoal[dc] = "attached" => dch[dc] \in overlapped'
      BY <2>8 DEF SetPairing, storeVars, tableVars
    <3>2. OnRecord'
      BY <1>0, <2>1, <3>1
    <3>3. Orphaned'
      BY <1>0, <2>1, <3>1, RegisteredExact
    <3> QED
      BY <3>2, <3>3
  <2>9. CASE SetPublish(dc)
    <3>1. /\ dpc[dc] = "setPublish" /\ UNCHANGED <<dch, dgoal, devPres, devConns>>
          /\ dpair[dc].ch = dch[dc]
      BY <2>9 DEF SetPublish, storeVars, tableVars, GoalInv
    <3>2. CASE c \notin overlapped
      <4>1. OnRecord'
        BY <1>0, <2>1, <3>1, <3>2
      <4>2. Orphaned'
        BY <1>0, <2>1, <3>1, <3>2
      <4> QED
        BY <4>1, <4>2
    <3>3. CASE c \in overlapped
      <4>1. dch[dc] = c /\ devPres[c] = "attached" /\ dpair[dc] \in pairings
        BY <2>9, <3>3 DEF SetPublish, Undisturbed
      <4>2. Registered(c)
        BY <3>1, <4>1, RegisteredExact
      <4> QED
        BY <2>1, <3>1, <4>1, <4>2
    <3> QED
      BY <3>2, <3>3
  <2> QED
    BY <1>1, <2>3, <2>4, <2>5, <2>6, <2>7, <2>8, <2>9, DevQuiet
<1>2. ASSUME NEW id \in PairingId, NEW k \in Channel, NEW h \in Host, NEW d \in Device,
             CreatePairing(id, k, h, d)
      PROVE  OnRecord' /\ Orphaned'
  <2>1. /\ byChannel' = [byChannel EXCEPT ![k] = id]
        /\ UNCHANGED <<devPres, devConns, dpc, dch, dgoal, xpc, xpair, overlapped>>
    BY <1>2 DEF CreatePairing, tableVars, devVars, restVars, noteVars
  <2>2. Registered(c) => Registered(c)'
    BY <2>1, RouterAssumption DEF Registered, TypeOK, StoreType
  <2>3. Revoking(c)' = Revoking(c)
    BY <2>1 DEF Revoking
  <2> QED
    BY <1>0, <2>1, <2>2, <2>3
<1>3. ASSUME NEW x \in DelReq, DeletePairing(x) PROVE OnRecord' /\ Orphaned'
  <2>1. /\ xpc' = [xpc EXCEPT ![x] = "take"] /\ xpc[x] = "delete"
        /\ UNCHANGED <<devConns, dpc, dch, dgoal, xpair>>
    BY <1>3 DEF DeletePairing, tableVars, devVars
  <2>2. Revoking(c) => Revoking(c)'
    BY <2>1 DEF Revoking, TypeOK, RestType
  <2>3. CASE xpair[x] \notin pairings \/ xpair[x].ch # c
    <3>1. devPres'[c] = devPres[c] /\ byChannel'[c] = byChannel[c] /\ overlapped \subseteq overlapped'
      BY <1>3, <2>3 DEF DeletePairing, Overlap, TypeOK, StoreType
    <3> QED
      BY <1>0, <2>1, <2>2, <3>1 DEF Registered
  <2>4. CASE xpair[x] \in pairings /\ xpair[x].ch = c
    <3>1. devPres'[c] = "unknown"
      BY <1>3, <2>4 DEF DeletePairing, TypeOK, StoreType
    <3>2. Revoking(c)'
      BY <2>1, <2>4 DEF Revoking, TypeOK, RestType
    <3> QED
      BY <3>1, <3>2
  <2> QED
    BY <2>3, <2>4
<1>4. ASSUME NEW x \in DelReq, DeleteTakeConns(x) PROVE OnRecord' /\ Orphaned'
  <2>1. /\ devConns' = [devConns EXCEPT ![xpair[x].ch] = {}] /\ xpc' = [xpc EXCEPT ![x] = "close"]
        /\ UNCHANGED <<devPres, byChannel, dpc, dch, dgoal, xpair, overlapped>>
    BY <1>4 DEF DeleteTakeConns, storeVars, devVars, noteVars
  <2>2. CASE xpair[x].ch = c
    <3>1. devConns'[c] = {}
      BY <2>1, <2>2 DEF TypeOK, TableType
    <3> QED
      BY <1>0, <2>1, <3>1 DEF Registered
  <2>3. CASE xpair[x].ch # c
    <3>1. devConns'[c] = devConns[c] /\ (Revoking(c) => Revoking(c)')
      BY <2>1, <2>3 DEF Revoking, TypeOK, TableType, RestType
    <3> QED
      BY <1>0, <2>1, <3>1 DEF Registered
  <2> QED
    BY <2>2, <2>3
<1>5. ASSUME NEW x \in DelReq, DeleteLookup(x) \/ DeleteCloseConns(x) PROVE OnRecord' /\ Orphaned'
  <2>1. UNCHANGED <<byChannel, devPres, devConns, dpc, dch, dgoal, overlapped>>
    BY <1>5 DEF DeleteLookup, DeleteCloseConns, storeVars, tableVars, devVars, ghostVars, noteVars
  <2>2. /\ xpc[x] # "take" /\ \A y \in DelReq \ {x} : xpc'[y] = xpc[y] /\ xpair'[y] = xpair[y]
    BY <1>5 DEF DeleteLookup, DeleteCloseConns, TypeOK, RestType
  <2>3. Revoking(c) => Revoking(c)'
    BY <2>2 DEF Revoking
  <2> QED
    BY <1>0, <2>1, <2>3 DEF Registered
<1>6. CASE UNCHANGED <<byChannel, devPres, devConns, dpc, dch, dgoal, overlapped, xpc, xpair>>
  BY <1>0, <1>6 DEF Registered, Revoking
<1>7. ASSUME \E d \in TokenDevice : RegisterCheckOwner(d) \/ RegisterPutToken(d)
      PROVE  UNCHANGED <<byChannel, devPres, devConns, dpc, dch, dgoal, overlapped, xpc, xpair>>
  BY <1>7 DEF RegisterCheckOwner, RegisterPutToken, storeVars, tableVars, devVars, ghostVars, noteVars
<1>8. ASSUME (\E hc \in HostConn : HostNext(hc)) \/ UNCHANGED vars
      PROVE  UNCHANGED <<byChannel, devPres, devConns, dpc, dch, dgoal, overlapped, xpc, xpair>>
  BY <1>8, HostTellSteps DEF vars, storeVars, tableVars, devVars, restVars, ghostVars, noteVars
<1>9. OnRecord' /\ Orphaned'
  BY <1>1, <1>2, <1>3, <1>4, <1>5, <1>6, <1>7, <1>8 DEF Next, RestNext
<1> QED
  BY <1>9

\* A host step leaves a connection that has word, or is about to read it, so.
LEMMA HostWord ==
  ASSUME TypeOK, HostTableInv, NEW hc \in HostConn, HostNext(hc), NEW p \in pairings,
         NEW hd \in hostConns'[p.host], devPres[p.ch] = "attached",
         hd \in hostConns[p.host] => Word(hd, p.ch) = "attached" \/ SnapshotToCome(hd, p.ch)
  PROVE  (Word(hd, p.ch) = "attached" \/ SnapshotToCome(hd, p.ch))'
<1> USE DEF Word, SnapshotToCome
<1>0. p \in Pairing /\ p.ch \in Channel /\ p.host \in Host
  BY DEF TypeOK, StoreType, Pairing
<1>1. ASSUME NEW h \in Host, HostAttach(hc, h) PROVE (Word(hd, p.ch) = "attached" \/ SnapshotToCome(hd, p.ch))'
  BY <1>0, <1>1 DEF HostAttach, HostGoto, TypeOK, TableType, HostType
<1>2. CASE HostListPairings(hc)
  <2> DEFINE todo == {q.ch : q \in {r \in pairings : r.host = hhost[hc]}}
  <2>1. /\ hpc' = [hpc EXCEPT ![hc] = IF todo = {} THEN "read" ELSE "snap"]
        /\ snapTodo' = [snapTodo EXCEPT ![hc] = todo]
        /\ UNCHANGED <<hostConns, hhost, snap, told>>
    BY <1>2 DEF HostListPairings, HostGoto, tableVars
  <2>2. hd = hc => p.ch \in todo
    BY <1>0, <2>1 DEF HostTableInv
  <2> HIDE DEF todo
  <2> QED
    BY <2>1, <2>2 DEF TypeOK, HostType
<1>3. ASSUME NEW c \in Channel, HostSnapLookup(hc, c) PROVE (Word(hd, p.ch) = "attached" \/ SnapshotToCome(hd, p.ch))'
  BY <1>0, <1>3 DEF HostSnapLookup, HostGoto, tableVars, TypeOK, HostType
<1>4. CASE HostSnapSend(hc)
  <2>1. /\ told' = [told EXCEPT ![hc] = [@ EXCEPT ![snap[hc].ch] = snap[hc].val]]
        /\ hpc[hc] = "snapSend" /\ hpc'[hc] \in {"read", "snap"}
        /\ hpc'[hc] = "read" => snapTodo[hc] = {}
        /\ \A k \in HostConn \ {hc} : hpc'[k] = hpc[k] /\ snap'[k] = snap[k] /\ told'[k] = told[k]
        /\ UNCHANGED <<hostConns, snapTodo>>
    BY <1>4 DEF HostSnapSend, HostGoto, tableVars, TypeOK, HostType
  <2>2. told'[hc][p.ch] = Word(hc, p.ch)
    <3>1. told[hc] \in [Channel -> Presence] /\ snap[hc].ch \in Channel
      BY DEF TypeOK, HostType
    <3>2. told'[hc] = [told[hc] EXCEPT ![snap[hc].ch] = snap[hc].val]
      BY <2>1 DEF TypeOK, HostType
    <3> QED
      BY <1>0, <2>1, <3>1, <3>2
  <2>3. hd \in HostConn /\ hd \in hostConns[p.host]
    BY <1>0, <2>1 DEF TypeOK, TableType
  <2>4. CASE hd = hc
    BY <2>1, <2>2, <2>3, <2>4
  <2>5. CASE hd # hc
    BY <2>1, <2>3, <2>5
  <2> QED
    BY <2>4, <2>5
<1>5. CASE HostCleanup(hc)
  BY <1>0, <1>5 DEF HostCleanup, HostGoto, HostTableInv, TypeOK, TableType, HostType
<1>6. CASE /\ UNCHANGED <<hostConns, snapTodo, snap, told>>
           /\ hpc[hc] \in {"read", "lookup", "check", "forward", "append", "push"}
           /\ \E v \in {"read", "lookup", "check", "forward", "append", "push", "cleanup"} :
                hpc' = [hpc EXCEPT ![hc] = v]
  BY <1>6 DEF TypeOK, HostType
<1> QED
  BY <1>1, <1>2, <1>3, <1>4, <1>5, <1>6 DEF HostNext, HostPc, HostGoto, HostReturn, HostRead,
     HostLookup, HostCheckAttached, HostForward, HostAppendMailbox, HostMaybePush, HostEnd, tableVars

\* A device's attach that is published reaches every connection of its host.
LEMMA PublishWord ==
  ASSUME TypeOK, StoreIndexed, GoalInv, NEW dc \in DevConn, SetPublish(dc), dgoal[dc] = "attached",
         NEW p \in pairings, p.ch = dch[dc], dpair[dc] \in pairings,
         NEW hc \in hostConns[p.host], <<hc, p.ch>> \notin overtaken'
  PROVE  Word(hc, p.ch)' = "attached"
<1>1. dpair[dc] = p
  <2>1. dpair[dc].ch = p.ch
    BY DEF SetPublish, GoalInv
  <2> QED
    BY <2>1 DEF StoreIndexed
<1>2. p.ch \in Channel /\ p.host \in Host /\ hc \in HostConn
  BY DEF TypeOK, StoreType, TableType, Pairing
<1>3. told'[hc] = [told[hc] EXCEPT ![p.ch] = "attached"] /\ UNCHANGED <<hpc, snap>>
  BY <1>1, <1>2 DEF SetPublish
<1>4. told'[hc][p.ch] = "attached"
  BY <1>2, <1>3 DEF TypeOK, HostType
<1>5. ~Outdated(hc, dc)
  BY <1>1, <1>2 DEF SetPublish
<1> QED
  BY <1>3, <1>4, <1>5 DEF Word, Outdated

LEMMA NextWord ==
  /\ TypeOK /\ StoreIndexed /\ HostTableInv /\ GoalInv /\ Alone /\ Steady /\ RecordInv /\ WordInv
  /\ [Next]_vars
  => WordInv'
<1> SUFFICES ASSUME TypeOK, StoreIndexed, HostTableInv, GoalInv, Alone, Steady, RecordInv, WordInv,
                    [Next]_vars,
                    NEW p \in pairings', NEW hc \in hostConns'[p.host],
                    p.ch \notin overlapped', <<hc, p.ch>> \notin overtaken',
                    devPres'[p.ch] = "attached"
             PROVE  \/ (Word(hc, p.ch) = "attached" \/ SnapshotToCome(hc, p.ch))'
                    \/ Announces(p.ch, {"setPairing", "setPublish"})'
  BY DEF WordInv
<1> DEFINE c == p.ch
           Has == Word(hc, c) = "attached" \/ SnapshotToCome(hc, c)
           Coming == Announces(c, {"setPairing", "setPublish"})
<1>0. TypeOK'
  BY NextType
<1>00. c \in Channel /\ p.host \in Host /\ hc \in HostConn
  BY <1>0 DEF TypeOK, StoreType, TableType, Pairing
<1>000. ASSUME p \in pairings, hc \in hostConns[p.host], c \notin overlapped, <<hc, c>> \notin overtaken,
               devPres[c] = "attached"
        PROVE  Has \/ Coming
  BY <1>000 DEF WordInv
<1> HIDE DEF c, Has, Coming
<1> SUFFICES Has' \/ Coming'
  BY DEF c, Has, Coming
<1>1. ASSUME NEW hd \in HostConn, HostNext(hd) PROVE Has' \/ Coming'
  <2>1. UNCHANGED <<pairings, devPres, dpc, dch, dgoal, overlapped>>
    BY <1>1, HostTellSteps
  <2>2. Coming' = Coming
    BY <2>1 DEF Coming, Announces, c
  <2>3. hc \in hostConns[p.host] => <<hc, c>> \notin overtaken
    <3>1. CASE HostCleanup(hd)
      <4>1. hc \in hostConns[p.host] => hc # hd
        BY <1>00, <3>1 DEF HostCleanup, HostTableInv, TypeOK, TableType
      <4> QED
        BY <1>00, <3>1, <4>1 DEF HostCleanup, c
    <3>2. CASE UNCHANGED overtaken
      BY <3>2 DEF c
    <3> QED
      BY <1>1, <3>1, <3>2 DEF HostNext, ghostVars, noteVars, HostAttach, HostListPairings,
         HostSnapLookup, HostSnapSend, HostRead, HostLookup, HostCheckAttached, HostForward,
         HostAppendMailbox, HostMaybePush, HostEnd
  <2>4. hc \in hostConns[p.host] => Has \/ Coming
    BY <1>000, <2>1, <2>3 DEF c
  <2>5. CASE hc \in hostConns[p.host] => Has
    BY <1>1, <2>1, <2>5, HostWord DEF Has, c
  <2> QED
    BY <2>2, <2>4, <2>5
<1>2. ASSUME NEW dc \in DevConn, DevNext(dc) PROVE Has' \/ Coming'
  <2>1. /\ UNCHANGED <<pairings, byChannel, hostConns, hpc, hhost, snapTodo, snap>>
        /\ \A d \in DevConn \ {dc} :
             dpc'[d] = dpc[d] /\ dch'[d] = dch[d] /\ dgoal'[d] = dgoal[d]
    BY <1>2, DevTellSteps
  <2>2. dch[dc] \in Channel /\ dgoal[dc] \in {"attached", "detached"}
    BY DEF TypeOK, DevType, GoalInv, Presence
  <2>3. ASSUME UNCHANGED <<told, devPres, overtaken>>, overlapped \subseteq overlapped',
               dpc[dc] \notin {"setPairing", "setPublish"}
        PROVE  Has' \/ Coming'
    <3>1. Has \/ Coming
      BY <1>000, <2>1, <2>3 DEF c
    <3>2. Has => Has'
      BY <2>1, <2>3 DEF Has, Word, SnapshotToCome, c
    <3>3. Coming => Coming'
      BY <2>1, <2>3 DEF Coming, Announces, c
    <3> QED
      BY <3>1, <3>2, <3>3
  <2>4. CASE Quiet(dc)
    BY <2>3, <2>4 DEF Quiet, SetSpan
  <2>5. CASE DevInsert(dc) \/ DevCleanup(dc) \/ SetLookup(dc)
    BY <2>3, <2>5 DEF DevInsert, DevCleanup, SetLookup, Overlap, storeVars, hostVars, ghostVars, noteVars
  <2>6. CASE SetPut(dc)
    <3>1. /\ dpc[dc] = "setPut" /\ devPres' = [devPres EXCEPT ![dch[dc]] = dgoal[dc]]
          /\ UNCHANGED <<dch, dgoal, told, overlapped, overtaken>>
      BY <2>6 DEF SetPut, hostVars, ghostVars, noteVars
    <3>2. CASE devPres[c] = "attached"
      <4>1. Has \/ Coming
        BY <1>000, <2>1, <3>1, <3>2 DEF c
      <4>2. Has => Has'
        BY <2>1, <3>1 DEF Has, Word, SnapshotToCome, c
      <4>3. Coming => Coming'
        BY <2>1, <3>1 DEF Coming, Announces, c
      <4> QED
        BY <4>1, <4>2, <4>3
    <3>3. CASE devPres[c] # "attached"
      <4>1. dch[dc] = c /\ dgoal[dc] = "attached"
        BY <1>00, <2>2, <3>1, <3>3 DEF c, TypeOK, StoreType
      <4>2. dold[dc] = devPres[c]
        BY <3>1, <4>1 DEF Steady, SetSpan, c
      <4>3. dpc'[dc] = "setPairing"
        BY <2>6, <3>3, <4>1, <4>2 DEF SetPut, DevGoto, TypeOK, DevType
      <4> QED
        BY <3>1, <4>1, <4>3 DEF Coming, Announces
    <3> QED
      BY <3>2, <3>3
  <2>7. CASE SetPairing(dc)
    <3>1. /\ dpc[dc] = "setPairing" /\ overlapped \subseteq overlapped'
          /\ UNCHANGED <<dch, dgoal, told, devPres, overtaken>>
      BY <2>7 DEF SetPairing, storeVars, hostVars
    <3>2. Has \/ Coming
      BY <1>000, <2>1, <3>1 DEF c
    <3>3. Has => Has'
      BY <2>1, <3>1 DEF Has, Word, SnapshotToCome, c
    <3>4. dch[dc] = c => dpc'[dc] = "setPublish"
      <4>1. dch[dc] = c => PairingByChannel(c) # {}
        BY <1>00, <2>1, RegisteredExact DEF c
      <4> QED
        BY <2>7, <4>1 DEF SetPairing, DevGoto, TypeOK, DevType
    <3>5. Coming => Coming'
      BY <2>1, <3>1, <3>4 DEF Coming, Announces
    <3> QED
      BY <3>2, <3>3, <3>5
  <2>8. CASE SetPublish(dc)
    <3>1. /\ dpc[dc] = "setPublish" /\ dpair[dc].ch = dch[dc]
          /\ UNCHANGED <<dch, dgoal, devPres>>
      BY <2>8 DEF SetPublish, storeVars, GoalInv
    <3>2. CASE dch[dc] # c
      <4>1. told'[hc][c] = told[hc][c]
        BY <1>00, <2>2, <2>8, <3>2 DEF SetPublish, TypeOK, HostType
      <4>2. c \notin overlapped /\ <<hc, c>> \notin overtaken
        BY <2>8, <3>2 DEF SetPublish, c
      <4>3. Has \/ Coming
        BY <1>000, <2>1, <3>1, <4>2 DEF c
      <4>4. Has => Has'
        BY <2>1, <4>1 DEF Has, Word, SnapshotToCome
      <4>5. Coming => Coming'
        BY <2>1, <3>1, <3>2 DEF Coming, Announces
      <4> QED
        BY <4>3, <4>4, <4>5
    <3>3. CASE dch[dc] = c
      <4>1. dgoal[dc] = "attached" /\ dpair[dc] \in pairings
        <5>1. CASE c \notin overlapped
          BY <3>1, <3>3, <5>1 DEF Steady, SetSpan, c
        <5>2. CASE c \in overlapped
          BY <2>8, <3>3, <5>2 DEF SetPublish, Undisturbed, c
        <5> QED
          BY <5>1, <5>2
      <4>2. p \in pairings /\ hc \in hostConns[p.host]
        BY <2>1
      <4> QED
        BY <2>8, <3>3, <4>1, <4>2, PublishWord DEF Has, c
    <3> QED
      BY <3>2, <3>3
  <2> QED
    BY <1>2, <2>4, <2>5, <2>6, <2>7, <2>8, DevQuiet
<1>3. ASSUME RestNext PROVE Has' \/ Coming'
  <2>1. UNCHANGED <<hostConns, hostVars, dpc, dch, dgoal, overtaken>>
    BY <1>3, RestTellSteps
  <2>2. Has' = Has /\ Coming' = Coming
    BY <2>1 DEF Has, Coming, Word, SnapshotToCome, Announces, hostVars, c
  <2>3. overlapped \subseteq overlapped'
    BY <1>3 DEF RestNext, ghostVars, noteVars, CreatePairing, DeleteLookup, DeletePairing, Overlap,
       DeleteTakeConns, DeleteCloseConns, RegisterCheckOwner, RegisterPutToken
  <2>4. devPres[c] = "attached"
    <3>1. ASSUME NEW x \in DelReq, DeletePairing(x) PROVE devPres[c] = "attached"
      BY <1>00, <3>1 DEF DeletePairing, TypeOK, StoreType, c
    <3>2. CASE UNCHANGED devPres
      BY <3>2 DEF c
    <3> QED
      BY <1>3, <3>1, <3>2 DEF RestNext, storeVars, CreatePairing, DeleteLookup, DeleteTakeConns,
         DeleteCloseConns, RegisterCheckOwner, RegisterPutToken
  <2>5. CASE p \in pairings
    BY <1>000, <2>1, <2>2, <2>3, <2>4, <2>5 DEF c
  <2>6. CASE p \notin pairings
    <3>1. PICK id \in PairingId, k \in Channel, h \in Host, d \in Device : CreatePairing(id, k, h, d)
      BY <1>3, <2>6 DEF RestNext, storeVars, DeleteLookup, DeletePairing, DeleteTakeConns,
         DeleteCloseConns, RegisterCheckOwner, RegisterPutToken
    <3>2. k = c /\ ~Registered(c)
      BY <2>6, <3>1 DEF CreatePairing, c
    <3>3. Announces(c, {"setPairing"})
      BY <1>00, <2>3, <2>4, <3>2 DEF RecordInv, c
    <3>4. Coming
      BY <3>3 DEF Announces, Coming
    <3> QED
      BY <2>2, <3>4
  <2> QED
    BY <2>5, <2>6
<1>4. CASE UNCHANGED vars
  <2>1. UNCHANGED <<pairings, hostConns, hostVars, dpc, dch, dgoal, devPres, overlapped, overtaken>>
    BY <1>4 DEF vars, storeVars, tableVars, devVars, ghostVars, noteVars
  <2>2. Has' = Has /\ Coming' = Coming
    BY <2>1 DEF Has, Coming, Word, SnapshotToCome, Announces, hostVars, c
  <2> QED
    BY <1>000, <2>1, <2>2 DEF c
<1> QED
  BY <1>1, <1>2, <1>3, <1>4 DEF Next

\* Once handlers have settled, a reading host connection was last told "attached" of a
\* channel of its host that has a socket, over any revocations and re-registrations and
\* however the attach, the snapshot and the broadcasts interleave: unless the channel's
\* last transition was overlapped, or a snapshot was queued after a newer transition.
THEOREM HostsAreTold == Spec => []HostToldOfDevice
<1> DEFINE Inv == /\ HostTableInv /\ GoalInv /\ Alone /\ Steady /\ RecordInv /\ WordInv
<1>1. Init => Inv
  BY DEF Init, HostTableInv, GoalInv, Alone, Steady, RecordInv, WordInv, SetSpan
<1>2. TypeOK /\ StoreIndexed /\ Inv /\ [Next]_vars => Inv'
  BY NextHostTable, NextGoal, NextSpan, NextRecord, NextWord
<1>3. TypeOK /\ Inv => HostToldOfDevice
  <2> SUFFICES ASSUME TypeOK, Inv, Quiescent, NEW hc \in HostConn, NEW p \in pairings,
                      hpc[hc] = "read", p.host = hhost[hc], deviceAttachedNow(p.ch),
                      p.ch \notin overlapped, <<hc, p.ch>> \notin overtaken
               PROVE  told[hc][p.ch] = "attached"
    BY DEF HostToldOfDevice
  <2>1. p.ch \in Channel /\ hc \in hostConns[p.host]
    BY DEF TypeOK, StoreType, Pairing, HostTableInv
  <2>2. \A pcs \in SUBSET SetSpan : ~Announces(p.ch, pcs)
    BY DEF Quiescent, Announces, SetSpan
  <2>3. ~Revoking(p.ch)
    BY DEF Quiescent, Revoking
  <2>4. devPres[p.ch] = "attached"
    BY <2>1, <2>2, <2>3 DEF RecordInv, SetSpan, deviceAttachedNow
  <2>5. Word(hc, p.ch) = "attached" \/ SnapshotToCome(hc, p.ch)
    BY <2>1, <2>2, <2>4 DEF WordInv, SetSpan
  <2> QED
    BY <2>5 DEF Word, SnapshotToCome
<1> QED
  BY <1>1, <1>2, <1>3, TypeCorrect, RegistrationsIndexed, PTL DEF Spec
=============================================================================
