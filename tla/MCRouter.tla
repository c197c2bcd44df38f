------------------------------ MODULE MCRouter ------------------------------
(* Model checking of Router.  Hosts, connections, DELETE requests and pairing *)
(* ids are interchangeable model values (the host an unused handler names in  *)
(* Init is read by nobody).                                                   *)
EXTENDS Router, TLC

Symmetry ==
  UNION {Permutations(Host), Permutations(HostConn), Permutations(DevConn),
         Permutations(PairingId), Permutations(DelReq)}

\* The host frames in hand.
InHand == {hframe[hc] : hc \in Routing \cap HostConn}

\* Three bounds: one socket at a time, one registration and one DELETE at a time, and no
\* push token and plain frames only.
OneSocket == Cardinality({dc \in DevConn : dpc[dc] # "idle"}) <= 1

OneRegistration ==
  /\ Cardinality(usedIds) <= 1
  /\ Cardinality({p.host : p \in pairings} \cup {hhost[hc] : hc \in HostConn}) <= 1
  /\ Cardinality({x \in DelReq : xpc[x] # "idle"}) <= 1

NoPush ==
  /\ apns = {} /\ apnsReq = {}
  /\ \A f \in InHand : f.push = "none" /\ ~f.big

\* A host frame is still to come or in hand.  What a frame leaves behind (its fate, the
\* mailbox) is read by later frames only: after the last one everything repeats.
FrameToCome == sent < MaxSeq \/ InHand # {}

\* The run's three questions: registrations of two hosts under concurrent DELETEs, two
\* sockets of a channel, and pushes for frames of any size.  Each lifts one bound.
Focus ==
  /\ FrameToCome
  /\ \/ OneSocket /\ NoPush
     \/ OneRegistration /\ NoPush
     \/ OneRegistration /\ OneSocket
=============================================================================
