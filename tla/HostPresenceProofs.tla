------------------------- MODULE HostPresenceProofs -------------------------
(***************************************************************************)
(* Proofs about HostPresence, for any number of host connections, timer    *)
(* callbacks and devices and any OfflineAfter.                             *)
(***************************************************************************)
EXTENDS HostPresence, TLAPS

LEMMA NextType == TypeOK /\ [Next]_vars => TypeOK'
<1> SUFFICES ASSUME TypeOK, [Next]_vars PROVE TypeOK'
  OBVIOUS
<1> USE PresenceAssumption DEF TypeOK, Record, NoRecord, HostPc, CbPc, hostVars, cbVars, devVars, obsVars
<1>1. CASE Tick
  BY <1>1 DEF Tick
<1>2. ASSUME NEW hc \in HostConn, TouchStart(hc) PROVE TypeOK'
  BY <1>2 DEF TouchStart, HostGoto
<1>3. ASSUME NEW hc \in HostConn, TouchLookup(hc) PROVE TypeOK'
  BY <1>3 DEF TouchLookup, HostGoto
<1>4. ASSUME NEW hc \in HostConn, TouchPut(hc) PROVE TypeOK'
  BY <1>4 DEF TouchPut, HostGoto
<1>5. ASSUME NEW hc \in HostConn, TouchBroadcast(hc) PROVE TypeOK'
  BY <1>5 DEF TouchBroadcast, HostGoto, Broadcast
<1>6. ASSUME NEW hc \in HostConn, TouchArm(hc) PROVE TypeOK'
  BY <1>6 DEF TouchArm, HostGoto
<1>7. ASSUME NEW cb \in Callback, TimerFire(cb) PROVE TypeOK'
  BY <1>7 DEF TimerFire, CbGoto
<1>8. ASSUME NEW cb \in Callback, DeadlineLookup(cb) PROVE TypeOK'
  BY <1>8 DEF DeadlineLookup, CbGoto
<1>9. ASSUME NEW cb \in Callback, DeadlineDecide(cb) PROVE TypeOK'
  <2>1. CASE Silent(cb) < OfflineAfter
    <3>1. crem' = [crem EXCEPT ![cb] = OfflineAfter - Silent(cb)] /\ CbGoto(cb, "rearm") /\ UNCHANGED crec
      BY <1>9, <2>1 DEF DeadlineDecide, Silent
    <3>2. OfflineAfter - Silent(cb) \in 1..OfflineAfter
      BY <2>1 DEF Silent
    <3>3. UNCHANGED <<clock, rec, timer, hostVars, devVars, told, obsVars>>
      BY <1>9 DEF DeadlineDecide
    <3> QED
      BY <3>1, <3>2, <3>3 DEF CbGoto
  <2>2. CASE CbReturn(cb)
    BY <1>9, <2>2 DEF DeadlineDecide, CbReturn, CbGoto
  <2>3. CASE CbGoto(cb, "put") /\ UNCHANGED <<crec, crem>>
    BY <1>9, <2>3 DEF DeadlineDecide, CbGoto
  <2> QED
    BY <1>9, <2>1, <2>2, <2>3 DEF DeadlineDecide
<1>10. ASSUME NEW cb \in Callback, DeadlineRearm(cb) PROVE TypeOK'
  BY <1>10 DEF DeadlineRearm, CbGoto, CbReturn
<1>11. ASSUME NEW cb \in Callback, DeadlinePut(cb) PROVE TypeOK'
  BY <1>11 DEF DeadlinePut, CbGoto
<1>12. ASSUME NEW cb \in Callback, DeadlineBroadcast(cb) PROVE TypeOK'
  <2>1. told' \in [DevConn -> BOOLEAN] /\ overtaken' \subseteq DevConn
    BY <1>12 DEF DeadlineBroadcast, Broadcast
  <2>2. CbReturn(cb) /\ UNCHANGED <<clock, rec, timer, hostVars, devVars, touches>>
    BY <1>12 DEF DeadlineBroadcast
  <2> QED
    BY <2>1, <2>2 DEF CbReturn, CbGoto
<1>13. ASSUME NEW dc \in DevConn, DevInsert(dc) PROVE TypeOK'
  BY <1>13 DEF DevInsert
<1>14. ASSUME NEW dc \in DevConn, DevLookup(dc) PROVE TypeOK'
  BY <1>14 DEF DevLookup
<1>15. ASSUME NEW dc \in DevConn, DevSend(dc) PROVE TypeOK'
  BY <1>15 DEF DevSend
<1>16. ASSUME NEW dc \in DevConn, DevDetach(dc) PROVE TypeOK'
  BY <1>16 DEF DevDetach
<1>17. CASE UNCHANGED vars
  BY <1>17 DEF vars
<1> QED
  BY <1>1, <1>2, <1>3, <1>4, <1>5, <1>6, <1>7, <1>8, <1>9, <1>10, <1>11, <1>12, <1>13, <1>14,
     <1>15, <1>16, <1>17
     DEF Next, TouchNext, DeadlineNext

\* Types, timestamps and re-arm remainders of the presence code.
THEOREM PresenceTypeCorrect == Spec => []TypeOK
<1>1. Init => TypeOK
  BY PresenceAssumption DEF Init, TypeOK, Record, NoRecord, HostPc, CbPc
<1>2. TypeOK /\ [Next]_vars => TypeOK'
  BY NextType
<1> QED
  BY <1>1, <1>2, PTL DEF Spec

LEMMA NextGuarded == TypeOK /\ OnlineIsGuarded /\ [Next]_vars => OnlineIsGuarded'
<1> SUFFICES ASSUME TypeOK, OnlineIsGuarded, [Next]_vars PROVE OnlineIsGuarded'
  OBVIOUS
<1> USE DEF OnlineIsGuarded
<1>1. CASE Tick
  BY <1>1 DEF Tick, hostVars, cbVars
<1>2. ASSUME NEW hc \in HostConn, TouchStart(hc) \/ TouchLookup(hc) PROVE OnlineIsGuarded'
  BY <1>2 DEF TouchStart, TouchLookup, HostGoto, cbVars, TypeOK
<1>3. ASSUME NEW hc \in HostConn, TouchPut(hc) PROVE OnlineIsGuarded'
  BY <1>3 DEF TouchPut, HostGoto, TypeOK
<1>4. ASSUME NEW hc \in HostConn, TouchBroadcast(hc) PROVE OnlineIsGuarded'
  BY <1>4 DEF TouchBroadcast, HostGoto, TypeOK
<1>5. ASSUME NEW hc \in HostConn, TouchArm(hc) PROVE OnlineIsGuarded'
  BY <1>5, PresenceAssumption DEF TouchArm, TypeOK
<1>6. ASSUME NEW cb \in Callback, TimerFire(cb) PROVE OnlineIsGuarded'
  <2>1. cpc'[cb] = "lookup"
    BY <1>6 DEF TimerFire, CbGoto, TypeOK
  <2> QED
    BY <2>1
<1>7. ASSUME NEW cb \in Callback, DeadlineLookup(cb) PROVE OnlineIsGuarded'
  BY <1>7 DEF DeadlineLookup, CbGoto, hostVars, TypeOK
<1>8. ASSUME NEW cb \in Callback, DeadlineDecide(cb) PROVE OnlineIsGuarded'
  BY <1>8 DEF DeadlineDecide, CbGoto, CbReturn, hostVars, TypeOK
<1>9. ASSUME NEW cb \in Callback, DeadlineRearm(cb) PROVE OnlineIsGuarded'
  BY <1>9, PresenceAssumption DEF DeadlineRearm, TypeOK
<1>10. ASSUME NEW cb \in Callback, DeadlinePut(cb) PROVE OnlineIsGuarded'
  BY <1>10 DEF DeadlinePut, TypeOK, Record
<1>11. ASSUME NEW cb \in Callback, DeadlineBroadcast(cb) PROVE OnlineIsGuarded'
  BY <1>11 DEF DeadlineBroadcast, CbGoto, CbReturn, hostVars, TypeOK
<1>12. ASSUME NEW dc \in DevConn, DevInsert(dc) \/ DevLookup(dc) \/ DevSend(dc) \/ DevDetach(dc)
       PROVE  OnlineIsGuarded'
  BY <1>12 DEF DevInsert, DevLookup, DevSend, DevDetach, hostVars, cbVars
<1>13. CASE UNCHANGED vars
  BY <1>13 DEF vars, hostVars, cbVars
<1> QED
  BY <1>1, <1>2, <1>3, <1>4, <1>5, <1>6, <1>7, <1>8, <1>9, <1>10, <1>11, <1>12, <1>13
     DEF Next, TouchNext, DeadlineNext

\* An online record is never left without a timer, a callback or a touch that
\* will question it, however touches and deadline callbacks interleave.
THEOREM OnlineGuarded == Spec => []OnlineIsGuarded
<1>1. Init => OnlineIsGuarded
  BY DEF Init, OnlineIsGuarded, NoRecord
<1>2. TypeOK /\ OnlineIsGuarded /\ [Next]_vars => OnlineIsGuarded'
  BY NextGuarded
<1> QED
  BY <1>1, <1>2, PresenceTypeCorrect, PTL DEF Spec

\* Strengthening for ToldUnlessOvertaken: the same of a snapshot that is still to be
\* sent, and whoever has one is in the table that broadcasts go by.
LastWord ==
  /\ \A dc \in DevConn : dpc[dc] # "idle" => dc \in devConns
  /\ ~Announcing => \A dc \in DevConn :
       /\ dpc[dc] = "read" => told[dc] = rec.online \/ dc \in overtaken
       /\ dpc[dc] = "send" => dsnap[dc] = rec.online \/ dc \in overtaken

\* A step that touches neither record nor devices, and starts no broadcast.
LEMMA WordKept ==
  ASSUME LastWord, UNCHANGED <<rec, devConns, dpc, dsnap, told, overtaken>>, Announcing => Announcing'
  PROVE  LastWord'
  BY DEF LastWord, Announcing

\* After a broadcast every device has its word, or counts as overtaken.
LEMMA WordBroadcast ==
  ASSUME TypeOK, LastWord, NEW online \in BOOLEAN, Broadcast(online),
         UNCHANGED <<rec, devConns, dpc, dsnap>>
  PROVE  LastWord'
<1>1. \A dc \in DevConn : dpc[dc] = "read" => told'[dc] = rec.online \/ dc \in overtaken'
  BY DEF TypeOK, LastWord, Broadcast
<1>2. \A dc \in DevConn : dpc[dc] = "send" => dsnap[dc] = rec.online \/ dc \in overtaken'
  BY DEF TypeOK, LastWord, Broadcast
<1> QED
  BY <1>1, <1>2 DEF LastWord

LEMMA NextWord == TypeOK /\ LastWord /\ [Next]_vars => LastWord'
<1> SUFFICES ASSUME TypeOK, LastWord, [Next]_vars PROVE LastWord'
  OBVIOUS
<1> USE DEF hostVars, cbVars, devVars, obsVars
<1>1. CASE Tick \/ UNCHANGED vars
  <2>1. UNCHANGED <<rec, devConns, dpc, dsnap, told, overtaken, hpc, cpc>>
    BY <1>1 DEF Tick, vars
  <2> QED
    BY <2>1, WordKept DEF Announcing
<1>2. ASSUME NEW hc \in HostConn, TouchStart(hc) \/ TouchLookup(hc) \/ TouchArm(hc) PROVE LastWord'
  <2>1. UNCHANGED <<rec, devConns, dpc, dsnap, told, overtaken, cpc>>
    BY <1>2 DEF TouchStart, TouchLookup, TouchArm
  <2>2. hpc[hc] # "broadcast" /\ \A h \in HostConn : h # hc => hpc'[h] = hpc[h]
    BY <1>2 DEF TouchStart, TouchLookup, TouchArm, HostGoto, TypeOK
  <2> QED
    BY <2>1, <2>2, WordKept DEF Announcing
<1>3. ASSUME NEW hc \in HostConn, TouchPut(hc) PROVE LastWord'
  <2>1. UNCHANGED <<devConns, dpc, dsnap, told, cpc>> /\ overtaken \subseteq overtaken'
    BY <1>3 DEF TouchPut
  <2>2. hpc[hc] = "put" /\ hpc' = [hpc EXCEPT ![hc] = IF hwas[hc] THEN "arm" ELSE "broadcast"]
    BY <1>3 DEF TouchPut, HostGoto
  <2>3. rec'.online = TRUE
    <3>1. rec' = [online |-> TRUE, lastSeen |-> hnow[hc]]
      BY <1>3 DEF TouchPut
    <3> QED
      BY <3>1
  <2>4. CASE ~hwas[hc]
    <3>1. hpc'[hc] = "broadcast"
      BY <2>2, <2>4 DEF TypeOK
    <3> QED
      BY <2>1, <3>1 DEF LastWord, Announcing
  <2>5. CASE hwas[hc] /\ ~rec.online
    <3>1. overtaken' = overtaken \cup devConns
      BY <1>3, <2>5 DEF TouchPut, FlipMissed
    <3> QED
      BY <2>1, <3>1 DEF LastWord
  <2>6. CASE hwas[hc] /\ rec.online
    <3>1. Announcing => Announcing'
      BY <2>1, <2>2 DEF Announcing, TypeOK
    <3>2. rec.online = TRUE
      BY <2>6 DEF TypeOK, Record
    <3> QED
      BY <2>1, <2>3, <3>1, <3>2 DEF LastWord
  <2> QED
    BY <2>4, <2>5, <2>6
<1>4. ASSUME NEW hc \in HostConn, TouchBroadcast(hc) PROVE LastWord'
  BY <1>4, WordBroadcast DEF TouchBroadcast
<1>5. ASSUME NEW cb \in Callback,
             TimerFire(cb) \/ DeadlineLookup(cb) \/ DeadlineDecide(cb) \/ DeadlineRearm(cb)
      PROVE  LastWord'
  <2>1. UNCHANGED <<rec, devConns, dpc, dsnap, told, overtaken, hpc>>
    BY <1>5 DEF TimerFire, DeadlineLookup, DeadlineDecide, DeadlineRearm
  <2>2. cpc[cb] # "broadcast" /\ \A c \in Callback : c # cb => cpc'[c] = cpc[c]
    BY <1>5 DEF TimerFire, DeadlineLookup, DeadlineDecide, DeadlineRearm, CbGoto, CbReturn, TypeOK
  <2> QED
    BY <2>1, <2>2, WordKept DEF Announcing
<1>6. ASSUME NEW cb \in Callback, DeadlinePut(cb) PROVE LastWord'
  <2>1. cpc'[cb] = "broadcast"
    BY <1>6 DEF DeadlinePut, CbGoto, TypeOK
  <2>2. UNCHANGED <<devConns, dpc>>
    BY <1>6 DEF DeadlinePut
  <2> QED
    BY <2>1, <2>2 DEF LastWord, Announcing
<1>7. ASSUME NEW cb \in Callback, DeadlineBroadcast(cb) PROVE LastWord'
  BY <1>7, WordBroadcast DEF DeadlineBroadcast
<1>8. ASSUME NEW dc \in DevConn, DevInsert(dc) PROVE LastWord'
  BY <1>8 DEF DevInsert, LastWord, Announcing, TypeOK
<1>9. ASSUME NEW dc \in DevConn, DevLookup(dc) PROVE LastWord'
  BY <1>9 DEF DevLookup, LastWord, Announcing, TypeOK
<1>10. ASSUME NEW dc \in DevConn, DevSend(dc) PROVE LastWord'
  BY <1>10 DEF DevSend, LastWord, Announcing, TypeOK
<1>11. ASSUME NEW dc \in DevConn, DevDetach(dc) PROVE LastWord'
  BY <1>11 DEF DevDetach, LastWord, Announcing, TypeOK
<1> QED
  BY <1>1, <1>2, <1>3, <1>4, <1>5, <1>6, <1>7, <1>8, <1>9, <1>10, <1>11 DEF Next, TouchNext, DeadlineNext

\* Whatever touches, deadline callbacks and attaches overlap: once no broadcast is
\* pending, a device knows what the record says, or its last word was overtaken.
THEOREM DevicesAreTold == Spec => []ToldUnlessOvertaken
<1>1. Init => LastWord
  BY DEF Init, LastWord
<1>2. LastWord => ToldUnlessOvertaken
  BY DEF LastWord, ToldUnlessOvertaken
<1> QED
  BY <1>1, <1>2, PresenceTypeCorrect, NextWord, PTL DEF Spec
=============================================================================
