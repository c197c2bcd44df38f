------------------------ MODULE PairingWindowProofs -------------------------
(***************************************************************************)
(* Proofs about PairingWindow, for any number of hosts, windows, handlers  *)
(* and connections, and any WindowTTL and flood guard.                     *)
(***************************************************************************)
EXTENDS PairingWindow, FiniteSetTheorems, TLAPS

(* Types *)

LEMMA InitType == Init => TypeOK
<1> SUFFICES ASSUME Init PROVE TypeOK
  OBVIOUS
<1>1. AnyHost \in Host
  BY WindowAssumption DEF AnyHost
<1> QED
  BY <1>1, WindowAssumption DEF Init, TypeOK, HoldsWindow, WindowOrNone

\* What LazyExpiry does to the store.
LEMMA LazyExpiryType ==
  ASSUME TypeOK, NEW h \in Host, NEW now \in Nat, LazyExpiry(h, now)
  PROVE  /\ windows' \subseteq windows
         /\ winByHost' \in [Host -> WindowOrNone]
         /\ attaches' = attaches
BY DEF TypeOK, LazyExpiry, WindowOrNone

LEMMA OpenType == ASSUME TypeOK, NEW o \in Opener, OpenNext(o) PROVE TypeOK'
<1> USE WindowAssumption DEF TypeOK, HoldsWindow, WindowOrNone, OpenGoto, windowVars, storeVars,
      tableVars, openVars, closeVars, hostVars, attVars, sockVars
<1>1. ASSUME NEW w \in WindowId, NEW h \in Host, OpenStart(o, w, h) PROVE TypeOK'
  BY <1>1 DEF OpenStart
<1>2. CASE OpenWindow(o)
  <2> DEFINE h == winHost[owin[o]]
  <2>1. owin[o] \in usedIds /\ h \in Host
    BY <1>2 DEF OpenWindow
  <2>2. NamedWindow(h) # {} => winByHost[h] \in usedIds
    BY DEF NamedWindow
  <2>3. windows' \subseteq usedIds
    BY <1>2, <2>1 DEF OpenWindow
  <2> QED
    BY <1>2, <2>1, <2>2, <2>3 DEF OpenWindow
<1>3. CASE OpenTearDown(o)
  BY <1>3 DEF OpenTearDown, tearDownWindow
<1>4. CASE OpenArm(o)
  BY <1>4 DEF OpenArm
<1> QED
  BY <1>1, <1>2, <1>3, <1>4 DEF OpenNext

LEMMA EndType ==
  ASSUME TypeOK,
         \/ Tick
         \/ \E w \in WindowId : ExpireNext(w)
         \/ \E x \in Closer : CloseNext(x)
  PROVE  TypeOK'
<1> USE WindowAssumption DEF TypeOK, HoldsWindow, WindowOrNone, windowVars, storeVars,
      tableVars, openVars, closeVars, hostVars, attVars, sockVars
<1>1. CASE Tick
  BY <1>1 DEF Tick
<1>2. ASSUME NEW w \in WindowId, TimerFire(w) PROVE TypeOK'
  BY <1>2 DEF TimerFire
<1>3. ASSUME NEW w \in WindowId, ExpireDelete(w) PROVE TypeOK'
  BY <1>3 DEF ExpireDelete, DeleteStored
<1>4. ASSUME NEW w \in WindowId, ExpireTearDown(w) PROVE TypeOK'
  BY <1>4 DEF ExpireTearDown, tearDownWindow
<1>5. ASSUME NEW x \in Closer, NEW w \in WindowId, CloseLookup(x, w) PROVE TypeOK'
  BY <1>5 DEF CloseLookup
<1>6. ASSUME NEW x \in Closer, CloseDelete(x) PROVE TypeOK'
  <2>1. UNCHANGED <<clock, windowVars, tableVars, openVars, epc, hostVars, attVars, sockVars, standing>>
    BY <1>6 DEF CloseDelete
  <2>2. CASE xwin[x] \in windows
    <3>1. /\ DeleteStored(xwin[x]) /\ UNCHANGED xwin
          /\ xpc[x] = "delete" /\ xpc' = [xpc EXCEPT ![x] = "tearDown"]
      BY <1>6, <2>2 DEF CloseDelete
    <3>2. windows' \subseteq windows /\ winByHost' \in [Host -> WindowOrNone] /\ UNCHANGED attaches
      BY <3>1 DEF DeleteStored
    <3> QED
      BY <2>1, <3>1, <3>2
  <2>3. CASE xwin[x] \notin windows
    <3>1. /\ xpc' = [xpc EXCEPT ![x] = "idle"] /\ xwin' = [xwin EXCEPT ![x] = NoWindow]
          /\ UNCHANGED storeVars
      BY <1>6, <2>3 DEF CloseDelete
    <3> QED
      BY <2>1, <3>1
  <2> QED
    BY <2>2, <2>3
<1>7. ASSUME NEW x \in Closer, CloseTearDown(x) PROVE TypeOK'
  BY <1>7 DEF CloseTearDown, tearDownWindow
<1> QED
  BY <1>1, <1>2, <1>3, <1>4, <1>5, <1>6, <1>7 DEF ExpireNext, CloseNext

LEMMA HostType == ASSUME TypeOK, NEW hc \in HostConn, HostNext(hc) PROVE TypeOK'
<1>0. AnyHost \in Host
  BY WindowAssumption DEF AnyHost
<1> USE <1>0 DEF TypeOK, HoldsWindow, WindowOrNone, windowVars, storeVars,
      tableVars, openVars, closeVars, hostVars, attVars, sockVars, HostReturn
<1>1. ASSUME NEW h \in Host, NEW w \in WindowId, HostRead(hc, h, w) PROVE TypeOK'
  BY <1>1 DEF HostRead
<1>2. CASE HostLookup(hc)
  <2>1. /\ windows' \subseteq windows
        /\ winByHost' \in [Host -> WindowOrNone]
        /\ attaches' = attaches
    BY <1>2, LazyExpiryType DEF HostLookup
  <2>2. UNCHANGED <<clock, windowVars, tableVars, openVars, closeVars, attVars, sockVars, standing>>
    BY <1>2 DEF HostLookup
  <2>3. CASE hpc[hc] = "lookup" /\ hpc' = [hpc EXCEPT ![hc] = "forward"] /\ UNCHANGED <<hhost, hwin, hnow>>
    BY <2>1, <2>2, <2>3
  <2>4. CASE HostReturn(hc)
    BY <2>1, <2>2, <2>4
  <2> QED
    BY <1>2, <2>3, <2>4 DEF HostLookup
<1>3. CASE HostForward(hc)
  BY <1>3 DEF HostForward
<1> QED
  BY <1>1, <1>2, <1>3 DEF HostNext

LEMMA PairType == ASSUME TypeOK, NEW pc \in PairConn, PairNext(pc) PROVE TypeOK'
<1>0. AnyHost \in Host
  BY WindowAssumption DEF AnyHost
<1> USE <1>0 DEF TypeOK, HoldsWindow, WindowOrNone, windowVars, storeVars,
      tableVars, openVars, closeVars, hostVars, attVars, sockVars, PairGoto, PairReturn
<1>1. ASSUME NEW h \in Host, PairStart(pc, h) PROVE TypeOK'
  BY <1>1 DEF PairStart
<1>2. CASE PairWindow(pc)
  <2>1. /\ windows' \subseteq windows
        /\ winByHost' \in [Host -> WindowOrNone]
        /\ attaches' = attaches
    BY <1>2, LazyExpiryType DEF PairWindow
  <2>2. CASE PairReturn(pc)
    BY <1>2, <2>1, <2>2 DEF PairWindow
  <2>3. ASSUME NEW w \in OpenWindowAt(phost[pc], pnow[pc]), pwin' = [pwin EXCEPT ![pc] = w],
               PairGoto(pc, "count"), UNCHANGED <<phost, pnow>>
        PROVE  TypeOK'
    <3>1. w \in windows
      BY DEF OpenWindowAt, NamedWindow
    <3> QED
      BY <1>2, <2>1, <2>3, <3>1 DEF PairWindow
  <2> QED
    BY <1>2, <2>2, <2>3 DEF PairWindow
<1>3. CASE PairCount(pc)
  <2>1. UNCHANGED <<windows, winByHost, clock, windowVars, tableVars, openVars, closeVars, hostVars,
                    sockVars, standing>>
    BY <1>3 DEF PairCount
  <2>2. CASE PairReturn(pc) /\ UNCHANGED attaches
    BY <2>1, <2>2
  <2>3. CASE /\ ppc[pc] = "count"
             /\ attaches' = [attaches EXCEPT ![pwin[pc]] = @ + 1]
             /\ PairGoto(pc, "insert")
             /\ UNCHANGED <<phost, pnow, pwin>>
    BY <2>1, <2>3
  <2> QED
    BY <1>3, <2>2, <2>3 DEF PairCount
<1>4. CASE PairUpgradeFails(pc)
  BY <1>4 DEF PairUpgradeFails
<1>5. CASE PairInsert(pc)
  BY <1>5 DEF PairInsert
<1>6. CASE PairRead(pc)
  BY <1>6 DEF PairRead
<1>7. CASE PairLookup(pc)
  <2>1. UNCHANGED <<phost, pnow, pwin, clock, windowVars, storeVars, tableVars, openVars, closeVars, hostVars>>
    BY <1>7 DEF PairLookup
  <2>2. CASE ppc[pc] = "lookup" /\ PairGoto(pc, "forward") /\ UNCHANGED <<sockVars, standing>>
    BY <2>1, <2>2
  <2>3. CASE /\ ppc[pc] = "lookup"
             /\ closed' = closed \cup {pc}
             /\ standing' = standing \ {pc}
             /\ PairGoto(pc, "cleanup")
             /\ UNCHANGED closing
    BY <2>1, <2>3
  <2> QED
    BY <1>7, <2>2, <2>3 DEF PairLookup
<1>8. CASE PairForward(pc)
  BY <1>8 DEF PairForward
<1>9. CASE PairEnd(pc)
  BY <1>9 DEF PairEnd
<1>10. CASE PairCleanup(pc)
  BY <1>10 DEF PairCleanup
<1>11. CASE CloseSocket(pc)
  BY <1>11 DEF CloseSocket
<1> QED
  BY <1>1, <1>2, <1>3, <1>4, <1>5, <1>6, <1>7, <1>8, <1>9, <1>10, <1>11 DEF PairNext

LEMMA NextType == TypeOK /\ [Next]_vars => TypeOK'
<1> SUFFICES ASSUME TypeOK, [Next]_vars PROVE TypeOK'
  OBVIOUS
<1>1. CASE UNCHANGED vars
  BY <1>1 DEF vars, TypeOK, HoldsWindow, WindowOrNone, windowVars, storeVars,
     tableVars, openVars, closeVars, hostVars, attVars, sockVars
<1> QED
  BY <1>1, OpenType, EndType, HostType, PairType DEF Next

\* Types of the pairing-window code: no handler tears down, counts or inserts
\* under a window it does not hold, and a stored window's id was made once.
THEOREM WindowTypeCorrect == Spec => []TypeOK
BY InitType, NextType, PTL DEF Spec

-----------------------------------------------------------------------------
(* The store *)

\* The calls that change the store, and who makes them: no other step does,
\* and a window's host and expiry time are fixed once its id is made.
LEMMA StoreSteps ==
  ASSUME TypeOK, [Next]_vars
  PROVE  \/ /\ UNCHANGED <<windows, winByHost>>
            /\ \A w \in usedIds : winHost'[w] = winHost[w] /\ expiresAt'[w] = expiresAt[w]
         \/ \E o \in Opener : OpenWindow(o)
         \/ /\ UNCHANGED windowVars
            /\ \E w \in windows :
                 /\ DeleteStored(w)
                 /\ epc[w] = "delete" \/ \E x \in Closer : xpc[x] = "delete" /\ xwin[x] = w
         \/ /\ UNCHANGED windowVars
            /\ \E h \in Host, now \in 0..clock : LazyExpiry(h, now)
<1> DEFINE Kept ==
      /\ UNCHANGED <<windows, winByHost>>
      /\ \A w \in usedIds : winHost'[w] = winHost[w] /\ expiresAt'[w] = expiresAt[w]
<1> USE DEF windowVars, storeVars
<1>1. CASE Tick \/ UNCHANGED vars
  <2>1. Kept
    BY <1>1 DEF Tick, vars
  <2> QED BY <2>1
<1>2. ASSUME NEW o \in Opener, OpenNext(o) PROVE Kept \/ OpenWindow(o)
  <2>1. ASSUME NEW w \in WindowId, NEW h \in Host, OpenStart(o, w, h) PROVE Kept
    BY <2>1 DEF OpenStart, TypeOK
  <2> QED
    BY <1>2, <2>1 DEF OpenNext, OpenTearDown, OpenArm
<1>3. ASSUME NEW w \in WindowId, ExpireNext(w)
      PROVE  Kept \/ (UNCHANGED windowVars /\ w \in windows /\ DeleteStored(w) /\ epc[w] = "delete")
  BY <1>3 DEF ExpireNext, TimerFire, ExpireDelete, ExpireTearDown
<1>4. ASSUME NEW x \in Closer, CloseNext(x)
      PROVE  \/ Kept
             \/ /\ UNCHANGED windowVars
                /\ xwin[x] \in windows /\ DeleteStored(xwin[x])
                /\ xpc[x] = "delete"
  BY <1>4 DEF CloseNext, CloseLookup, CloseDelete, CloseTearDown
<1>5. ASSUME NEW hc \in HostConn, HostNext(hc)
      PROVE  Kept \/ (UNCHANGED windowVars /\ LazyExpiry(hhost[hc], hnow[hc]))
  BY <1>5 DEF HostNext, HostRead, HostLookup, HostForward
<1>6. ASSUME NEW pc \in PairConn, PairNext(pc)
      PROVE  Kept \/ (UNCHANGED windowVars /\ LazyExpiry(phost[pc], pnow[pc]))
  BY <1>6 DEF PairNext, PairStart, PairWindow, PairCount, PairUpgradeFails, PairInsert, PairRead,
     PairLookup, PairForward, PairEnd, PairCleanup, CloseSocket
<1>7. \A hc \in HostConn : hhost[hc] \in Host /\ hnow[hc] \in 0..clock
  BY DEF TypeOK
<1>8. \A pc \in PairConn : phost[pc] \in Host /\ pnow[pc] \in 0..clock
  BY DEF TypeOK
<1> HIDE DEF Kept
<1>9. Next \/ UNCHANGED vars
  OBVIOUS
<1>10. CASE Kept
  BY <1>10 DEF Kept
<1> QED
  BY <1>1, <1>2, <1>3, <1>4, <1>5, <1>6, <1>7, <1>8, <1>9, <1>10 DEF Next

LEMMA NextIndexed == TypeOK /\ WindowIndexed /\ [Next]_vars => WindowIndexed'
<1> SUFFICES ASSUME TypeOK, WindowIndexed, [Next]_vars PROVE WindowIndexed'
  OBVIOUS
<1> USE WindowAssumption DEF WindowIndexed, TypeOK
<1>1. CASE /\ UNCHANGED <<windows, winByHost>>
           /\ \A w \in usedIds : winHost'[w] = winHost[w] /\ expiresAt'[w] = expiresAt[w]
  BY <1>1
<1>2. ASSUME NEW o \in Opener, OpenWindow(o) PROVE WindowIndexed'
  <2> DEFINE w == owin[o]
             h == winHost[w]
  <2>1. w \in usedIds /\ w \in WindowId /\ h \in Host /\ w # NoWindow
    BY <1>2 DEF OpenWindow, HoldsWindow
  <2>2. /\ windows' = (windows \ NamedWindow(h)) \cup {w}
        /\ winByHost' = [winByHost EXCEPT ![h] = w]
        /\ winHost' = winHost
    BY <1>2 DEF OpenWindow, windowVars
  <2>3. ASSUME NEW v \in windows' PROVE winByHost'[winHost'[v]] = v
    <3>1. CASE v = w
      BY <2>1, <2>2, <3>1
    <3>2. CASE v \in windows \ NamedWindow(h) /\ v # w
      <4>1. winHost[v] # h
        BY <3>2 DEF NamedWindow
      <4> QED
        BY <2>1, <2>2, <3>2, <4>1
    <3> QED
      BY <2>2, <3>1, <3>2
  <2>4. ASSUME NEW g \in Host, winByHost'[g] # NoWindow
        PROVE  winByHost'[g] \in windows' /\ winHost'[winByHost'[g]] = g
    <3>1. CASE g = h
      BY <2>1, <2>2, <3>1
    <3>2. CASE g # h
      <4>1. winByHost'[g] = winByHost[g] /\ winByHost[g] \in windows /\ winHost[winByHost[g]] = g
        BY <2>1, <2>2, <2>4, <3>2
      <4>2. winByHost[g] \notin NamedWindow(h)
        BY <2>1, <3>2, <4>1 DEF NamedWindow
      <4> QED
        BY <2>2, <4>1, <4>2
    <3> QED
      BY <3>1, <3>2
  <2> QED
    BY <2>3, <2>4
<1>3. ASSUME UNCHANGED windowVars, NEW w \in windows, DeleteStored(w) PROVE WindowIndexed'
  <2>1. winByHost' = [winByHost EXCEPT ![winHost[w]] = NoWindow] /\ windows' = windows \ {w}
    BY <1>3 DEF DeleteStored
  <2> QED
    BY <1>3, <2>1 DEF windowVars
<1>4. ASSUME UNCHANGED windowVars, NEW h \in Host, NEW now \in 0..clock, LazyExpiry(h, now)
      PROVE  WindowIndexed'
  <2> DEFINE late == NamedWindow(h) \ OpenWindowAt(h, now)
  <2>1. CASE late = {}
    BY <1>4, <2>1 DEF LazyExpiry, windowVars
  <2>2. CASE late # {}
    <3>1. late = {winByHost[h]}
      BY <2>2 DEF NamedWindow
    <3>2. windows' = windows \ {winByHost[h]} /\ winByHost' = [winByHost EXCEPT ![h] = NoWindow]
      BY <1>4, <2>2, <3>1 DEF LazyExpiry
    <3> QED
      BY <1>4, <3>2 DEF windowVars
  <2> QED
    BY <2>1, <2>2
<1> QED
  BY <1>1, <1>2, <1>3, <1>4, StoreSteps

\* One open window per host, for any number of openers, closers, timers and
\* lazy expiries: OpenWindow, DeleteWindow and WindowForHost keep the window
\* map and its host index inverse to each other.
THEOREM OneWindowPerHost == Spec => []WindowIndexed
<1>1. Init => WindowIndexed
  BY DEF Init, WindowIndexed
<1>2. QED
  BY <1>1, WindowTypeCorrect, NextIndexed, PTL DEF Spec

-----------------------------------------------------------------------------
(* Expiry *)

\* Strengthening: a timer is never due before its window's expiry time, so a
\* callback that has fired finds the time past.
TimersLate ==
  /\ \A w \in WindowId : expiresAt[w] <= clock + WindowTTL
  /\ \A w \in WindowId : winTimer[w] = "armed" => w \in usedIds /\ expiresAt[w] <= fireAt[w]
  /\ \A w \in WindowId : epc[w] = "delete" => w \in usedIds /\ expiresAt[w] <= clock

LEMMA NextTimers == TypeOK /\ TimersLate /\ [Next]_vars => TimersLate'
<1> SUFFICES ASSUME TypeOK, TimersLate, [Next]_vars PROVE TimersLate'
  OBVIOUS
<1> USE WindowAssumption DEF TypeOK, TimersLate, windowVars, tableVars, openVars, closeVars
<1>1. CASE Tick
  BY <1>1 DEF Tick
<1>2. ASSUME NEW o \in Opener, OpenNext(o) PROVE TimersLate'
  <2>1. ASSUME NEW w \in WindowId, NEW h \in Host, OpenStart(o, w, h) PROVE TimersLate'
    BY <2>1 DEF OpenStart
  <2>2. CASE OpenWindow(o)
    BY <2>2 DEF OpenWindow
  <2>3. CASE OpenTearDown(o)
    BY <2>3 DEF OpenTearDown, tearDownWindow
  <2>4. CASE OpenArm(o)
    <3>1. owin[o] \in usedIds
      BY <2>4 DEF OpenArm, HoldsWindow
    <3> QED
      BY <2>4, <3>1 DEF OpenArm
  <2> QED
    BY <1>2, <2>1, <2>2, <2>3, <2>4 DEF OpenNext
<1>3. ASSUME NEW w \in WindowId, ExpireNext(w) PROVE TimersLate'
  <2>1. CASE TimerFire(w)
    BY <2>1 DEF TimerFire
  <2>2. CASE ExpireDelete(w)
    BY <2>2 DEF ExpireDelete
  <2>3. CASE ExpireTearDown(w)
    BY <2>3 DEF ExpireTearDown, tearDownWindow
  <2> QED
    BY <1>3, <2>1, <2>2, <2>3 DEF ExpireNext
<1>4. ASSUME NEW x \in Closer, CloseNext(x) PROVE TimersLate'
  BY <1>4 DEF CloseNext, CloseLookup, CloseDelete, CloseTearDown, tearDownWindow
<1>5. ASSUME NEW hc \in HostConn, HostNext(hc) PROVE TimersLate'
  BY <1>5 DEF HostNext, HostRead, HostLookup, HostForward
<1>6. ASSUME NEW pc \in PairConn, PairNext(pc) PROVE TimersLate'
  <2>1. UNCHANGED <<clock, usedIds, expiresAt, winTimer, fireAt, epc>>
    BY <1>6 DEF PairNext, PairStart, PairWindow, PairCount, PairUpgradeFails, PairInsert, PairRead,
       PairLookup, PairForward, PairEnd, PairCleanup, CloseSocket
  <2> QED
    BY <2>1
<1>7. CASE UNCHANGED vars
  BY <1>7 DEF vars
<1> QED
  BY <1>1, <1>2, <1>3, <1>4, <1>5, <1>6, <1>7 DEF Next

\* No window is cut short: whatever timers, late arming and lazy expiries do, a
\* window leaves the store by a close, by its successor, or past its time.
THEOREM WindowsLiveTheirTime == Spec => NoEarlyExpiry
<1> DEFINE Excused(w) ==
      \/ clock >= expiresAt[w]
      \/ winByHost'[winHost[w]] \notin {w, NoWindow}
      \/ \E x \in Closer : xpc[x] = "delete" /\ xwin[x] = w
<1>1. TypeOK /\ WindowIndexed /\ TimersLate /\ [Next]_vars => [\A w \in windows \ windows' : Excused(w)]_vars
  <2> SUFFICES ASSUME TypeOK, WindowIndexed, TimersLate, [Next]_vars, NEW w \in windows \ windows'
               PROVE  Excused(w)
    OBVIOUS
  <2> USE WindowAssumption DEF TypeOK
  <2>0. w \in WindowId /\ winHost[w] \in Host /\ winByHost[winHost[w]] = w
    BY DEF WindowIndexed
  <2>1. ASSUME NEW o \in Opener, OpenWindow(o) PROVE Excused(w)
    <3> DEFINE v == owin[o]
    <3>1. v \in WindowId /\ winHost[v] \in Host
      BY <2>1 DEF OpenWindow, HoldsWindow
    <3>2. windows' = (windows \ NamedWindow(winHost[v])) \cup {v} /\ winByHost' = [winByHost EXCEPT ![winHost[v]] = v]
      BY <2>1 DEF OpenWindow
    <3>3. w # v /\ w = winByHost[winHost[v]]
      BY <3>2 DEF NamedWindow
    <3>4. winHost[w] = winHost[v]
      BY <3>1, <3>3, <2>0 DEF WindowIndexed
    <3> QED
      BY <3>1, <3>2, <3>3, <3>4
  <2>2. ASSUME NEW v \in windows, DeleteStored(v),
               epc[v] = "delete" \/ \E x \in Closer : xpc[x] = "delete" /\ xwin[x] = v
        PROVE  Excused(w)
    <3>1. v = w
      BY <2>2 DEF DeleteStored
    <3> QED
      BY <2>0, <2>2, <3>1 DEF TimersLate
  <2>3. ASSUME NEW h \in Host, NEW now \in 0..clock, LazyExpiry(h, now) PROVE Excused(w)
    <3>1. w \in NamedWindow(h) \ OpenWindowAt(h, now)
      BY <2>3 DEF LazyExpiry
    <3>2. expiresAt[w] <= now
      BY <2>0, <3>1 DEF OpenWindowAt
    <3> QED
      BY <2>0, <3>2
  <2> QED
    BY <2>1, <2>2, <2>3, StoreSteps
<1>2. Init => TimersLate
  BY WindowAssumption DEF Init, TimersLate
<1> QED
  BY <1>1, <1>2, WindowTypeCorrect, OneWindowPerHost, NextTimers, PTL DEF Spec, NoEarlyExpiry

-----------------------------------------------------------------------------
(* Pairing attaches *)

\* Every step outside the attach handlers leaves them where they are.
LEMMA NotPairing ==
  ASSUME [Next]_vars, ~ \E pc \in PairConn : PairNext(pc)
  PROVE  UNCHANGED <<attVars, attaches, standing, closed>>
<1> USE DEF storeVars, attVars, sockVars
<1>1. ASSUME NEW o \in Opener, OpenNext(o) PROVE UNCHANGED <<attVars, attaches, standing, closed>>
  BY <1>1 DEF OpenNext, OpenStart, OpenWindow, OpenTearDown, OpenArm, tearDownWindow
<1>2. ASSUME NEW w \in WindowId, ExpireNext(w) PROVE UNCHANGED <<attVars, attaches, standing, closed>>
  BY <1>2 DEF ExpireNext, TimerFire, ExpireDelete, ExpireTearDown, DeleteStored, tearDownWindow
<1>3. ASSUME NEW x \in Closer, CloseNext(x) PROVE UNCHANGED <<attVars, attaches, standing, closed>>
  BY <1>3 DEF CloseNext, CloseLookup, CloseDelete, CloseTearDown, DeleteStored, tearDownWindow
<1>4. ASSUME NEW hc \in HostConn, HostNext(hc) PROVE UNCHANGED <<attVars, attaches, standing, closed>>
  BY <1>4 DEF HostNext, HostRead, HostLookup, HostForward, LazyExpiry
<1>5. CASE Tick \/ UNCHANGED vars
  BY <1>5 DEF Tick, vars
<1> QED
  BY <1>1, <1>2, <1>3, <1>4, <1>5 DEF Next

\* Outside them the attach table changes only by a window's teardown.
LEMMA TableSteps ==
  ASSUME TypeOK, [Next]_vars, ~ \E pc \in PairConn : PairNext(pc)
  PROVE  UNCHANGED <<pairConns, closing>> \/ \E w \in WindowId : tearDownWindow(w)
<1> USE DEF tableVars, sockVars
<1>1. ASSUME NEW o \in Opener, OpenNext(o)
      PROVE  UNCHANGED <<pairConns, closing>> \/ \E w \in WindowId : tearDownWindow(w)
  <2>1. CASE OpenTearDown(o)
    <3>1. ogone[o] \in WindowId
      BY <2>1 DEF OpenTearDown, TypeOK, HoldsWindow
    <3> QED
      BY <2>1, <3>1 DEF OpenTearDown
  <2> QED
    BY <1>1, <2>1 DEF OpenNext, OpenStart, OpenWindow, OpenArm
<1>2. ASSUME NEW w \in WindowId, ExpireNext(w) PROVE UNCHANGED <<pairConns, closing>> \/ tearDownWindow(w)
  BY <1>2 DEF ExpireNext, TimerFire, ExpireDelete, ExpireTearDown
<1>3. ASSUME NEW x \in Closer, CloseNext(x)
      PROVE  UNCHANGED <<pairConns, closing>> \/ \E w \in WindowId : tearDownWindow(w)
  <2>1. CASE CloseTearDown(x)
    <3>1. xwin[x] \in WindowId
      BY <2>1 DEF CloseTearDown, TypeOK, HoldsWindow
    <3> QED
      BY <2>1, <3>1 DEF CloseTearDown
  <2> QED
    BY <1>3, <2>1 DEF CloseNext, CloseLookup, CloseDelete
<1>4. ASSUME NEW hc \in HostConn, HostNext(hc) PROVE UNCHANGED <<pairConns, closing>>
  BY <1>4 DEF HostNext, HostRead, HostLookup, HostForward
<1>5. CASE Tick \/ UNCHANGED vars
  BY <1>5 DEF Tick, vars
<1> QED
  BY <1>1, <1>2, <1>3, <1>4, <1>5 DEF Next

LEMMA NextSockets == TypeOK /\ PairSocketAccounting /\ [Next]_vars => PairSocketAccounting'
<1> SUFFICES ASSUME TypeOK, PairSocketAccounting, [Next]_vars PROVE PairSocketAccounting'
  OBVIOUS
<1> USE DEF TypeOK, PairSocketAccounting, Attached, tableVars, attVars, sockVars
<1>1. CASE ~ \E pc \in PairConn : PairNext(pc)
  <2>1. UNCHANGED <<attVars, closed>>
    BY <1>1, NotPairing
  <2>2. CASE UNCHANGED <<pairConns, closing>>
    BY <2>1, <2>2
  <2>3. ASSUME NEW w \in WindowId, tearDownWindow(w) PROVE PairSocketAccounting'
    BY <2>1, <2>3 DEF tearDownWindow
  <2> QED
    BY <1>1, <2>2, <2>3, TableSteps
<1>2. ASSUME NEW pc \in PairConn, PairNext(pc) PROVE PairSocketAccounting'
  <2> USE DEF PairGoto, PairReturn
  <2>1. CASE \E h \in Host : PairStart(pc, h)
    BY <2>1 DEF PairStart
  <2>2. CASE PairWindow(pc) \/ PairCount(pc)
    <3>1. UNCHANGED <<pairConns, closing, closed>>
      BY <2>2 DEF PairWindow, PairCount
    <3>2. ~Attached(pc) /\ ~Attached(pc)'
      BY <2>2 DEF PairWindow, PairCount
    <3>3. \A q \in PairConn \ {pc} : ppc'[q] = ppc[q] /\ pwin'[q] = pwin[q]
      BY <2>2 DEF PairWindow, PairCount
    <3>4. \A q \in PairConn : (Attached(q)' <=> Attached(q)) /\ (Attached(q) => pwin'[q] = pwin[q])
      BY <3>2, <3>3
    <3> HIDE DEF Attached
    <3> QED
      BY <3>1, <3>4
  <2>3. CASE PairUpgradeFails(pc)
    BY <2>3 DEF PairUpgradeFails
  <2>4. CASE PairInsert(pc)
    <3>1. pwin[pc] \in WindowId
      BY <2>4 DEF PairInsert, HoldsWindow
    <3> QED
      BY <2>4, <3>1 DEF PairInsert
  <2>5. CASE PairRead(pc)
    BY <2>5 DEF PairRead
  <2>6. CASE PairLookup(pc)
    BY <2>6 DEF PairLookup
  <2>7. CASE PairForward(pc)
    BY <2>7 DEF PairForward
  <2>8. CASE PairEnd(pc)
    BY <2>8 DEF PairEnd
  <2>9. CASE PairCleanup(pc)
    <3>1. pwin[pc] \in WindowId
      BY <2>9 DEF PairCleanup, HoldsWindow
    <3> QED
      BY <2>9, <3>1 DEF PairCleanup
  <2>10. CASE CloseSocket(pc)
    BY <2>10 DEF CloseSocket
  <2> QED
    BY <1>2, <2>1, <2>2, <2>3, <2>4, <2>5, <2>6, <2>7, <2>8, <2>9, <2>10 DEF PairNext
<1> QED
  BY <1>1, <1>2

\* No pairing socket outlives its window unnoticed: a running attach is in the
\* table, where the next teardown finds it, or has been closed or is about to be.
THEOREM NoSocketForgotten == Spec => []PairSocketAccounting
<1>1. Init => PairSocketAccounting
  BY DEF Init, PairSocketAccounting, Attached
<1> QED
  BY <1>1, WindowTypeCorrect, NextSockets, PTL DEF Spec

\* Strengthening for frames: an id is stored once, by the opener that made it,
\* so a window gone at the read of a frame is gone at its lookup.
StoredOnce ==
  \A o \in Opener : opc[o] = "open" =>
    /\ owin[o] \notin windows
    /\ \A p \in Opener : p # o /\ opc[p] # "idle" => owin[p] # owin[o]
    /\ \A pc \in PairConn : ppc[pc] \notin {"idle", "window"} => pwin[pc] # owin[o]

FramesStanding ==
  \A pc \in PairConn :
    ppc[pc] = "forward" \/ (ppc[pc] = "lookup" /\ pwin[pc] \in windows) => pc \in standing

\* The store only grows by an opener's own window.
LEMMA StoreGrows ==
  ASSUME TypeOK, [Next]_vars, ~ \E o \in Opener : OpenWindow(o)
  PROVE  windows' \subseteq windows
BY StoreSteps DEF DeleteStored, LazyExpiry

LEMMA NextStoredOnce == TypeOK /\ StoredOnce /\ [Next]_vars => StoredOnce'
<1> SUFFICES ASSUME TypeOK, StoredOnce, [Next]_vars PROVE StoredOnce'
  OBVIOUS
<1> USE DEF TypeOK, HoldsWindow, StoredOnce, openVars, attVars
<1>1. CASE ~ \E o \in Opener : OpenWindow(o)
  <2>1. windows' \subseteq windows
    BY <1>1, StoreGrows
  <2>2. ASSUME NEW o \in Opener, OpenNext(o) PROVE StoredOnce'
    <3>1. UNCHANGED <<ppc, pwin>>
      BY <2>2 DEF OpenNext, OpenStart, OpenWindow, OpenTearDown, OpenArm
    <3>2. ASSUME NEW w \in WindowId, NEW h \in Host, OpenStart(o, w, h) PROVE StoredOnce'
      BY <2>1, <3>1, <3>2 DEF OpenStart, OpenGoto
    <3>3. CASE OpenTearDown(o)
      BY <2>1, <3>1, <3>3 DEF OpenTearDown, OpenGoto
    <3>4. CASE OpenArm(o)
      BY <2>1, <3>1, <3>4 DEF OpenArm, OpenGoto
    <3> QED
      BY <1>1, <2>2, <3>2, <3>3, <3>4 DEF OpenNext
  <2>3. ASSUME NEW pc \in PairConn, PairNext(pc) PROVE StoredOnce'
    <3> USE DEF PairGoto, PairReturn
    <3>1. UNCHANGED <<opc, owin>>
      BY <2>3 DEF PairNext, PairStart, PairWindow, PairCount, PairUpgradeFails, PairInsert, PairRead,
         PairLookup, PairForward, PairEnd, PairCleanup, CloseSocket
    <3>2. CASE PairWindow(pc)
      BY <2>1, <3>1, <3>2 DEF PairWindow, OpenWindowAt, NamedWindow
    <3>3. CASE ~PairWindow(pc)
      <4>1. \A q \in PairConn : ppc'[q] \notin {"idle", "window"} =>
              pwin'[q] = pwin[q] /\ ppc[q] \notin {"idle", "window"}
        BY <2>3, <3>3 DEF PairNext, PairStart, PairCount, PairUpgradeFails, PairInsert, PairRead,
           PairLookup, PairForward, PairEnd, PairCleanup, CloseSocket
      <4> QED
        BY <2>1, <3>1, <4>1
    <3> QED
      BY <3>2, <3>3
  <2>4. CASE ~ (\E o \in Opener : OpenNext(o)) /\ ~ (\E pc \in PairConn : PairNext(pc))
    <3>1. UNCHANGED <<ppc, pwin>>
      BY <2>4, NotPairing
    <3>2. UNCHANGED <<opc, owin>>
      BY <2>4 DEF Next, vars, Tick, ExpireNext, TimerFire, ExpireDelete, ExpireTearDown, CloseNext, CloseLookup,
         CloseDelete, CloseTearDown, HostNext, HostRead, HostLookup, HostForward
    <3> QED
      BY <2>1, <3>1, <3>2
  <2> QED
    BY <2>2, <2>3, <2>4
<1>2. ASSUME NEW o \in Opener, OpenWindow(o) PROVE StoredOnce'
  <2>1. UNCHANGED <<ppc, pwin, owin>> /\ windows' \subseteq windows \cup {owin[o]}
    BY <1>2 DEF OpenWindow
  <2>2. opc[o] = "open" /\ opc'[o] # "open" /\ opc'[o] # "idle" /\ \A p \in Opener \ {o} : opc'[p] = opc[p]
    BY <1>2 DEF OpenWindow, OpenGoto
  <2> QED
    BY <2>1, <2>2
<1> QED
  BY <1>1, <1>2

LEMMA NextFrames == TypeOK /\ StoredOnce /\ FramesStanding /\ [Next]_vars => FramesStanding'
<1> SUFFICES ASSUME TypeOK, StoredOnce, FramesStanding, [Next]_vars PROVE FramesStanding'
  OBVIOUS
<1> USE DEF TypeOK, FramesStanding, attVars
<1>1. CASE ~ \E pc \in PairConn : PairNext(pc)
  <2>1. UNCHANGED <<ppc, pwin, standing>>
    BY <1>1, NotPairing
  <2>2. \A pc \in PairConn : ppc[pc] = "lookup" /\ pwin[pc] \in windows' => pwin[pc] \in windows
    <3>1. CASE ~ \E o \in Opener : OpenWindow(o)
      BY <3>1, StoreGrows
    <3>2. ASSUME NEW o \in Opener, OpenWindow(o), NEW pc \in PairConn, ppc[pc] = "lookup", pwin[pc] \in windows'
          PROVE  pwin[pc] \in windows
      BY <3>2 DEF StoredOnce, OpenWindow
    <3> QED
      BY <3>1, <3>2
  <2> QED
    BY <2>1, <2>2
<1>2. ASSUME NEW pc \in PairConn, PairNext(pc) PROVE FramesStanding'
  <2> USE DEF PairGoto, PairReturn
  <2>1. windows' \subseteq windows
    BY <1>2, LazyExpiryType
       DEF storeVars, PairNext, PairStart, PairWindow, PairCount, PairUpgradeFails, PairInsert, PairRead,
       PairLookup, PairForward, PairEnd, PairCleanup, CloseSocket, LazyExpiry
  <2>2. CASE PairRead(pc)
    BY <2>1, <2>2 DEF PairRead
  <2>3. CASE PairLookup(pc)
    BY <2>1, <2>3 DEF PairLookup
  <2>4. CASE PairForward(pc)
    BY <2>1, <2>4 DEF PairForward
  <2>5. CASE ~PairRead(pc) /\ ~PairLookup(pc) /\ ~PairForward(pc)
    <3>1. UNCHANGED standing
      BY <1>2, <2>5 DEF PairNext, PairStart, PairWindow, PairCount, PairUpgradeFails, PairInsert,
         PairEnd, PairCleanup, CloseSocket
    <3>2. \A q \in PairConn : ppc'[q] \in {"lookup", "forward"} => ppc'[q] = ppc[q] /\ pwin'[q] = pwin[q]
      BY <1>2, <2>5 DEF PairNext, PairStart, PairWindow, PairCount, PairUpgradeFails, PairInsert,
         PairEnd, PairCleanup, CloseSocket
    <3> QED
      BY <2>1, <3>1, <3>2
  <2> QED
    BY <2>2, <2>3, <2>4, <2>5
<1> QED
  BY <1>1, <1>2

\* A pairing frame read after its window was displaced, closed or expired is
\* never forwarded.
THEOREM NoFrameAfterWindow == Spec => []RoutedWhileWindowStood
<1>1. Init => StoredOnce /\ FramesStanding
  BY DEF Init, StoredOnce, FramesStanding
<1>2. FramesStanding => RoutedWhileWindowStood
  BY DEF FramesStanding, RoutedWhileWindowStood
<1> QED
  BY <1>1, <1>2, WindowTypeCorrect, NextStoredOnce, NextFrames, PTL DEF Spec

-----------------------------------------------------------------------------
(* The flood guard *)

\* The attaches counted in for w that have not left.
CountedIn(w) == {pc \in PairConn : pwin[pc] = w /\ (ppc[pc] = "insert" \/ Attached(pc))}

\* Strengthening of FloodGuard: the attaches of a window are finitely many, and
\* a limit of 0 only lifts the bound on the counter.
FloodInv ==
  \A w \in WindowId :
    /\ PairingAttachesPerWindow > 0 => attaches[w] <= PairingAttachesPerWindow
    /\ IsFiniteSet(CountedIn(w))
    /\ Cardinality(CountedIn(w)) <= attaches[w]

LEMMA NextFlood == TypeOK /\ FloodInv /\ [Next]_vars => FloodInv'
<1> SUFFICES ASSUME TypeOK, FloodInv, [Next]_vars PROVE FloodInv'
  OBVIOUS
<1>1. \A w \in WindowId : attaches[w] \in Nat /\ IsFiniteSet(CountedIn(w)) /\ Cardinality(CountedIn(w)) \in Nat
  BY FS_CardinalityType DEF TypeOK, FloodInv
\* An attach that leaves makes no room: the counter stays.
<1>2. ASSUME UNCHANGED attaches, \A w \in WindowId : CountedIn(w)' \subseteq CountedIn(w)
      PROVE  FloodInv'
  <2> SUFFICES ASSUME NEW w \in WindowId
               PROVE  /\ PairingAttachesPerWindow > 0 => attaches'[w] <= PairingAttachesPerWindow
                      /\ IsFiniteSet(CountedIn(w)')
                      /\ Cardinality(CountedIn(w)') <= attaches'[w]
    BY DEF FloodInv
  <2>1. IsFiniteSet(CountedIn(w)') /\ Cardinality(CountedIn(w)') <= Cardinality(CountedIn(w))
    BY <1>1, <1>2, FS_Subset
  <2>2. Cardinality(CountedIn(w)') \in Nat
    BY <2>1, FS_CardinalityType
  <2> QED
    BY <1>1, <1>2, <2>1, <2>2 DEF FloodInv
<1>3. CASE ~ \E pc \in PairConn : PairNext(pc)
  <2>1. UNCHANGED <<attaches, ppc, pwin>>
    BY <1>3, NotPairing DEF attVars
  <2> QED
    BY <1>2, <2>1 DEF CountedIn, Attached
<1>4. ASSUME NEW pc \in PairConn, PairNext(pc), ~PairCount(pc) PROVE FloodInv'
  <2> USE DEF PairGoto, PairReturn, TypeOK, storeVars, attVars
  <2>1. UNCHANGED attaches
    BY <1>4 DEF PairNext, PairStart, PairWindow, PairUpgradeFails, PairInsert, PairRead,
       PairLookup, PairForward, PairEnd, PairCleanup, CloseSocket, LazyExpiry
  <2>2. \A q \in PairConn : (ppc[q] = "insert" \/ Attached(q))' =>
           (ppc[q] = "insert" \/ Attached(q)) /\ pwin'[q] = pwin[q]
    BY <1>4 DEF PairNext, PairStart, PairWindow, PairUpgradeFails, PairInsert, PairRead,
       PairLookup, PairForward, PairEnd, PairCleanup, CloseSocket, Attached
  <2> QED
    BY <1>2, <2>1, <2>2 DEF CountedIn
<1>5. ASSUME NEW pc \in PairConn, PairCount(pc) PROVE FloodInv'
  <2> USE DEF PairGoto, PairReturn
  <2>0. pwin[pc] \in WindowId /\ ppc[pc] = "count"
    BY <1>5 DEF PairCount, TypeOK, HoldsWindow
  <2>1. CASE PairReturn(pc) /\ UNCHANGED attaches
    BY <1>2, <2>0, <2>1 DEF CountedIn, Attached, TypeOK
  <2>2. CASE /\ MayAttach(pwin[pc])
             /\ attaches' = [attaches EXCEPT ![pwin[pc]] = @ + 1]
             /\ PairGoto(pc, "insert")
             /\ UNCHANGED pwin
    <3> SUFFICES ASSUME NEW w \in WindowId
                 PROVE  /\ PairingAttachesPerWindow > 0 => attaches'[w] <= PairingAttachesPerWindow
                        /\ IsFiniteSet(CountedIn(w)')
                        /\ Cardinality(CountedIn(w)') <= attaches'[w]
      BY DEF FloodInv
    <3>0. ppc' = [ppc EXCEPT ![pc] = "insert"] /\ ppc \in [PairConn -> {"idle", "window", "count", "insert", "read", "lookup", "forward", "cleanup"}]
      BY <2>2 DEF TypeOK
    <3>1. CASE w = pwin[pc]
      <4>1. CountedIn(w)' = CountedIn(w) \cup {pc} /\ pc \notin CountedIn(w)
        BY <2>0, <2>2, <3>0, <3>1 DEF CountedIn, Attached
      <4>2. IsFiniteSet(CountedIn(w)') /\ Cardinality(CountedIn(w)') = Cardinality(CountedIn(w)) + 1
        BY <1>1, <4>1, FS_AddElement
      <4>3. attaches'[w] = attaches[w] + 1 /\ (PairingAttachesPerWindow > 0 => attaches[w] < PairingAttachesPerWindow)
        BY <2>2, <3>1 DEF MayAttach, TypeOK
      <4> QED
        BY <1>1, <4>2, <4>3, WindowAssumption DEF FloodInv
    <3>2. CASE w # pwin[pc]
      <4>1. CountedIn(w)' = CountedIn(w)
        BY <2>0, <2>2, <3>0, <3>2 DEF CountedIn, Attached
      <4>2. attaches'[w] = attaches[w]
        BY <2>0, <2>2, <3>2 DEF TypeOK
      <4> QED
        BY <4>1, <4>2 DEF FloodInv
    <3> QED
      BY <3>1, <3>2
  <2> QED
    BY <1>5, <2>1, <2>2 DEF PairCount
<1> QED
  BY <1>3, <1>4, <1>5

\* The flood guard bounds the attaches that run: for any limit and however the
\* checks, upgrades, frames and departures interleave, a window never carries
\* more attaches than it has counted, nor counts more than its allowance.
THEOREM FloodBounded == Spec => []FloodGuard
<1>1. Init => FloodInv
  <2> SUFFICES ASSUME Init, NEW w \in WindowId
               PROVE  /\ attaches[w] = 0
                      /\ IsFiniteSet(CountedIn(w))
                      /\ Cardinality(CountedIn(w)) = 0
    BY WindowAssumption DEF FloodInv
  <2>1. CountedIn(w) = {} /\ attaches[w] = 0
    BY DEF Init, CountedIn, Attached
  <2> QED
    BY <2>1, FS_EmptySet
<1>2. FloodInv => FloodGuard
  BY DEF FloodInv, FloodGuard, CountedIn
<1> QED
  BY <1>1, <1>2, WindowTypeCorrect, NextFlood, PTL DEF Spec
=============================================================================
