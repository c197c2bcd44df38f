---------------------------- MODULE PairingWindow ---------------------------
(***************************************************************************)
(* Pairing windows in internal/relay: opening, displacement, explicit      *)
(* close, timer expiry, the store's lazy expiry, and the pairing attaches  *)
(* that ride a window.                                                     *)
(*                                                                         *)
(* As in Router, one action is one critical section of MemStore.mu or of   *)
(* Relay.mu, and a caller that passes the clock to the store reads it      *)
(* before the store's lock.  Bearer, binding and rate checks come first    *)
(* and change nothing here when they refuse.  A window's provisional       *)
(* channel is created with it and dies with it, so the window id stands    *)
(* for both.                                                               *)
(***************************************************************************)
EXTENDS Integers, FiniteSets

CONSTANTS
  Host,
  WindowId,                 \* relay-generated window ids, never reused
  NoWindow,                 \* winByHost has no entry
  Opener,                   \* POST /v1/pairing-windows handlers
  Closer,                   \* DELETE /v1/pairing-windows/{id} handlers
  HostConn,                 \* host connections routing a provisional frame
  PairConn,                 \* pairing attaches
  WindowTTL,
  PairingAttachesPerWindow, \* 0 disables the flood guard
  MaxClock                  \* bound on the clock

ASSUME WindowAssumption ==
  /\ NoWindow \notin WindowId
  /\ WindowTTL \in Nat \ {0}
  /\ PairingAttachesPerWindow \in Nat
  /\ MaxClock \in Nat
  /\ Host # {}

VARIABLES
  clock,
  \* Window values: fixed when the id is made, but for attaches
  usedIds, winHost, expiresAt, attaches,
  \* MemStore
  windows,     \* ids of the stored windows
  winByHost,   \* host -> window id
  \* Relay.mu
  pairConns,   \* window id -> pairing attaches
  winTimer,    \* window id -> "none", "armed" or "fired"
  fireAt,      \* when an armed timer is due
  \* handlers
  opc, owin, ogone,            \* openers: their window, the one it displaced
  xpc, xwin,                   \* closers
  epc,                         \* timer callbacks, one per window
  hpc, hhost, hnow, hwin,      \* host frames and the window of their channel
  ppc, phost, pnow, pwin,      \* pairing attaches
  closing,                     \* sockets tearDownWindow has yet to close
  closed,                      \* running pairing attaches the relay has closed
  standing                     \* observed only: the window was stored when the frame was read

windowVars == <<usedIds, winHost, expiresAt>>
storeVars  == <<attaches, windows, winByHost>>
tableVars  == <<pairConns, winTimer, fireAt>>
openVars   == <<opc, owin, ogone>>
closeVars  == <<xpc, xwin, epc>>
hostVars   == <<hpc, hhost, hnow, hwin>>
attVars    == <<ppc, phost, pnow, pwin>>
sockVars   == <<closing, closed>>
vars == <<clock, windowVars, storeVars, tableVars, openVars, closeVars, hostVars,
          attVars, sockVars, standing>>

AnyHost == CHOOSE h \in Host : TRUE

Init ==
  /\ clock = 0
  /\ usedIds = {}
  /\ winHost = [w \in WindowId |-> AnyHost]
  /\ expiresAt = [w \in WindowId |-> 0]
  /\ attaches = [w \in WindowId |-> 0]
  /\ windows = {}
  /\ winByHost = [h \in Host |-> NoWindow]
  /\ pairConns = [w \in WindowId |-> {}]
  /\ winTimer = [w \in WindowId |-> "none"]
  /\ fireAt = [w \in WindowId |-> 0]
  /\ opc = [o \in Opener |-> "idle"]
  /\ owin = [o \in Opener |-> NoWindow]
  /\ ogone = [o \in Opener |-> NoWindow]
  /\ xpc = [x \in Closer |-> "idle"]
  /\ xwin = [x \in Closer |-> NoWindow]
  /\ epc = [w \in WindowId |-> "idle"]
  /\ hpc = [hc \in HostConn |-> "idle"]
  /\ hhost = [hc \in HostConn |-> AnyHost]
  /\ hnow = [hc \in HostConn |-> 0]
  /\ hwin = [hc \in HostConn |-> NoWindow]
  /\ ppc = [pc \in PairConn |-> "idle"]
  /\ phost = [pc \in PairConn |-> AnyHost]
  /\ pnow = [pc \in PairConn |-> 0]
  /\ pwin = [pc \in PairConn |-> NoWindow]
  /\ closing = {}
  /\ closed = {}
  /\ standing = {}

-----------------------------------------------------------------------------
(* Store calls *)

\* The stored window winByHost names, as a set of at most one id.
NamedWindow(h) == {w \in windows : w = winByHost[h]}

\* WindowForHost: the window open at `now`.
OpenWindowAt(h, now) == {w \in NamedWindow(h) : now < expiresAt[w]}

\* Server-side expiry inside WindowForHost: a window found past its time is
\* deleted with its index entry, and nothing in the relay's tables is touched.
LazyExpiry(h, now) ==
  LET late == NamedWindow(h) \ OpenWindowAt(h, now)
  IN  /\ windows' = windows \ late
      /\ winByHost' = IF late = {} THEN winByHost ELSE [winByHost EXCEPT ![h] = NoWindow]
      /\ UNCHANGED attaches

\* DeleteWindow of a stored window.
DeleteStored(w) ==
  /\ windows' = windows \ {w}
  /\ winByHost' = [winByHost EXCEPT ![winHost[w]] = IF @ = w THEN NoWindow ELSE @]
  /\ UNCHANGED attaches

\* Weakened form: the table entry is dropped and its sockets forgotten.
tearDownWindow_Forgets(w) ==
  /\ winTimer' = [winTimer EXCEPT ![w] = "none"]
  /\ fireAt' = [fireAt EXCEPT ![w] = 0]
  /\ pairConns' = [pairConns EXCEPT ![w] = {}]
  /\ UNCHANGED <<closing, closed>>

\* One critical section stops and forgets the timer and takes the attaches out
\* of the table; the sockets are closed after it, one by one (CloseSocket).
tearDownWindow(w) ==
  /\ winTimer' = [winTimer EXCEPT ![w] = "none"]
  /\ fireAt' = [fireAt EXCEPT ![w] = 0]
  /\ pairConns' = [pairConns EXCEPT ![w] = {}]
  /\ closing' = closing \cup pairConns[w]
  /\ UNCHANGED closed

\* The device handler is between its table insert and its cleanup.
Attached(pc) == ppc[pc] \in {"read", "lookup", "forward", "cleanup"}

CloseSocket(pc) ==
  /\ pc \in closing
  /\ closing' = closing \ {pc}
  /\ closed' = IF Attached(pc) THEN closed \cup {pc} ELSE closed
  /\ UNCHANGED <<clock, windowVars, storeVars, tableVars, openVars, closeVars>>
  /\ UNCHANGED <<hostVars, attVars, standing>>

-----------------------------------------------------------------------------
\* Bound: the last WindowTTL units are kept for the timers of opened windows.
Tick ==
  /\ clock < MaxClock
  /\ clock < MaxClock - WindowTTL \/ \A o \in Opener : opc[o] = "idle"
  /\ clock' = clock + 1
  /\ UNCHANGED <<windowVars, storeVars, tableVars, openVars, closeVars>>
  /\ UNCHANGED <<hostVars, attVars, sockVars, standing>>

(* handleOpenWindow *)

OpenGoto(o, pc) == opc' = [opc EXCEPT ![o] = pc]

\* The Window value, ExpiresAt included, is built before the store call.
OpenStart(o, w, h) ==
  /\ opc[o] = "idle"
  /\ w \notin usedIds
  /\ clock < MaxClock - WindowTTL
  /\ usedIds' = usedIds \cup {w}
  /\ winHost' = [winHost EXCEPT ![w] = h]
  /\ expiresAt' = [expiresAt EXCEPT ![w] = clock + WindowTTL]
  /\ owin' = [owin EXCEPT ![o] = w]
  /\ OpenGoto(o, "open")
  /\ UNCHANGED <<clock, storeVars, tableVars, ogone, closeVars, hostVars, attVars, sockVars, standing>>

\* Weakened form: the displaced window stays in the store.
OpenWindow_Keeps(o) ==
  LET w   == owin[o]
      h   == winHost[w]
      old == NamedWindow(h)
  IN  /\ opc[o] = "open"
      /\ windows' = windows \cup {w}
      /\ winByHost' = [winByHost EXCEPT ![h] = w]
      /\ ogone' = [ogone EXCEPT ![o] = IF old = {} THEN NoWindow ELSE winByHost[h]]
      /\ OpenGoto(o, IF old = {} THEN "arm" ELSE "tearDown")
      /\ UNCHANGED <<attaches, owin, clock, windowVars, tableVars>>
      /\ UNCHANGED <<closeVars, hostVars, attVars, sockVars, standing>>

\* Weakened form: the handler tears down without asking whether anything was displaced.
OpenWindow_NilDisplaced(o) ==
  LET w   == owin[o]
      h   == winHost[w]
      old == NamedWindow(h)
  IN  /\ opc[o] = "open"
      /\ windows' = (windows \ old) \cup {w}
      /\ winByHost' = [winByHost EXCEPT ![h] = w]
      /\ ogone' = [ogone EXCEPT ![o] = IF old = {} THEN NoWindow ELSE winByHost[h]]
      /\ OpenGoto(o, "tearDown")
      /\ UNCHANGED <<attaches, owin, clock, windowVars, tableVars>>
      /\ UNCHANGED <<closeVars, hostVars, attVars, sockVars, standing>>

\* Store.OpenWindow: the host's stored window, if any, is displaced.
OpenWindow(o) ==
  LET w   == owin[o]
      h   == winHost[w]
      old == NamedWindow(h)
  IN  /\ opc[o] = "open"
      /\ windows' = (windows \ old) \cup {w}
      /\ winByHost' = [winByHost EXCEPT ![h] = w]
      /\ ogone' = [ogone EXCEPT ![o] = IF old = {} THEN NoWindow ELSE winByHost[h]]
      /\ OpenGoto(o, IF old = {} THEN "arm" ELSE "tearDown")
      /\ UNCHANGED <<attaches, owin, clock, windowVars, tableVars>>
      /\ UNCHANGED <<closeVars, hostVars, attVars, sockVars, standing>>

\* Weakened form: the handler returns once it has torn the old window down.
OpenTearDown_Returns(o) ==
  /\ opc[o] = "tearDown"
  /\ tearDownWindow(ogone[o])
  /\ ogone' = [ogone EXCEPT ![o] = NoWindow]
  /\ owin' = [owin EXCEPT ![o] = NoWindow]
  /\ OpenGoto(o, "idle")
  /\ UNCHANGED <<clock, windowVars, storeVars, closeVars, hostVars, attVars, standing>>

OpenTearDown(o) ==
  /\ opc[o] = "tearDown"
  /\ tearDownWindow(ogone[o])
  /\ ogone' = [ogone EXCEPT ![o] = NoWindow]
  /\ OpenGoto(o, "arm")
  /\ UNCHANGED <<clock, windowVars, storeVars, owin, closeVars, hostVars, attVars, standing>>

\* Weakened form: the timer is due at once.
OpenArm_Early(o) ==
  /\ opc[o] = "arm"
  /\ winTimer' = [winTimer EXCEPT ![owin[o]] = "armed"]
  /\ fireAt' = [fireAt EXCEPT ![owin[o]] = clock]
  /\ owin' = [owin EXCEPT ![o] = NoWindow]
  /\ OpenGoto(o, "idle")
  /\ UNCHANGED <<clock, windowVars, storeVars, pairConns, ogone>>
  /\ UNCHANGED <<closeVars, hostVars, attVars, sockVars, standing>>

\* The expiry timer is armed last, whatever has become of the window since.
OpenArm(o) ==
  /\ opc[o] = "arm"
  /\ winTimer' = [winTimer EXCEPT ![owin[o]] = "armed"]
  /\ fireAt' = [fireAt EXCEPT ![owin[o]] = clock + WindowTTL]
  /\ owin' = [owin EXCEPT ![o] = NoWindow]
  /\ OpenGoto(o, "idle")
  /\ UNCHANGED <<clock, windowVars, storeVars, pairConns, ogone>>
  /\ UNCHANGED <<closeVars, hostVars, attVars, sockVars, standing>>

-----------------------------------------------------------------------------
(* expireWindow, from the timer and from handleCloseWindow *)

\* A fired timer stays in the map until its window is torn down.
TimerFire(w) ==
  /\ winTimer[w] = "armed"
  /\ clock >= fireAt[w]
  /\ winTimer' = [winTimer EXCEPT ![w] = "fired"]
  /\ fireAt' = [fireAt EXCEPT ![w] = 0]
  /\ epc' = [epc EXCEPT ![w] = "delete"]
  /\ UNCHANGED <<clock, windowVars, storeVars, pairConns, openVars, xpc, xwin>>
  /\ UNCHANGED <<hostVars, attVars, sockVars, standing>>

\* A window that is no longer stored ends expireWindow with nothing torn down.
ExpireDelete(w) ==
  /\ epc[w] = "delete"
  /\ \/ /\ w \in windows
        /\ DeleteStored(w)
        /\ epc' = [epc EXCEPT ![w] = "tearDown"]
     \/ /\ w \notin windows
        /\ epc' = [epc EXCEPT ![w] = "idle"]
        /\ UNCHANGED storeVars
  /\ UNCHANGED <<clock, windowVars, tableVars, openVars, xpc, xwin>>
  /\ UNCHANGED <<hostVars, attVars, sockVars, standing>>

ExpireTearDown(w) ==
  /\ epc[w] = "tearDown"
  /\ tearDownWindow(w)
  /\ epc' = [epc EXCEPT ![w] = "idle"]
  /\ UNCHANGED <<clock, windowVars, storeVars, openVars, xpc, xwin, hostVars, attVars, standing>>

\* An unknown window is answered not_found.
CloseLookup(x, w) ==
  /\ xpc[x] = "idle"
  /\ w \in windows
  /\ xwin' = [xwin EXCEPT ![x] = w]
  /\ xpc' = [xpc EXCEPT ![x] = "delete"]
  /\ UNCHANGED <<clock, windowVars, storeVars, tableVars, openVars, epc>>
  /\ UNCHANGED <<hostVars, attVars, sockVars, standing>>

CloseDelete(x) ==
  /\ xpc[x] = "delete"
  /\ \/ /\ xwin[x] \in windows
        /\ DeleteStored(xwin[x])
        /\ xpc' = [xpc EXCEPT ![x] = "tearDown"]
        /\ UNCHANGED xwin
     \/ /\ xwin[x] \notin windows
        /\ xpc' = [xpc EXCEPT ![x] = "idle"]
        /\ xwin' = [xwin EXCEPT ![x] = NoWindow]
        /\ UNCHANGED storeVars
  /\ UNCHANGED <<clock, windowVars, tableVars, openVars, epc, hostVars, attVars, sockVars, standing>>

CloseTearDown(x) ==
  /\ xpc[x] = "tearDown"
  /\ tearDownWindow(xwin[x])
  /\ xpc' = [xpc EXCEPT ![x] = "idle"]
  /\ xwin' = [xwin EXCEPT ![x] = NoWindow]
  /\ UNCHANGED <<clock, windowVars, storeVars, openVars, epc, hostVars, attVars, standing>>

-----------------------------------------------------------------------------
(* The provisional arm of routeHostFrame *)

\* Host h's connection reads a frame on the provisional channel of w, and the clock.
HostRead(hc, h, w) ==
  /\ hpc[hc] = "idle"
  /\ w \in usedIds
  /\ hhost' = [hhost EXCEPT ![hc] = h]
  /\ hwin' = [hwin EXCEPT ![hc] = w]
  /\ hnow' = [hnow EXCEPT ![hc] = clock]
  /\ hpc' = [hpc EXCEPT ![hc] = "lookup"]
  /\ UNCHANGED <<clock, windowVars, storeVars, tableVars, openVars, closeVars>>
  /\ UNCHANGED <<attVars, sockVars, standing>>

HostReturn(hc) ==
  /\ hpc' = [hpc EXCEPT ![hc] = "idle"]
  /\ hhost' = [hhost EXCEPT ![hc] = AnyHost]
  /\ hwin' = [hwin EXCEPT ![hc] = NoWindow]
  /\ hnow' = [hnow EXCEPT ![hc] = 0]

\* A channel other than the open window's is no provisional channel: the frame
\* goes on to the registered channels (Router), which do not hold it.
HostLookup(hc) ==
  /\ hpc[hc] = "lookup"
  /\ LazyExpiry(hhost[hc], hnow[hc])
  /\ \/ /\ hwin[hc] \in OpenWindowAt(hhost[hc], hnow[hc])
        /\ hpc' = [hpc EXCEPT ![hc] = "forward"]
        /\ UNCHANGED <<hhost, hwin, hnow>>
     \/ /\ hwin[hc] \notin OpenWindowAt(hhost[hc], hnow[hc])
        /\ HostReturn(hc)
  /\ UNCHANGED <<clock, windowVars, tableVars, openVars, closeVars, attVars, sockVars, standing>>

\* Copied out of the table and queued to each socket: nothing here changes.
HostForward(hc) ==
  /\ hpc[hc] = "forward"
  /\ HostReturn(hc)
  /\ UNCHANGED <<clock, windowVars, storeVars, tableVars, openVars, closeVars>>
  /\ UNCHANGED <<attVars, sockVars, standing>>

-----------------------------------------------------------------------------
(* devicePairingAttach and its frames *)

PairGoto(pc, to) == ppc' = [ppc EXCEPT ![pc] = to]

\* The handler ends.
PairReturn(pc) ==
  /\ PairGoto(pc, "idle")
  /\ phost' = [phost EXCEPT ![pc] = AnyHost]
  /\ pwin' = [pwin EXCEPT ![pc] = NoWindow]
  /\ pnow' = [pnow EXCEPT ![pc] = 0]

\* The clock is read first.  A connection name is free once its old socket is closed.
PairStart(pc, h) ==
  /\ ppc[pc] = "idle"
  /\ pc \notin closing
  /\ phost' = [phost EXCEPT ![pc] = h]
  /\ pnow' = [pnow EXCEPT ![pc] = clock]
  /\ PairGoto(pc, "window")
  /\ UNCHANGED <<clock, windowVars, storeVars, tableVars, openVars, closeVars>>
  /\ UNCHANGED <<hostVars, pwin, sockVars, standing>>

\* With no open window the attach is refused with window_closed.
PairWindow(pc) ==
  LET open == OpenWindowAt(phost[pc], pnow[pc])
  IN  /\ ppc[pc] = "window"
      /\ LazyExpiry(phost[pc], pnow[pc])
      /\ \/ /\ open = {}
            /\ PairReturn(pc)
         \/ /\ \E w \in open : pwin' = [pwin EXCEPT ![pc] = w]
            /\ PairGoto(pc, "count")
            /\ UNCHANGED <<phost, pnow>>
      /\ UNCHANGED <<clock, windowVars, tableVars, openVars, closeVars, hostVars, sockVars, standing>>

\* Weakened form: one attach too many.
MayAttach_OffByOne(w) ==
  /\ w \in windows
  /\ PairingAttachesPerWindow > 0 => attaches[w] <= PairingAttachesPerWindow

\* CountWindowAttach's verdict.
MayAttach(w) ==
  /\ w \in windows
  /\ PairingAttachesPerWindow > 0 => attaches[w] < PairingAttachesPerWindow

PairCount(pc) ==
  /\ ppc[pc] = "count"
  /\ \/ /\ MayAttach(pwin[pc])
        /\ attaches' = [attaches EXCEPT ![pwin[pc]] = @ + 1]
        /\ PairGoto(pc, "insert")
        /\ UNCHANGED <<phost, pnow, pwin>>
     \/ /\ ~MayAttach(pwin[pc])
        /\ PairReturn(pc)
        /\ UNCHANGED attaches
  /\ UNCHANGED <<windows, winByHost, clock, windowVars, tableVars, openVars, closeVars>>
  /\ UNCHANGED <<hostVars, sockVars, standing>>

PairUpgradeFails(pc) ==
  /\ ppc[pc] = "insert"
  /\ PairReturn(pc)
  /\ UNCHANGED <<clock, windowVars, storeVars, tableVars, openVars, closeVars>>
  /\ UNCHANGED <<hostVars, sockVars, standing>>

\* The window is not looked at again before the socket enters the table.
PairInsert(pc) ==
  /\ ppc[pc] = "insert"
  /\ pairConns' = [pairConns EXCEPT ![pwin[pc]] = @ \cup {pc}]
  /\ PairGoto(pc, "read")
  /\ UNCHANGED <<winTimer, fireAt, phost, pnow, pwin>>
  /\ UNCHANGED <<clock, windowVars, storeVars, openVars, closeVars, hostVars, sockVars, standing>>

PairRead(pc) ==
  /\ ppc[pc] = "read"
  /\ standing' = {q \in standing \cup {pc} : q # pc \/ pwin[pc] \in windows}
  /\ PairGoto(pc, "lookup")
  /\ UNCHANGED <<phost, pnow, pwin>>
  /\ UNCHANGED <<clock, windowVars, storeVars, tableVars, openVars, closeVars, hostVars, sockVars>>

\* Weakened form: the window is not looked up for each frame.
PairLookup_Trusting(pc) ==
  /\ ppc[pc] = "lookup"
  /\ PairGoto(pc, "forward")
  /\ UNCHANGED <<sockVars, standing, phost, pnow, pwin>>
  /\ UNCHANGED <<clock, windowVars, storeVars, tableVars, openVars, closeVars, hostVars>>

\* A window gone from the store closes the connection with 4410.  LookupWindow
\* does not look at the expiry time.
PairLookup(pc) ==
  /\ ppc[pc] = "lookup"
  /\ \/ /\ pwin[pc] \in windows
        /\ PairGoto(pc, "forward")
        /\ UNCHANGED <<sockVars, standing>>
     \/ /\ pwin[pc] \notin windows
        /\ closed' = closed \cup {pc}
        /\ standing' = standing \ {pc}
        /\ PairGoto(pc, "cleanup")
        /\ UNCHANGED closing
  /\ UNCHANGED <<phost, pnow, pwin>>
  /\ UNCHANGED <<clock, windowVars, storeVars, tableVars, openVars, closeVars, hostVars>>

\* Forwarded to the host's connections, or answered peer_unavailable.
PairForward(pc) ==
  /\ ppc[pc] = "forward"
  /\ standing' = standing \ {pc}
  /\ PairGoto(pc, "read")
  /\ UNCHANGED <<phost, pnow, pwin>>
  /\ UNCHANGED <<clock, windowVars, storeVars, tableVars, openVars, closeVars, hostVars, sockVars>>

PairEnd(pc) ==
  /\ ppc[pc] = "read"
  /\ PairGoto(pc, "cleanup")
  /\ UNCHANGED <<phost, pnow, pwin>>
  /\ UNCHANGED <<clock, windowVars, storeVars, tableVars, openVars, closeVars>>
  /\ UNCHANGED <<hostVars, sockVars, standing>>

PairCleanup(pc) ==
  /\ ppc[pc] = "cleanup"
  /\ pairConns' = [pairConns EXCEPT ![pwin[pc]] = @ \ {pc}]
  /\ closed' = closed \ {pc}
  /\ PairReturn(pc)
  /\ UNCHANGED <<winTimer, fireAt, closing>>
  /\ UNCHANGED <<clock, windowVars, storeVars, openVars, closeVars, hostVars, standing>>

-----------------------------------------------------------------------------
OpenNext(o) ==
  \/ \E w \in WindowId, h \in Host : OpenStart(o, w, h)
  \/ OpenWindow(o) \/ OpenTearDown(o) \/ OpenArm(o)

ExpireNext(w) == TimerFire(w) \/ ExpireDelete(w) \/ ExpireTearDown(w)

CloseNext(x) == (\E w \in WindowId : CloseLookup(x, w)) \/ CloseDelete(x) \/ CloseTearDown(x)

HostNext(hc) ==
  \/ \E h \in Host, w \in WindowId : HostRead(hc, h, w)
  \/ HostLookup(hc) \/ HostForward(hc)

PairNext(pc) ==
  \/ \E h \in Host : PairStart(pc, h)
  \/ PairWindow(pc) \/ PairCount(pc) \/ PairUpgradeFails(pc) \/ PairInsert(pc)
  \/ PairRead(pc) \/ PairLookup(pc) \/ PairForward(pc) \/ PairEnd(pc) \/ PairCleanup(pc)
  \/ CloseSocket(pc)

Next ==
  \/ Tick
  \/ \E o \in Opener : OpenNext(o)
  \/ \E w \in WindowId : ExpireNext(w)
  \/ \E x \in Closer : CloseNext(x)
  \/ \E hc \in HostConn : HostNext(hc)
  \/ \E pc \in PairConn : PairNext(pc)

Spec == Init /\ [][Next]_vars

\* Time passes, a running handler is scheduled, a due timer's goroutine runs.
\* Nothing obliges a client to act.
Fairness ==
  /\ WF_vars(Tick)
  /\ \A o \in Opener : WF_vars(OpenWindow(o) \/ OpenTearDown(o) \/ OpenArm(o))
  /\ \A w \in WindowId : WF_vars(ExpireNext(w))

FairSpec == Spec /\ Fairness

-----------------------------------------------------------------------------
(* Properties *)

WindowOrNone == WindowId \cup {NoWindow}

\* Handlers hold ids that have been made.
HoldsWindow ==
  /\ \A o \in Opener : (opc[o] # "idle" => owin[o] \in usedIds) /\ (opc[o] = "tearDown" => ogone[o] \in usedIds)
  /\ \A x \in Closer : xpc[x] # "idle" => xwin[x] \in usedIds
  /\ \A hc \in HostConn : hpc[hc] # "idle" => hwin[hc] \in usedIds
  /\ \A pc \in PairConn : ppc[pc] \notin {"idle", "window"} => pwin[pc] \in usedIds

\* The types of the state.  With HoldsWindow: no handler tears down, counts or
\* inserts under a window it does not hold.
TypeOK ==
  /\ HoldsWindow
  /\ clock \in 0..MaxClock
  /\ usedIds \subseteq WindowId
  /\ winHost \in [WindowId -> Host]
  /\ expiresAt \in [WindowId -> Nat]
  /\ attaches \in [WindowId -> Nat]
  /\ windows \subseteq usedIds
  /\ winByHost \in [Host -> WindowOrNone]
  /\ pairConns \in [WindowId -> SUBSET PairConn]
  /\ winTimer \in [WindowId -> {"none", "armed", "fired"}]
  /\ fireAt \in [WindowId -> Nat]
  /\ opc \in [Opener -> {"idle", "open", "tearDown", "arm"}]
  /\ owin \in [Opener -> WindowOrNone] /\ ogone \in [Opener -> WindowOrNone]
  /\ xpc \in [Closer -> {"idle", "delete", "tearDown"}]
  /\ xwin \in [Closer -> WindowOrNone]
  /\ epc \in [WindowId -> {"idle", "delete", "tearDown"}]
  /\ hpc \in [HostConn -> {"idle", "lookup", "forward"}]
  /\ hhost \in [HostConn -> Host] /\ hnow \in [HostConn -> 0..clock]
  /\ hwin \in [HostConn -> WindowOrNone]
  /\ ppc \in [PairConn -> {"idle", "window", "count", "insert", "read", "lookup", "forward", "cleanup"}]
  /\ phost \in [PairConn -> Host] /\ pnow \in [PairConn -> 0..clock]
  /\ pwin \in [PairConn -> WindowOrNone]
  /\ closing \subseteq PairConn /\ closed \subseteq PairConn /\ standing \subseteq PairConn

\* At most one window is open per host, whatever openings, closes, timers and
\* lazy expiries interleave: the store holds exactly the windows its index
\* names, each under its own host (two live windows would mean two provisional
\* channels and an ambiguous AD).
WindowIndexed ==
  /\ \A w \in windows : winByHost[winHost[w]] = w
  /\ \A h \in Host : winByHost[h] # NoWindow => winByHost[h] \in windows /\ winHost[winByHost[h]] = h

\* The flood guard bounds the attaches that are running, not merely a counter:
\* however they interleave, no window carries more than its allowance, and one
\* that leaves does not make room for another.
FloodGuard ==
  PairingAttachesPerWindow > 0 => \A w \in WindowId :
    /\ attaches[w] <= PairingAttachesPerWindow
    /\ Cardinality({pc \in PairConn : pwin[pc] = w /\ (ppc[pc] = "insert" \/ Attached(pc))}) <= attaches[w]

\* An entry of the attach table is a running handler of that very window, and a
\* running handler missing from it has been closed or is about to be.
PairSocketAccounting ==
  /\ \A w \in WindowId : \A pc \in pairConns[w] : pwin[pc] = w /\ Attached(pc)
  /\ \A pc \in PairConn : Attached(pc) =>
       pc \in pairConns[pwin[pc]] \/ pc \in closing \cup closed

\* A pairing frame that arrives after its window was displaced, closed or
\* expired is never forwarded, although its socket may still be open.
RoutedWhileWindowStood == \A pc \in PairConn : ppc[pc] = "forward" => pc \in standing

\* A window is only ever removed by an explicit close, by a newer window of the
\* same host, or once its time is up: no timer of another window, and none armed
\* late, cuts it short.
NoEarlyExpiry ==
  [][\A w \in windows \ windows' :
       \/ clock >= expiresAt[w]
       \/ winByHost'[winHost[w]] \notin {w, NoWindow}
       \/ \E x \in Closer : xpc[x] = "delete" /\ xwin[x] = w]_vars

\* Every window leaves the store, even if no request ever touches it again.
WindowEventuallyGone == \A w \in WindowId : w \in windows ~> w \notin windows
=============================================================================
