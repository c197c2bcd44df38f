----------------------------- MODULE HostPresence ----------------------------
(***************************************************************************)
(* Presence of one host in internal/relay: touchHost, run by every host    *)
(* connection for each message it reads, against presenceDeadline, run by  *)
(* the offline timer, and the devices of the host's channels that are told *)
(* the outcome.                                                            *)
(*                                                                         *)
(* LookupHostPresence and PutHostPresence are two calls: both sides are a  *)
(* read-modify-write of the record with the lock released in between.  A   *)
(* timer that is Reset while its callback runs starts a second callback.   *)
(* The host's pairings do not change here, so a device stands for its      *)
(* attachment.  Close of the relay is left out.                            *)
(***************************************************************************)
EXTENDS Integers, FiniteSets

CONSTANTS
  HostConn,       \* connections of the host
  Callback,       \* bound on presenceDeadline callbacks running at once
  DevConn,        \* durable device connections on the host's channels
  OfflineAfter,   \* silence after which the host counts as offline
  NoTimer,        \* the timer is not running
  MaxClock,       \* bound on the clock
  MaxTouch        \* bound on the messages the host sends

ASSUME PresenceAssumption ==
  /\ OfflineAfter \in Nat \ {0}
  /\ MaxClock \in Nat
  /\ MaxTouch \in Nat
  /\ NoTimer \notin Nat

VARIABLES
  clock,
  rec,              \* MemStore.hostPres: [online, lastSeen]; no record reads as offline
  timer,            \* when presTimer is due, or NoTimer
  hpc, hnow, hwas,  \* touchHost: clock read first, online flag looked up
  cpc, crec,        \* presenceDeadline: record looked up
  crem,             \* time left, when it re-arms
  devConns,         \* Relay.devConns, all channels of the host
  dpc, dsnap,       \* device attach: presence looked up
  told,             \* what the last presence message queued to a device says
  touches,          \* how often the host was heard, to bound it
  overtaken         \* observer: devices whose last word another handler's step overtook

hostVars == <<hpc, hnow, hwas>>
cbVars   == <<cpc, crec, crem>>
devVars  == <<devConns, dpc, dsnap>>
obsVars  == <<touches, overtaken>>
vars == <<clock, rec, timer, hostVars, cbVars, devVars, told, obsVars>>

Record   == [online : BOOLEAN, lastSeen : Nat]
NoRecord == [online |-> FALSE, lastSeen |-> 0]

Init ==
  /\ clock = 0
  /\ rec = NoRecord
  /\ timer = NoTimer
  /\ hpc = [hc \in HostConn |-> "idle"]
  /\ hnow = [hc \in HostConn |-> 0]
  /\ hwas = [hc \in HostConn |-> FALSE]
  /\ cpc = [cb \in Callback |-> "idle"]
  /\ crec = [cb \in Callback |-> NoRecord]
  /\ crem = [cb \in Callback |-> 0]
  /\ devConns = {}
  /\ dpc = [dc \in DevConn |-> "idle"]
  /\ dsnap = [dc \in DevConn |-> FALSE]
  /\ told = [dc \in DevConn |-> FALSE]
  /\ touches = 0
  /\ overtaken = {}

HandlersIdle ==
  /\ \A hc \in HostConn : hpc[hc] = "idle"
  /\ \A cb \in Callback : cpc[cb] = "idle"

\* Bound: the last OfflineAfter units are kept for the timers already set.
Tick ==
  /\ clock < MaxClock
  /\ clock < MaxClock - OfflineAfter \/ HandlersIdle
  /\ clock' = clock + 1
  /\ UNCHANGED <<rec, timer, hostVars, cbVars, devVars, told, obsVars>>

\* broadcastHostPresence: queued to every attached device under Relay.mu.  A device is
\* overtaken when its last word is not what the record says by now: this message, or
\* the snapshot it took before and is sent after.
Broadcast(online) ==
  /\ told' = [dc \in DevConn |-> IF dc \in devConns THEN online ELSE told[dc]]
  /\ overtaken' = {dc \in DevConn :
       IF dc \in devConns
       THEN dpc[dc] # "lookup" /\ (IF dpc[dc] = "send" THEN dsnap[dc] ELSE online) # rec.online
       ELSE dc \in overtaken}

-----------------------------------------------------------------------------
(* touchHost *)

HostGoto(hc, pc) == hpc' = [hpc EXCEPT ![hc] = pc]

\* A message (or the attach itself) arrives; the clock is read first.
TouchStart(hc) ==
  /\ hpc[hc] = "idle"
  /\ touches < MaxTouch
  /\ clock < MaxClock - OfflineAfter
  /\ touches' = touches + 1
  /\ hnow' = [hnow EXCEPT ![hc] = clock]
  /\ HostGoto(hc, "lookup")
  /\ UNCHANGED <<clock, rec, timer, hwas, cbVars, devVars, told, overtaken>>

TouchLookup(hc) ==
  /\ hpc[hc] = "lookup"
  /\ hwas' = [hwas EXCEPT ![hc] = rec.online]
  /\ HostGoto(hc, "put")
  /\ UNCHANGED <<clock, rec, timer, hnow, cbVars, devVars, told, obsVars>>

\* A deadline turned the record offline after the touch looked it up as online.
FlipMissed(hc) == hwas[hc] /\ ~rec.online

\* Weakened form: the flag is compared after it has been set.
TouchPut_NeverFlips(hc) ==
  /\ hpc[hc] = "put"
  /\ rec' = [online |-> TRUE, lastSeen |-> hnow[hc]]
  /\ HostGoto(hc, "arm")
  /\ hnow' = [hnow EXCEPT ![hc] = 0]
  /\ hwas' = [hwas EXCEPT ![hc] = FALSE]
  /\ overtaken' = IF FlipMissed(hc) THEN overtaken \cup devConns ELSE overtaken
  /\ UNCHANGED <<clock, timer, cbVars, devVars, told, touches>>

\* Only a flip to online is broadcast.
TouchPut(hc) ==
  /\ hpc[hc] = "put"
  /\ rec' = [online |-> TRUE, lastSeen |-> hnow[hc]]
  /\ HostGoto(hc, IF hwas[hc] THEN "arm" ELSE "broadcast")
  /\ hnow' = [hnow EXCEPT ![hc] = 0]
  /\ hwas' = [hwas EXCEPT ![hc] = FALSE]
  /\ overtaken' = IF FlipMissed(hc) THEN overtaken \cup devConns ELSE overtaken
  /\ UNCHANGED <<clock, timer, cbVars, devVars, told, touches>>

TouchBroadcast(hc) ==
  /\ hpc[hc] = "broadcast"
  /\ Broadcast(TRUE)
  /\ HostGoto(hc, "arm")
  /\ UNCHANGED <<clock, rec, timer, hnow, hwas, cbVars, devVars, touches>>

\* Weakened form: a timer that exists is not Reset.
TouchArm_NoReset(hc) ==
  /\ hpc[hc] = "arm"
  /\ timer' = IF touches = 1 THEN clock + OfflineAfter ELSE timer
  /\ HostGoto(hc, "idle")
  /\ UNCHANGED <<clock, rec, hnow, hwas, cbVars, devVars, told, obsVars>>

\* The timer is created or Reset: due a full OfflineAfter from now.
TouchArm(hc) ==
  /\ hpc[hc] = "arm"
  /\ timer' = clock + OfflineAfter
  /\ HostGoto(hc, "idle")
  /\ UNCHANGED <<clock, rec, hnow, hwas, cbVars, devVars, told, obsVars>>

-----------------------------------------------------------------------------
(* presenceDeadline *)

CbGoto(cb, pc) == cpc' = [cpc EXCEPT ![cb] = pc]

CbReturn(cb) ==
  /\ CbGoto(cb, "idle")
  /\ crec' = [crec EXCEPT ![cb] = NoRecord]
  /\ crem' = [crem EXCEPT ![cb] = 0]

TimerFire(cb) ==
  /\ cpc[cb] = "idle"
  /\ timer # NoTimer
  /\ clock >= timer
  /\ timer' = NoTimer
  /\ CbGoto(cb, "lookup")
  /\ UNCHANGED <<clock, rec, hostVars, crec, crem, devVars, told, obsVars>>

DeadlineLookup(cb) ==
  /\ cpc[cb] = "lookup"
  /\ crec' = [crec EXCEPT ![cb] = rec]
  /\ CbGoto(cb, "decide")
  /\ UNCHANGED <<clock, rec, timer, hostVars, crem, devVars, told, obsVars>>

\* The clock is read after the record.
Silent(cb) == clock - crec[cb].lastSeen

\* Weakened form: silence of exactly OfflineAfter is taken for a raced heartbeat,
\* and the callback gives up.
DeadlineDecide_GivesUp(cb) ==
  /\ cpc[cb] = "decide"
  /\ \/ /\ Silent(cb) <= OfflineAfter \/ ~crec[cb].online
        /\ CbReturn(cb)
     \/ /\ Silent(cb) > OfflineAfter /\ crec[cb].online
        /\ CbGoto(cb, "put")
        /\ UNCHANGED <<crec, crem>>
  /\ UNCHANGED <<clock, rec, timer, hostVars, devVars, told, obsVars>>

\* Weakened form: re-armed for the remainder even if nothing remains.
DeadlineDecide_OffByOne(cb) ==
  /\ cpc[cb] = "decide"
  /\ \/ /\ Silent(cb) <= OfflineAfter
        /\ crem' = [crem EXCEPT ![cb] = OfflineAfter - Silent(cb)]
        /\ CbGoto(cb, "rearm")
        /\ UNCHANGED crec
     \/ /\ Silent(cb) > OfflineAfter /\ ~crec[cb].online
        /\ CbReturn(cb)
     \/ /\ Silent(cb) > OfflineAfter /\ crec[cb].online
        /\ CbGoto(cb, "put")
        /\ UNCHANGED <<crec, crem>>
  /\ UNCHANGED <<clock, rec, timer, hostVars, devVars, told, obsVars>>

\* A heartbeat raced the timer: re-arm for the remainder.  Already offline: done.
DeadlineDecide(cb) ==
  /\ cpc[cb] = "decide"
  /\ \/ /\ Silent(cb) < OfflineAfter
        /\ crem' = [crem EXCEPT ![cb] = OfflineAfter - Silent(cb)]
        /\ CbGoto(cb, "rearm")
        /\ UNCHANGED crec
     \/ /\ Silent(cb) >= OfflineAfter /\ ~crec[cb].online
        /\ CbReturn(cb)
     \/ /\ Silent(cb) >= OfflineAfter /\ crec[cb].online
        /\ CbGoto(cb, "put")
        /\ UNCHANGED <<crec, crem>>
  /\ UNCHANGED <<clock, rec, timer, hostVars, devVars, told, obsVars>>

DeadlineRearm(cb) ==
  /\ cpc[cb] = "rearm"
  /\ timer' = clock + crem[cb]
  /\ CbReturn(cb)
  /\ UNCHANGED <<clock, rec, hostVars, devVars, told, obsVars>>

\* The record looked up is written back with Online cleared, whatever a touch
\* has written since.
DeadlinePut(cb) ==
  /\ cpc[cb] = "put"
  /\ rec' = [crec[cb] EXCEPT !.online = FALSE]
  /\ CbGoto(cb, "broadcast")
  /\ UNCHANGED <<clock, timer, hostVars, crec, crem, devVars, told, obsVars>>

DeadlineBroadcast(cb) ==
  /\ cpc[cb] = "broadcast"
  /\ Broadcast(FALSE)
  /\ CbReturn(cb)
  /\ UNCHANGED <<clock, rec, timer, hostVars, devVars, touches>>

-----------------------------------------------------------------------------
(* The device side of deviceChannelAttach *)

DevInsert(dc) ==
  /\ dpc[dc] = "idle"
  /\ devConns' = devConns \cup {dc}
  /\ dpc' = [dpc EXCEPT ![dc] = "lookup"]
  /\ UNCHANGED <<clock, rec, timer, hostVars, cbVars, dsnap, told, obsVars>>

\* Current host presence, once: looked up in the store ...
DevLookup(dc) ==
  /\ dpc[dc] = "lookup"
  /\ dsnap' = [dsnap EXCEPT ![dc] = rec.online]
  /\ dpc' = [dpc EXCEPT ![dc] = "send"]
  /\ overtaken' = overtaken \ {dc}
  /\ UNCHANGED <<clock, rec, timer, hostVars, cbVars, devConns, told, touches>>

\* ... and queued to the socket afterwards.
DevSend(dc) ==
  /\ dpc[dc] = "send"
  /\ told' = [told EXCEPT ![dc] = dsnap[dc]]
  /\ dsnap' = [dsnap EXCEPT ![dc] = FALSE]
  /\ dpc' = [dpc EXCEPT ![dc] = "read"]
  /\ UNCHANGED <<clock, rec, timer, hostVars, cbVars, devConns, obsVars>>

DevDetach(dc) ==
  /\ dpc[dc] = "read"
  /\ devConns' = devConns \ {dc}
  /\ told' = [told EXCEPT ![dc] = FALSE]
  /\ dpc' = [dpc EXCEPT ![dc] = "idle"]
  /\ overtaken' = overtaken \ {dc}
  /\ UNCHANGED <<clock, rec, timer, hostVars, cbVars, dsnap, touches>>

-----------------------------------------------------------------------------
TouchNext(hc) == TouchLookup(hc) \/ TouchPut(hc) \/ TouchBroadcast(hc) \/ TouchArm(hc)

DeadlineNext(cb) ==
  \/ TimerFire(cb)
  \/ DeadlineLookup(cb) \/ DeadlineDecide(cb) \/ DeadlineRearm(cb)
  \/ DeadlinePut(cb) \/ DeadlineBroadcast(cb)

Next ==
  \/ Tick
  \/ \E hc \in HostConn : TouchStart(hc) \/ TouchNext(hc)
  \/ \E cb \in Callback : DeadlineNext(cb)
  \/ \E dc \in DevConn : DevInsert(dc) \/ DevLookup(dc) \/ DevSend(dc) \/ DevDetach(dc)

Spec == Init /\ [][Next]_vars

\* Time passes and running goroutines are scheduled; nothing makes the host send.
Fairness ==
  /\ WF_vars(Tick)
  /\ \A hc \in HostConn : WF_vars(TouchNext(hc))
  /\ \A cb \in Callback : WF_vars(DeadlineNext(cb))

FairSpec == Spec /\ Fairness

-----------------------------------------------------------------------------
(* Properties *)

HostPc == {"idle", "lookup", "put", "broadcast", "arm"}
CbPc   == {"idle", "lookup", "decide", "rearm", "put", "broadcast"}

\* The types of the state.  With them: no timestamp is ahead of the clock, and a
\* re-armed timer is set for a positive remainder.
TypeOK ==
  /\ clock \in Nat
  /\ rec \in Record
  /\ timer \in Nat \cup {NoTimer}
  /\ hpc \in [HostConn -> HostPc] /\ hnow \in [HostConn -> Nat] /\ hwas \in [HostConn -> BOOLEAN]
  /\ cpc \in [Callback -> CbPc] /\ crec \in [Callback -> Record] /\ crem \in [Callback -> Nat]
  /\ devConns \subseteq DevConn
  /\ dpc \in [DevConn -> {"idle", "lookup", "send", "read"}]
  /\ dsnap \in [DevConn -> BOOLEAN]
  /\ told \in [DevConn -> BOOLEAN]
  /\ touches \in Nat
  /\ overtaken \subseteq DevConn
  /\ rec.lastSeen <= clock
  /\ \A hc \in HostConn : hnow[hc] <= clock
  /\ \A cb \in Callback : crec[cb].lastSeen <= clock /\ (cpc[cb] = "rearm" => crem[cb] \in 1..OfflineAfter)

\* An online record always has someone who will question it: a running timer, a
\* callback that will read or has read it, or a touch about to arm the timer.
\* Without one the host would stay online for ever.
OnlineIsGuarded ==
  rec.online =>
    \/ timer # NoTimer
    \/ \E hc \in HostConn : hpc[hc] \in {"broadcast", "arm"}
    \/ \E cb \in Callback : cpc[cb] \in {"lookup", "rearm", "put"}
    \/ \E cb \in Callback : cpc[cb] = "decide" /\ crec[cb].online

\* A host that falls silent ends up offline and stays so, through every race of
\* its last messages with the timer.
SilentGoesOffline == <>[](~rec.online)

\* A transition that was stored is still to be broadcast.
Announcing ==
  \/ \E hc \in HostConn : hpc[hc] = "broadcast"
  \/ \E cb \in Callback : cpc[cb] = "broadcast"

\* ws.go:464: a device knows from its attach on whether the host is online, by the
\* snapshot or by a transition that "may never come".  With no broadcast pending, the
\* last word every attached device has is what the record says, unless it was
\* overtaken: broadcasts of a touch and a deadline in the other order than their
\* puts, a snapshot sent after a broadcast that followed it, or a touch that looked
\* before a deadline turned the host offline and put after it.
ToldUnlessOvertaken ==
  ~Announcing =>
    \A dc \in DevConn : dpc[dc] = "read" => told[dc] = rec.online \/ dc \in overtaken

\* presence.go:103, "re-arm for the remainder rather than flipping a live host offline":
\* a record goes offline only when nothing was heard of the host for OfflineAfter.
LiveHostStaysOnline ==
  [][rec.online /\ ~rec'.online => clock - rec.lastSeen >= OfflineAfter]_vars
=============================================================================
