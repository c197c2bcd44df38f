# kameas-relay: TLA+ models, checks and proofs

`kameas-relay` is a store-nothing-readable relay between a desktop *host* and its
operator's *devices*.  Both ends keep WebSockets to the relay; what travels on
them is end-to-end encrypted and opaque to it.  The relay's own duties are
routing, buffering for absent devices, presence, pairing windows, push triggers
and revocation.  All of them are short handlers over shared maps, run by one
goroutine per request, per socket and per timer.  The repository also holds the two
ends and an in-process double of the relay, which the conformance suite runs
against each other.  The arithmetic is easy; what is hard to test is what happens
*between* the critical sections of a handler, and between two processes that
crash, reconnect and lose frames.  That is what this project models.

## 1. The system

### 1.1 Concurrency structure

* `MemStore` (`internal/relay/store.go`) serialises every `Store` call with one
  mutex.  A handler usually makes two to four of these calls.
* `Relay.mu` (`relay.go`) guards the connection tables (`hostConns`, `devConns`,
  `pairConns`) and the timers.  It is never held across a store call.
* Callers that hand a time to the store read the clock before they take its lock.
* `conn.enqueue` never blocks; each socket has a writer goroutine.
* `fakerelay` and `fakehost` each hold one mutex for a whole handler.  Their timers
  (window expiry, approval timeout, event and approval loops) wait for that mutex
  in goroutines of their own, so a callback may run after `Stop` came too late.
* `devclient` is sequential: one Connect or Session per process, with a state file
  written between its steps.
* The JWKS cache (`internal/jwtverify/jwks.go`) has a mutex of its own that is not
  held during the fetch.

So in every module **one action is one critical section** (one store call, one
section under `Relay.mu`, one clock read, one send), and a handler is a program
counter that walks through them.  Anything else may run in between.

### 1.2 Inventory

| component | code | state | operations | what makes it correct |
|---|---|---|---|---|
| routing registrations | store.go, handler.go | `pairings`, `byChannel`, push tokens | POST / DELETE / PATCH pairings, POST apns | the two maps agree; a deletion takes everything with it |
| frame router | ws.go | the connection tables, a frame in a handler's hands | `routeHostFrame` (three-way split), `routeDeviceFrame` | a frame is routed only under a live registration, and has exactly one of the three outcomes |
| device presence (§6.1) | presence.go, ws.go | one record per channel | `setDeviceAttached`, snapshot of a host attach | the host is told what the socket table says |
| host presence (§6) | presence.go, ws.go | one record and one timer per host | `touchHost`, `presenceDeadline`, snapshot of a device attach | a silent host goes offline, a live one does not |
| pairing windows | handler.go, store.go, ws.go | windows, index by host, timers, attaches | open (displacing), close, timer expiry, lazy expiry, attach, frames | at most one window per host; it ends on time and takes its attaches with it; the flood guard |
| ciphertext mailbox | store.go, handler.go, ws.go | items and a running byte total | append (prune, evict), paged fetch | caps, exact accounting, non-destructive and complete reads |
| push trigger | ws.go, apns.go | tokens | `maybePush` | a push only for a buffered frame |
| account bindings | store.go, authz.go | host to account binding with idle reaper | bind, touch, check | one account per host; no use of a reaped binding |
| rate limiter | ratelimit.go | token buckets | allow, sweep | a sweep forgets nothing a caller could exploit |
| send queue | ws.go | bounded queue per socket | enqueue, close, writer | order; nothing after a close |
| JWKS cache, token verification | internal/jwtverify | key set with expiry, one refresh in flight | get, refresh, key lookup | fails closed |
| device client | devclient | persisted state, sequence tracker | pair, drain, connect, send, receive | every frame at most once, gaps noticed, no number used twice |
| fake host | fakehost | token and strikes, device record, session, approvals | pairing, handshake, class choice, events, approvals | a token pairs one device, the one the operator saw; first decision wins; absence of consent is denial |
| sequence tracker | e2ekit/seq.go | last seen seq, per-session flags | accept live, accept mailbox | no duplicate accepted, no gap missed |
| fakerelay | internal/fakerelay | the same maps under ONE mutex | the same operations, atomically | no frame duplicated; the host's view of the device converges |
| key schedule, AEAD, QR and frame encodings | e2ekit, wire | none | pure functions on bytes | vectors in the repository's tests |
| configuration, error table, commands | internal/relay, cmd | none | parsing | - |

Interactions: a host frame goes socket, registration lookup, table test, then
either the table again (live) or the mailbox and the push trigger.  A device
attach writes the table, then the presence record, then tells the host's
sockets.  A DELETE removes store state, then takes the channel's sockets, then
closes them.  A window's end comes from four places: a newer window, a DELETE,
its timer, or any lookup that finds it late.  A device's reconnect goes mailbox pages,
saved mark, socket, handshake, snapshot; the host chooses live or mailbox class from
the presence messages it has read so far, which lag behind the relay's tables.

`PROJECT.json` lists the same components with their status, and under `hazards`
each place where this structure can go wrong, by line.

## 2. Modules

| module | models | depends on |
|---|---|---|
| `MailboxOps` | what append, prune, evict and fetch compute (pure operators) | - |
| `Mailbox` | one channel's mailbox between host connections that stamp items outside the lock and clients that page it | `MailboxOps` |
| `MCMailbox` | symmetry set for TLC | `Mailbox` |
| `MailboxProofs` | theorems about `Mailbox`, on lemmas about what the operators of `MailboxOps` compute | `Mailbox` |
| `Router` | registrations, revocation, both frame directions, mailbox arm, push trigger, token registration, device presence | - |
| `MCRouter` | symmetry sets and state constraint for TLC | `Router` |
| `RouterProofs` | theorems about `Router` | `Router` |
| `PairingWindow` | the whole life of pairing windows and of the attaches on them | - |
| `MCPairingWindow` | symmetry sets for TLC | `PairingWindow` |
| `PairingWindowProofs` | theorems about `PairingWindow` | `PairingWindow` |
| `HostPresence` | `touchHost` against `presenceDeadline` and its timer, with attached devices | - |
| `HostPresenceProofs` | theorems about `HostPresence` | `HostPresence` |
| `Accounts` | account bindings, the idle reaper, and the account check of attaches and registrations | - |
| `KeyCache` | token verification over the JWKS cache: shared refresh, expiry, unknown-kid throttle | - |
| `MCAuth` | the two parts that admit a request side by side, for TLC | `KeyCache`, `Accounts` |
| `AuthProofs` | theorems about the two parts that admit a request: `KeyCache` and `Accounts` | `KeyCache`, `Accounts` |
| `SeqTracker` | the sequence tracker of e2ekit (pure operators) | - |
| `OrderedOnce` | abstract: one direction of a channel, each number taken at most once and in order | - |
| `Delivery` | a paired channel end to end: fakehost, fakerelay, devclient; implements `OrderedOnce` in both directions | `SeqTracker`, `OrderedOnce` |
| `DeliveryProofs` | theorems about `Delivery`, both refinements of `OrderedOnce` among them | `Delivery` |
| `Ceremony` | the pairing ceremony end to end: fakehost, fakerelay, `devclient.Pair` | `SeqTracker` |
| `CeremonyProofs` | theorems about `Ceremony` | `Ceremony` |
| `DecideOnce` | abstract: an approval is opened, then decided once | - |
| `Approvals` | fakehost's approvals between device, timers and sessions; implements `DecideOnce` | `DecideOnce` |
| `ApprovalsProofs` | theorems about `Approvals`, the refinement among them | `Approvals` |

### 2.1 Correspondence

`PROJECT.json` `map` gives the lines of every definition.  In outline:

**Router.**  `CreatePairing` is one store call.  `DeleteLookup`, `DeletePairing`,
`DeleteTakeConns`, `DeleteCloseConns` are the four steps of the DELETE handler; a
second DELETE may be anywhere among them.  `RegisterCheckOwner` and
`RegisterPutToken` are the two of POST apns.  A host socket runs `HostAttach`,
`HostListPairings`, per channel `HostSnapLookup` and `HostSnapSend`, then per
frame `HostRead`, `HostLookup`, `HostCheckAttached` and either `HostForward`
or `HostAppendMailbox` and `HostMaybePush`.  A device socket runs `DevAuthorize`,
`DevCheckCap`, `DevInsert`, the four steps of `setDeviceAttached`, and per frame
`DevRead`, `DevLookup`, `DevForward`.  A frame is a sequence number, a channel,
whether it asks for a push and whether its body alone is above the mailbox's byte cap
(then the append evicts everything, the frame included, and the push goes out all
the same); refused requests change nothing and do not appear.
`fate`, `pushed`, `seen`, `raced`, `overlapped`, `overtaken` and `sent` are observers: no
guard but the bound on `sent` reads them.  `overlapped` has the channels whose last
presence transition met another transition or a revocation half-way, or found no
registration to announce; `overtaken` the host connections whose last word on a channel
is a snapshot read before a transition and queued after it.

**PairingWindow.**  A window's id, host and expiry are fixed by `OpenStart`
before the store sees it; `OpenWindow` stores and displaces, `OpenTearDown` tears
the displaced one down, `OpenArm` sets the timer - three critical sections, so a
window can be displaced before it has a timer.  `LazyExpiry` is the deletion
hidden inside `WindowForHost`, shared by host frames and attaches.

**HostPresence.**  Both `touchHost` and `presenceDeadline` look the record up,
release the lock, and write it back.  A timer that is reset while its callback
runs starts a second callback, so callbacks overlap.  `told` is the last presence message
a device was sent, and `overtaken` observes the devices whose word went out, or was
stored, in another order than the record changed.

**Mailbox.**  `StampItem` and `RequestPage` read the clock, `AppendMailbox` and
`FetchMailbox` are the store calls.  `AppendItem` prunes, appends and evicts in
one step, as the code does under its lock.  `Prune` stops at the first unexpired
item; a body above the byte cap evicts everything, itself included.  `FetchItem` is the
body of fetch's loop, `Page` the loop, and `Received` what a client does with a page.
The relay does not
order what hosts send, so sequence numbers come in any order and an item stamped early
may be stored late.  `overtaken` observes which items were stored behind one with a later
stamp; nothing reads it.

**Accounts.**  A host connection binds (`BindHost`, or is refused), upgrades or
fails to, leaves the table and touches the binding; a POST pairings checks the
account and then registers.  Each is one store call.  `Binding` is
`bindingLocked`: every lookup reaps.  Time passes at any step, so the horizon may be reached
between account check and registration; `exposed` observes the requests whose
binding was reaped there.  Its specification is
`AccountsSpec`, with `AccountsInit`, `AccountsNext` and `AccountsTypeOK`: one proof module
extends both it and `KeyCache`, and so does `MCAuth`.

**KeyCache.**  A request reads the clock once, then walks through `Get`,
`MayRefresh`, `RefreshLead` or `RefreshJoin`, and what follows the refresh; each is
one critical section of the cache.  The fetch is outside the lock and ends with
keys or without.  Waiters are woken by closing their channels and learn nothing of
how the refresh ended, as in the code.  Whether a signature and the claims are good
depends on the token alone and is a choice.

**Delivery.**  Three records - `host` (the device record and the session), `relay`
(this channel's connections, presence, mailbox and what is in flight) and `dev`
(the State, saved and in memory, and the running Connect or Session).  One
action is one message handled under `fakehost`'s or `fakerelay`'s mutex, or one step
of the device between two writes.  A frame of class P is plaintext, L is sealed on the
session stream, M is sealed for the mailbox; keys are the pair of the connection
attempt and the host's nonce, and a frame opens only under the keys that sealed it.
The device may crash or give up at any step, and any of its saves may fail: one before a
write ends the send, those of the receive mark are ignored (session.go:217, 331, 435, 452),
so that the State in memory is ahead of the one a crash falls back to.  The relay may still
read frames of a connection whose device is gone; queues are bounded and drop; the
mailbox evicts and expires.  `hist` counts what was sent and accepted and is read by
no guard.

**Ceremony.**  An attempt is one call of `devclient.Pair` with its own device id,
keys and nonce; a token is named by the window it was minted for.  `PairAttach` and
`PairInsert` are the two sections of the pairing attach, `HostRead` is one frame
handled by the host, and the operator's answer is a step of its own, taken while
the host holds its mutex and the relay goes on.  `PostWindow` and
`OpenPairingWindow` are apart because the token is installed after the relay has
answered.

**Approvals.**  A timer is `armed`, `fired` (its callback waits for the mutex) or
`done`; `Stop` has an effect only on an armed one.  The approval loop of an aborted
session may raise its approval in the next session.  The device may decide about any id,
any number of times up to the bound, and with the word the code refuses.

## 3. What TLC checks

Passing runs:

| run | instance | shows |
|---|---|---|
| `Mailbox` | 2 writers, 1 reader, 4 frames of 0, 3 or 4 bytes, caps of 3, TTL 1, pages of 2 | `CapsAndAccounting`: the incremental byte total is exact and both caps hold; `DrainComplete`: paging neither skips nor hides a frame that is still there; `NoExpiredPage`: a page holds an expired frame only if it was stored behind one stamped later; `NonDestructiveReads`: only TTL removes an item when nothing is appended |
| `Router` | 1 channel, 1 host socket, 1 host frame, a push token, a mailbox of 1, attach cap 1; and, one at a time, 2 hosts with 2 registrations and 2 concurrent DELETEs, 2 device sockets, or frames of any size that ask for a push | `StoreIndexed`: the store's maps agree; `RoutedUnderRegistration`: no frame is routed under a registration that was gone before the frame was read, even when the channel is registered again for the other host; `SocketAccounting`: every entry of the socket table is a running handler of that channel and every running handler is in it, closed, or about to be closed; `LostOnlyToDetach`: a frame finds an empty table only when a socket left during its routing; `PushOnlyForBuffered`: no push for a frame that was forwarded, lost or refused, only for one given to the mailbox, which keeps it unless its body alone is above the byte cap; `HostToldOfDevice`: once handlers have settled, a reading host was last told "attached" of every channel of its registrations that has a socket, unless the channel is in `overlapped` or the pair in `overtaken` |
| `PairingStore` | 2 hosts, 2 windows, 2 openers, a closer, a host frame | `WindowIndexed`: one window per host; `NoEarlyExpiry`: none is cut short by another's timer; `WindowEventuallyGone` (liveness) |
| `PairingAttach` | 1 host, 2 windows, 2 attaches, allowance 1 | `PairSocketAccounting`, `RoutedWhileWindowStood`: an attach that outlives its window forwards nothing; `FloodGuard`: the allowance bounds running attaches |
| `HostPresence` | 2 host sockets, 2 overlapping callbacks, 1 device, 3 messages | `OnlineIsGuarded`: an online record always has a timer, callback or touch that will question it; `ToldUnlessOvertaken`: with no broadcast pending, the last word of an attached device is what the record says, unless it was overtaken; `SilentGoesOffline` (liveness) |
| `Auth` | either 2 accounts, 1 host, 3 connections, 2 registrations, horizon 2 in a clock of 4, or 2 requests, 2 kids, TTL 2, interval 2 | `PairingsOfBoundAccount`: a registration keeps its host bound to the account that made it, unless the binding was reaped between check and registration; `AttachedShareAccount`: two accounts are attached under one host_id only a whole horizon apart; `SingleFlight`; `FreshOrMisled`: nothing is accepted under an expired key set but by the waiter of a failed refresh; `UnknownKidThrottled`; `RequestAnswered` (liveness) |
| `Delivery` | 2 connects, 5 host and 3 device numbers, queues and mailbox of 2, pages of 1 | `HostToDevice`, `DeviceToHost`: each direction implements `OrderedOnce`, with failed saves and crashes in any order; `SkippedMeansReconcile`: an established session has accepted every number since the mark it started from, or expects the reconcile; `HostViewConverges`: when the host has read what is queued, it knows whether the device is attached |
| `Ceremony` | 2 Pair calls, 2 windows, 1 strike, 2 attaches, queue of 3 | `PairedAgrees`: a device that keeps a State has a channel registered for it and starts from the host's counters; `OneDevicePerToken`; `ConsentNamesDevice`: who is recorded is who the operator saw; `WrongMacsBounded`; `PairReturns` (liveness) |
| `Approvals` | 2 approvals, 2 sessions, 2 requests | `FirstDecisionWins`: implements `DecideOnce` by the ledger; `GrantedByConsent`: what is granted a device allowed, and what the device was told the ledger has; `EveryApprovalDecided` (liveness) |

Three runs find a disagreement between the code and its comments (`findings` quotes the
lines):

| run | property | trace |
|---|---|---|
| `DeliveryGap` | `GapMandatesReconcile` | a Connect drains past a gap, saves its mark (devclient/session.go:328), and fails before its session is up; the next Connect starts past the gap, meets none, and its session does not expect the reconcile |
| `HostPresenceLive` | `LiveHostStaysOnline` | a deadline callback looks up a record that has been silent long enough; a touch stores a new time stamp; the callback writes its copy back, offline and with the old stamp (presence.go:116), although the comment above it promises not to flip a live host |
| `KeyCacheStale` | `FailsClosed` | the key set expires, one request fetches and another waits; the fetch fails, the waiter is told nil (jwks.go:103) and takes the expired key, where verify.go:202 says that a stale entry is not good enough |

### 3.1 Refinement

`OrderedOnce` states what a direction of a channel promises for the lifetime of a
pairing: a sender never uses a number again, a receiver takes numbers in ascending
order and at most once, gaps allowed.  A receiver that could not keep its mark (`unkept`)
may by a crash be thrown back to the one it kept last, no further; that is the promise left
when the errors of saves are ignored, and a receiver that does not save at all does not
meet it.  `Delivery` implements it twice.  Host to device
maps the host's own counter and what drains, Connects and `Recv` accept; device to host
maps the frames that reached a wire, not the counter, so that a save that fails
between counting and writing is in the picture.  A handler that answers at once sends
several frames, hence `Send` may take several numbers.

`DecideOnce` lets an approval go from none to open to a verdict, once.  `Approvals`
implements it with the verdict read off the ledger, which is written by whoever
resolves; a second entry maps to no verdict at all.

### 3.2 Bounds

Bounds are constants in the `.cfg` files and guards in the modules (`MaxSeq`,
`MaxClock`, `LastDay`, `MaxTouch`, `MaxConnect`, `MaxH2D`, `MaxD2H`, `MaxWindow`, `MaxSession`,
`MaxRequest`, the id sets).  Ids are consumed, so `PairingId` and `WindowId` bound the
number of registrations and windows of a behaviour.

* Handlers of one kind interact only through the shared maps, so two of a kind
  exhibit every pairwise race.  The state constraint `Focus` of `MCRouter` lifts one bound
  at a time: two DELETEs and registrations beside one socket, two sockets beside one
  registration, or pushes and oversized frames beside one of each.  It also ends a
  behaviour once its one host frame is dealt with (`FrameToCome`): what the frame leaves
  behind is read only by later frames, so everything after it also happens before it.
* `MCAuth` runs two modules in one run.  They share no state, so a behaviour is one of either
  (`gate`) and the two are not interleaved.
* The attach cap is 1 where there are two sockets, so that both the refusal and the
  race past it happen.
* The channel is one: no handler touches two, except the host's snapshot, which
  treats them in turn.  Two hosts matter, because a channel may change hands.
* Mailbox: three frames fill the caps, the fourth evicts; bodies are empty, at and
  above the byte cap; a page of two under a cap of three is full, partly full or
  empty.
* Clock: TTLs of 1 or 2 units, so "before", "at" and "after" are all reachable.
* Delivery: two connects are the least with a stale connection beside a live one; five
  host numbers let a mailbox of two evict before the second connect and leave
  frames for the live path; queues of two overflow.  The first device number is
  the pairing's; two more are a confirmation and an RPC, or two confirmations.  About 3 million states.
* Ceremony: two attempts and two windows give a stale QR, a displaced window and a
  broadcast read by the wrong device; one strike puts the token's end within reach
  (the code allows five).
* Accounts: a horizon of two in a clock of four lets a binding be reaped twice; the
  third connection is the one that returns after another account was bound.
* KeyCache: the clock reaches past one TTL and one refresh interval; kids rotate,
  since a fetch may return any non-empty set.

Deadlock is checked in the `Router` run, where a new request is always possible.
The other modules stop when their clock, ids, numbers and messages are used up, which
is the bound's doing and not the code's, so their configurations turn it off.

### 3.3 Fairness

Each liveness property has a `FairSpec` that assumes of the program's runtime what Go's
scheduler and `time.AfterFunc` give, and nothing of any client, host or operator: no
request, message, attach or answer is obliged to happen.

* `HostPresence`, `PairingWindow`: time passes, a running goroutine is scheduled, a due
  timer starts its callback.  The clock is bounded; its last `OfflineAfter` (or
  `WindowTTL`) units are reserved for timers already set, so that the bound does not
  stop a timer that the code would have seen fire.
* `Ceremony`: the window's timer fires, an attach that was admitted goes on, the relay
  reads what a device sent, a device reads what is there and notices a closed
  socket.  Neither the operator nor the host has to act.
* `Approvals`: an armed approval timer fires and its callback gets the mutex.
* `KeyCache`: a request takes its next step, and a fetch ends, since the HTTP client has
  a timeout.  The clock need not move and nobody has to cancel.

### 3.4 Mutants

Each property of a passing run has a weakened form of one modelled operation
(named `<Operation>_<What>`, defined just above it) that makes TLC report the
property violated: registration without the conflict test, teardown that forgets
its sockets, a drain that does not save its mark, a counter that is written to the wire
before it is saved, a timer armed without its reset, and so on.  They are referenced
from `PROJECT.json` only; no specification uses them.

### 3.5 Races that are in the models and that no property excludes

The code does these; the properties above are stated so as to be true with them.

* Frame router: the last device socket leaves between the attached test and the copy
  of the table (ws.go:263), and the frame is neither forwarded nor mailboxed nor
  refused; `LostOnlyToDetach` says that this is the only way.
* Revocation: a token, a mailbox item or a socket is stored after the DELETE that
  should have taken it (handler.go:501, ws.go:283, ws.go:457); a socket that slipped
  past a revocation is not announced to a host that registers the channel next.
* Push: a body above the byte cap evicts itself, and `maybePush` wakes the device for a frame
  that is not there (store.go:664, ws.go:292).
* Device presence: the snapshot of a host attach is read, a transition is published,
  the stale snapshot is queued last (ws.go:168); two transitions of a channel, or one and a
  revocation, overlap (presence.go:144).  `HostToldOfDevice` says that these are the only
  ways for a host to miss an attached device.
* A device's snapshot of host presence has the same race (ws.go:468); a touch and a deadline
  broadcast in another order than they stored (presence.go:78, 120), or a touch that looked
  before a deadline and stored after it does not broadcast.  `ToldUnlessOvertaken` says that
  these are the only ways for a device to have a wrong last word.
* Attach cap: two attaches pass the test before either is inserted (ws.go:441); a
  pairing attach is inserted after its window was torn down (ws.go:407).
* Windows: a lookup deletes the late window, the timer then finds none and returns
  without closing its attaches (store.go:466).
* Mailbox: a frame appended behind one with a higher seq is skipped by a cursor that has
  passed that one (ws.go:287).  An expired frame behind one stamped later survives the prune, which stops at
  the first fresh item, and is served (store.go:674); `NoExpiredPage` says that this is
  the only way.
* Key cache: `Ready` waiting for a refresh that failed answers from the expired set, like the
  token of `KeyCacheStale`; `FreshOrMisled` says that only waiters do.  Two requests past `mayRefresh` fetch one after the other.  While the
  provider is down and the cache stale, every request fetches.
* Accounts: the binding of a host that stays attached for the whole horizon without a
  pairing is reaped under it; a pairing is registered under no binding, or another account's, when
  the horizon is reached or the last pairing of a long-idle host is deleted between account
  check and registration and a lookup reaps there (handler.go:245, 258).
* Device client: the error of a save of the receive mark is ignored (session.go:217, 331, 435).
  The device goes on with the mark in memory; if it crashes before another save succeeds, it
  takes frames again from the last saved mark on.
* fakerelay: a presence message dropped by a full queue leaves the host with a stale view
  (fakerelay/ws.go:47).
* Ceremony: a window that expires while the operator is asked leaves the device
  recorded and registered by the host, and the device with nothing.

## 4. What is proved

For all values of the constants, any number of channels, hosts, devices, sockets,
requests and frames, from the assumptions named in the modules: `RouterAssumption`,
`PresenceAssumption`, `WindowAssumption`, `AccountsAssumption`, `KeyCacheAssumption`,
`ApprovalAssumption`, `CeremonyAssumption`, `DeliveryAssumption`, and for the mailbox
`PolicyAssumption` and `BoundAssumption`.  They say that the parameters have their
types, that the "no value" constants are outside the sets they extend, that
limits and durations that the code's configuration keeps positive are positive, and
that the sets that supply default values are not empty.  The bounds on clocks and
counters are constants as well, so each theorem holds whatever the bound.

| theorem | states | argument |
|---|---|---|
| `TypeCorrect` | `TypeOK` of `Router` | inductive: it carries "a handler past its lookup holds a registration" and "a revocation holds sockets only between taking and closing", both needed by every later proof |
| `RegistrationsIndexed` | `StoreIndexed` | inductive with `TypeOK`; only `CreatePairing` and `DeletePairing` matter, and the second DELETE of a pairing is the case `p \notin pairings` |
| `SocketsAccounted` | `SocketAccounting` | inductive with `TypeOK`; the revocation's hand-over (table, `xconns`, `closed`) is the disjunction that makes it so |
| `LostOnlyInRace` | `LostOnlyToDetach` | inductive with `TypeOK`: whatever empties a table entry marks the handlers past their test |
| `RoutedOnlyUnderRegistration` | `RoutedUnderRegistration` | not inductive alone: strengthened with `SeenCovers` (what is registered now was registered at some time since the frame was read) and `StoreIndexed`, which makes the lookup by channel return a registration of that channel |
| `PushesOnlyForBuffered` | `PushOnlyForBuffered` | strengthened to `FateInv`: the frame in a handler's hands has been sent, no two handlers hold one frame, and at the push step it has been given to the mailbox, which has kept it or found it oversized |
| `HostsAreTold` | `HostToldOfDevice` | strengthened in three layers, all for channels without an overlap.  `Alone` and `Steady`: a channel has one transition at a time, which finds the record as it left it and a registration to tell.  `RecordInv`: a socket is on record or its handler is about to put it there.  `WordInv`: of a device on record a host connection was told, is about to read it for its snapshot, holds it in a snapshot to be sent, or a handler is about to publish it.  Below them `HostTableInv` (a running host handler, and no other, is in the table broadcasts read) and `GoalInv` (what is published is never "unknown") |
| `PresenceTypeCorrect` | `TypeOK` of `HostPresence` | inductive: it carries "no timestamp is ahead of the clock" |
| `OnlineGuarded` | `OnlineIsGuarded` | inductive with `TypeOK`: each step that ends one guardian (timer, callback, touch) creates another or clears the flag |
| `DevicesAreTold` | `ToldUnlessOvertaken` | strengthened to `LastWord`: the same of a snapshot that is still to be sent, and a device handler that runs is in the table that broadcasts read |
| `WindowTypeCorrect` | `TypeOK` of `PairingWindow` | inductive: it carries "a handler that holds a window holds one that was opened" |
| `OneWindowPerHost` | `WindowIndexed` | inductive with `TypeOK`; the store's steps are reduced to three shapes (insert with displacement, remove, nothing) and the rest leaves both maps alone |
| `WindowsLiveTheirTime` | `NoEarlyExpiry` (action) | needs `TimersLate`: a timer is never due before the expiry of the window it was armed for, so a callback that has fired finds the time past |
| `NoSocketForgotten` | `PairSocketAccounting` | inductive with `TypeOK`: what a teardown takes out of the table it holds until it has closed it |
| `NoFrameAfterWindow` | `RoutedWhileWindowStood` | strengthened with `StoredOnce` (an id is stored once, by the opener that made it, so a window gone at the read of a frame is gone at its lookup) and `FramesStanding` |
| `FloodBounded` | `FloodGuard` | strengthened to `FloodInv`: the admitted and running attaches of a window are a finite set no larger than the counter in the store, which an attach that leaves does not lower |
| `AccountsTypeCorrect` | `AccountsTypeOK` of `Accounts` | inductive |
| `RegistrationsKeepBinding` | `PairingsOfBoundAccount` | strengthened to `BoundInv`: a registration is that of its request, and between account check and registration the host stays bound to the account, unless a lookup has reaped it (`LookupBound`) |
| `AccountsAHorizonApart` | `AttachedShareAccount` | strengthened to `AttachInv`: a connection's account still has the binding, touched since, or the connection is so old that whoever binds next comes a horizon after it |
| `MailboxWithinCaps` | `CapsAndAccounting` | inductive with the types: `Dropped` and `Appended` say what prune, append and eviction do to the items and to the sum of their bodies |
| `DrainsAreComplete` | `DrainComplete` | strengthened to `Served`: what a client is owed has nothing higher in front of it in the mailbox, and what its cursor has passed it has got; a truncated page ends on the item its cursor comes from (`PageFacts`), so nothing owed lies between.  Needs `SeqsApart`: no two frames of the channel share a seq |
| `PagesAreFresh` | `NoExpiredPage` | strengthened with `OldestFirst`: unless a frame was overtaken, nothing in front of it was stored later, so the unexpired item at which prune stops vouches for those behind it |
| `ReadsKeepItems` | `NonDestructiveReads` (action) | `Pruned`: a prune drops expired items only; no client's reading of the clock is ahead of it |
| `KeyCacheTypeCorrect` | `TypeOK` of `KeyCache` | inductive: no time is ahead of the clock |
| `OneFetchAtATime` | `SingleFlight` | strengthened to `FlightInv`: the flag stands for exactly one fetcher, and whoever waits is on the list that fetcher wakes |
| `AcceptedOnlyFresh` | `FreshOrMisled` | strengthened with `RefreshedSince`: whoever comes out of a refresh that did not fail has a key set fetched since it came in |
| `RefreshesThrottled` | `UnknownKidThrottled` (action) | needs `PastThrottle`: a request past `mayRefresh` came in an interval after the last attempt, or before that attempt |
| `ApprovalsTypeCorrect` | `TypeOK` of `Approvals` | inductive |
| `ConsentNeverPresumed` | `GrantedByConsent` | strengthened to `LedgerInv`: one entry per resolved approval, nothing both pending and resolved, every grant was asked for by a device, every notice repeats the ledger |
| `DecidedOnce` | `FirstDecisionWins`: the refinement of `DecideOnce` | `LedgerInv` makes the mapped verdict a function of the ledger; each step decides one open approval, opens one, or changes no verdict |
| `CeremonyTypeCorrect` | `TypeOK` of `Ceremony` | inductive, on the effect of each step (one lemma per handler); it carries that the host's window is never ahead of the relay's |
| `StrikesBounded` | `WrongMacsBounded` | strengthened to `TokenInv`: while a token lives, the host's counter is the number of wrong MACs tried on it and is below the limit |
| `TokenRecordsOnce` | `OneDevicePerToken` | follows from `ConsentInv` below: a window that has recorded a device has neither its token nor a pairing left |
| `RecordedAsShown` | `ConsentNamesDevice` | strengthened to `ConsentInv`: every frame on its way up that opens under an attempt's keys comes from it (`UpInv`), the pairing in progress is with the identity shown (`PairingInv`), and so is what is recorded (`RecordedInv`) |
| `PairedSidesAgree` | `PairedAgrees` | strengthened with `ChannelsInv` (a channel number is registered once) and `AgreedInv`: every `pair.complete` in flight, whoever's queue it sits in, agrees with the record the host made for the keys it opens under |
| `DeliveryTypeCorrect` | `TypeOK` of `Delivery` | inductive: it carries "nothing in flight or in the mailbox has a number above what its sender has used" and "a handshake frame has no number" |
| `TakenOnceByDevice` | `HostToDevice`: the refinement of `OrderedOnce` | `MarksInv`: the mark in memory is what was taken last, a running Connect or session starts from it, the saved mark is never above it and equals it unless a save has failed since, and the mailbox is in ascending order, so that a page is, and what a drain accepts is new |
| `TakenOnceByHost` | `DeviceToHost`: the refinement of `OrderedOnce` | `CountersInv`: no number on a wire is above the saved counter, which is not above the one in memory, and what the host took is not above its mark |
| `SkipsAreReconciled` | `SkippedMeansReconcile` | strengthened to `SkipInv`, which says it from the start of the Connect on and that the tracker is in session exactly once the session is up |
| `HostViewAgrees` | `HostViewConverges` | strengthened to `ViewInv`: the record of presence is whether there are connections, and the last presence message queued, or the host's view if there is none, is that record |

The invariant of `Delivery` is `Inv`, the conjunction of its `TypeOK`, `CountersInv`,
`MarksInv` and `SkipInv`; one lemma per action shows that a step keeps `Inv` and is a step
of both abstract channels.  The invariant of `Mailbox`, `Inv` in `MailboxProofs`, is the
conjunction of its types, `CapsAndAccounting`, `SeqsApart`, `Served` and a `FreshPage` for
every client, and `OldestFirst`.

Both modules compute with loops over a sequence (a mailbox, a page, a byte total), which
are recursive functions.  The library's induction theorems take operators and cannot be
used, but `WFMin` takes a set: `UpTo` is induction up to a number in the form of a least
counterexample, and `Loop` uses it to show that such a loop has a run.  On these rest
`PageFacts` and `DrainFacts` of `DeliveryProofs`, and `BytesRun` (the byte total is a sum)
and `PageFacts` (what a page holds and where its cursor is) of `MailboxProofs`.

Only model-checked: the liveness properties `WindowEventuallyGone`, `SilentGoesOffline`,
`PairReturns`, `EveryApprovalDecided` and `RequestAnswered`, since fairness and ENABLED
are outside the prover's reach.  Every other property of a passing run is a theorem.  The
properties of the three violation runs do not hold and have none.

## 5. Plan

1. *Done*: every module of section 2, the three refinements, and a theorem for every
   safety property of a passing run.
2. Models: the rate limiter over an integer clock; PATCH of a pairing and the host label
   of a push; fakerelay's host attaches and host presence, as the atomic counterpart
   that `HostPresence` could be compared with.

## 6. Not modelled

* Cryptography (key schedule, AEAD, signatures), byte-level framing and QR encodings:
  a frame opens under the keys that sealed it, a MAC is right for the token it was
  made with.
* Environment parsing, logging, the error table, process start-up, the APNs HTTP client
  and the commands (`remotectl approve` appears as the request of `Approvals`).
* `Relay.Close` (process shutdown) stops timers and closes sockets without touching the
  store.  The store is in memory, so a relay restart is a fresh `Init`.
* The host's crash and reconnect: `fakehost` keeps nothing across a restart and does not
  reconnect.
* In `Delivery`: the `session.revoked` path, `peer_unavailable`, and `sess.denied` for a foreign device id.
* The rate limiter: whether a request is admitted changes no state that the models
  keep.  Its sweep (ratelimit.go:80) uses the rate and burst of whichever key
  called it; that needs fractional buckets.
* The production relay's send queue has the shape of fakerelay's, which `Delivery` and
  `Ceremony` model; `Router` takes a send as delivered to the queue.
* Bearer checks refuse requests without changing state, so the models contain admitted
  requests only, except where the refusal is the point (`Accounts`, `KeyCache`).
