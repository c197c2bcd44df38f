------------------------------ MODULE Mailbox -------------------------------
(***************************************************************************)
(* One channel's mailbox under concurrent use.  A writer is a              *)
(* routeHostFrame call that has chosen to buffer a frame; a reader is a    *)
(* client paging GET /v1/channels/{id}/frames until nothing is truncated   *)
(* (the app and its notification extension both do).  Every MemStore call  *)
(* is atomic under the store's mutex, but each caller reads the clock      *)
(* BEFORE it takes that mutex, so the two steps are separate actions.      *)
(***************************************************************************)
EXTENDS MailboxOps

CONSTANTS
  Writer,      \* host connections routing frames onto the channel
  Reader,      \* clients paging the mailbox
  BodyLen,     \* the body lengths a frame may have
  PageLimit,   \* the limit= parameter of a fetch
  MaxClock,    \* bound on the clock
  MaxSeq       \* bound on the frames the host sends

ASSUME BoundAssumption ==
  /\ BodyLen \subseteq Nat
  /\ PageLimit \in Nat \ {0}
  /\ MaxClock \in Nat
  /\ MaxSeq \in Nat

VARIABLES
  mbox,     \* MemStore.mailboxes[channel]
  clock,    \* Config.Clock
  sent,     \* seqs the host has used
  writing,  \* per writer: the stamped items it has yet to append (at most one)
  reading,  \* per reader: where its paging loop is
  overtaken \* observed only: seqs appended behind an item stamped later

vars == <<mbox, clock, sent, writing, reading, overtaken>>

NotReading == [pc |-> "idle", after |-> 0, now |-> 0, page |-> <<>>, got |-> {}, owed |-> {}]

Init ==
  /\ mbox = EmptyMailbox
  /\ clock = 0
  /\ sent = {}
  /\ writing = [w \in Writer |-> {}]
  /\ reading = [r \in Reader |-> NotReading]
  /\ overtaken = {}

Seqs(items) == {it.seq : it \in Range(items)}

-----------------------------------------------------------------------------
Tick ==
  /\ clock < MaxClock
  /\ clock' = clock + 1
  /\ UNCHANGED <<mbox, sent, writing, reading, overtaken>>

\* The writer builds the MailboxItem: StoredAt is the clock now, outside the lock.
\* The relay does not order the host's seqs: two connections may bring them in any.
StampItem(w) ==
  /\ writing[w] = {}
  /\ \E seq \in (1..MaxSeq) \ sent, len \in BodyLen :
       /\ sent' = sent \cup {seq}
       /\ writing' = [writing EXCEPT ![w] = {Item(seq, len, clock)}]
  /\ UNCHANGED <<mbox, clock, reading, overtaken>>

AppendMailbox(w) ==
  /\ \E it \in writing[w] :
       /\ mbox' = AppendItem(mbox, it)
       /\ overtaken' = IF \E x \in Range(mbox.items) : x.at > it.at THEN overtaken \cup {it.seq} ELSE overtaken
  /\ writing' = [writing EXCEPT ![w] = {}]
  /\ UNCHANGED <<clock, sent, reading>>

\* Seqs of the items no higher seq has overtaken on the way into the mailbox.
InOrder(items) ==
  {items[i].seq : i \in {j \in DOMAIN items : \A k \in 1..j : items[k].seq <= items[j].seq}}

\* A client starts a catch-up from a seq it has already seen.  `owed` records,
\* for the properties only, what the mailbox held for it, in order, at that moment.
StartDrain(r) ==
  /\ reading[r].pc = "idle"
  /\ \E after \in sent \cup {0} :
       reading' = [reading EXCEPT ![r] =
         [NotReading EXCEPT !.pc = "request", !.after = after,
            !.owed = {n \in InOrder(mbox.items) : n > after}]]
  /\ UNCHANGED <<mbox, clock, sent, writing, overtaken>>

\* handleMailboxGet reads the clock, then calls FetchMailbox.
RequestPage(r) ==
  /\ reading[r].pc = "request"
  /\ reading' = [reading EXCEPT ![r] = [@ EXCEPT !.pc = "fetch", !.now = clock, !.page = <<>>]]
  /\ UNCHANGED <<mbox, clock, sent, writing, overtaken>>

\* The client has page p: it asks again from p's cursor while p is truncated.
Received(client, p) ==
  [client EXCEPT !.pc = IF p.truncated THEN "request" ELSE "drained",
                 !.after = p.next, !.page = p.items, !.got = @ \cup Seqs(p.items)]

\* Weakened form: fetching a page consumes it.
FetchMailbox_Destructive(r) ==
  /\ reading[r].pc = "fetch"
  /\ LET pruned == Prune(mbox, reading[r].now)
         p      == Page(pruned, reading[r].after, PageLimit)
         rest   == SelectSeq(pruned.items, LAMBDA it : it \notin Range(p.items))
     IN  /\ mbox' = [items |-> rest, bytes |-> BodyBytes(rest)]
         /\ reading' = [reading EXCEPT ![r] = Received(@, p)]
  /\ UNCHANGED <<clock, sent, writing, overtaken>>

\* Weakened form: fetch does not prune first.
FetchMailbox_NoPrune(r) ==
  /\ reading[r].pc = "fetch"
  /\ LET p == Page(mbox, reading[r].after, PageLimit)
     IN  reading' = [reading EXCEPT ![r] = Received(@, p)]
  /\ UNCHANGED <<mbox, clock, sent, writing, overtaken>>

FetchMailbox(r) ==
  /\ reading[r].pc = "fetch"
  /\ mbox' = Prune(mbox, reading[r].now)
  /\ LET p == Page(mbox', reading[r].after, PageLimit)
     IN  reading' = [reading EXCEPT ![r] = Received(@, p)]
  /\ UNCHANGED <<clock, sent, writing, overtaken>>

EndDrain(r) ==
  /\ reading[r].pc = "drained"
  /\ reading' = [reading EXCEPT ![r] = NotReading]
  /\ UNCHANGED <<mbox, clock, sent, writing, overtaken>>

Next ==
  \/ Tick
  \/ \E w \in Writer : StampItem(w) \/ AppendMailbox(w)
  \/ \E r \in Reader : StartDrain(r) \/ RequestPage(r) \/ FetchMailbox(r) \/ EndDrain(r)

Spec == Init /\ [][Next]_vars

-----------------------------------------------------------------------------
\* The byte total the code maintains incrementally is the true total, and both
\* caps hold, after any mix of TTL pruning by readers and writers and eviction.
CapsAndAccounting ==
  /\ mbox.bytes = BodyBytes(mbox.items)
  /\ WithinCaps(mbox)

\* Reads are non-destructive: a step in which no writer appends removes an
\* item only because its TTL has run out (handleMailboxGet's contract: the app
\* and its notification extension both fetch the same item).
NonDestructiveReads ==
  [][writing' = writing =>
       \A it \in Range(mbox.items) : it \in Range(mbox'.items) \/ Expired(it, clock)]_vars

\* A finished drain has returned everything that was there, in seq order, when
\* it started and is there still: the page boundary neither skips nor hides a
\* buffered frame, whatever is appended, evicted or expired between two pages.
\* An item that two connections of the host appended out of order is exempt: the
\* cursor is a seq, and a page that ends on the higher one passes the lower by.
DrainComplete ==
  \A r \in Reader : reading[r].pc = "drained" =>
    reading[r].owed \cap Seqs(mbox.items) \subseteq reading[r].got

\* A page never holds a frame whose TTL had run out when it was requested, unless
\* another connection of the host put a frame stamped later in front of it: prune
\* stops at the first frame that has not expired and looks no further.
NoExpiredPage ==
  \A r \in Reader : \A it \in Range(reading[r].page) :
    Expired(it, reading[r].now) => it.seq \in overtaken
=============================================================================
