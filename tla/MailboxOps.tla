----------------------------- MODULE MailboxOps -----------------------------
(***************************************************************************)
(* The per-channel ciphertext buffer of internal/relay/store.go: what      *)
(* append, prune and fetch compute.  A mailbox is a record of its items,   *)
(* oldest arrival first, and the running byte total the code keeps beside  *)
(* them.  A body is opaque to the relay, so an item keeps only its length. *)
(***************************************************************************)
EXTENDS Integers, Sequences, FiniteSets, FiniteSetsExt

CONSTANTS
  TTL,         \* MailboxPolicy.TTL, in clock units
  MaxFrames,   \* MailboxPolicy.MaxFrames
  MaxBytes     \* MailboxPolicy.MaxBytes

ASSUME PolicyAssumption ==
  /\ TTL \in Nat \ {0}
  /\ MaxFrames \in Nat \ {0}
  /\ MaxBytes \in Nat

\* MailboxItem: host-assigned seq, body length, StoredAt.
Item(seq, len, at) == [seq |-> seq, len |-> len, at |-> at]

EmptyMailbox == [items |-> <<>>, bytes |-> 0]

BodyBytes(items) ==
  LET sum[i \in 0..Len(items)] == IF i = 0 THEN 0 ELSE sum[i - 1] + items[i].len
  IN  sum[Len(items)]

\* Weakened form: the running total is not credited.
DropOldest_NoCredit(m, n) ==
  [items |-> SubSeq(m.items, n + 1, Len(m.items)), bytes |-> m.bytes]

\* Drop the n oldest items and take their bodies off the running total.
DropOldest(m, n) ==
  [items |-> SubSeq(m.items, n + 1, Len(m.items)),
   bytes |-> m.bytes - BodyBytes(SubSeq(m.items, 1, n))]

Expired(it, now) == now - it.at >= TTL

\* prune stops at the FIRST item that has not expired.
Prune(m, now) ==
  DropOldest(m, Max({n \in 0..Len(m.items) :
                       \A i \in 1..n : Expired(m.items[i], now)}))

WithinCaps(m) == Len(m.items) <= MaxFrames /\ m.bytes <= MaxBytes

\* append prunes by TTL, appends, then evicts from the old end until both
\* caps hold: an over-long body evicts everything, itself included.
AppendItem(m, it) ==
  LET pruned == Prune(m, it.at)
      grown  == [items |-> Append(pruned.items, it), bytes |-> pruned.bytes + it.len]
  IN  DropOldest(grown, Min({n \in 0..Len(grown.items) :
                               n = Len(grown.items) \/ WithinCaps(DropOldest(grown, n))}))

\* Weakened form: the cursor also moves past the item that does not fit.
FetchItem_CursorPast(page, it, after, limit) ==
  IF page.truncated \/ it.seq <= after THEN page
  ELSE IF Len(page.items) >= limit THEN [page EXCEPT !.next = it.seq, !.truncated = TRUE]
  ELSE [page EXCEPT !.items = Append(@, it), !.next = it.seq]

\* One round of fetch's loop: an item up to the cursor is skipped, the first one
\* beyond the limit ends the page and any other is taken.
FetchItem(page, it, after, limit) ==
  IF page.truncated \/ it.seq <= after THEN page
  ELSE IF Len(page.items) >= limit THEN [page EXCEPT !.truncated = TRUE]
  ELSE [page EXCEPT !.items = Append(@, it), !.next = it.seq]

\* fetch on an already pruned mailbox: one page of what follows the cursor in
\* arrival order, the cursor for the next page, and whether more is waiting.
Page(m, after, limit) ==
  LET page[i \in 0..Len(m.items)] ==
        IF i = 0 THEN [items |-> <<>>, next |-> after, truncated |-> FALSE]
        ELSE FetchItem(page[i - 1], m.items[i], after, limit)
  IN  page[Len(m.items)]
=============================================================================
