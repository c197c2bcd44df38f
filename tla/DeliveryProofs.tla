--------------------------- MODULE DeliveryProofs ---------------------------
(***************************************************************************)
(* Proofs about Delivery, for any bounds on connections, numbers, queues,  *)
(* mailbox and pages.  The loops over a mailbox and over a page are        *)
(* recursive functions; what they compute is shown by induction in the     *)
(* form of a least counterexample.                                         *)
(***************************************************************************)
EXTENDS Delivery, FiniteSetTheorems, WellFoundedInduction, TLAPS

-----------------------------------------------------------------------------
(* Induction on numbers and loops *)

LEMMA NatMin == ASSUME NEW T, T \subseteq Nat, T # {} PROVE \E x \in T : \A y \in T : x <= y
<1>1. PICK x \in T : \A y \in T : ~(<<y, x>> \in OpToRel(<, Nat))
  BY WFMin, NatLessThanWellFounded
<1>2. \A y \in T : ~(y < x)
  BY <1>1 DEF OpToRel
<1> QED
  BY <1>2

\* A set that has 0 and, up to n, the successor of each of its members.
LEMMA UpTo ==
  ASSUME NEW n \in Nat, NEW T, 0 \in T, \A i \in 1..n : i - 1 \in T => i \in T
  PROVE  0..n \subseteq T
<1> DEFINE U == {i \in 0..n : i \notin T}
<1> SUFFICES ASSUME U # {} PROVE FALSE
  OBVIOUS
<1>1. PICK m \in U : \A y \in U : m <= y
  <2>1. U \subseteq Nat
    OBVIOUS
  <2> HIDE DEF U
  <2> QED
    BY <2>1, NatMin
<1>2. m \in 1..n /\ m - 1 \in 0..n /\ m - 1 \notin U
  BY <1>1
<1> QED
  BY <1>1, <1>2

LEMMA ZeroOrMore == ASSUME NEW n \in Nat PROVE \A i \in 0..n : i = 0 \/ i \in 1..n
OBVIOUS

LEMMA SetMax ==
  ASSUME NEW n \in Nat, NEW T, T \subseteq 1..n, T # {}
  PROVE  \E x \in T : \A y \in T : y <= x
<1> DEFINE U == {n - y : y \in T}
<1>1. U \subseteq Nat /\ U # {}
  <2>1. \A y \in T : y \in 1..n
    OBVIOUS
  <2>2. \A y \in 1..n : n - y \in Nat
    OBVIOUS
  <2> QED
    BY <2>1, <2>2
<1>2. PICK u \in U : \A v \in U : u <= v
  <2> HIDE DEF U
  <2> QED
    BY <1>1, NatMin
<1>3. PICK x \in T : u = n - x
  BY <1>2
<1>4. ASSUME NEW y \in T PROVE y <= x
  <2>1. n - y \in U /\ x \in 1..n /\ y \in 1..n
    BY <1>3
  <2> HIDE DEF U
  <2> QED
    BY <1>2, <1>3, <2>1
<1> QED
  BY <1>3, <1>4

\* f is the run of a loop that starts with x0 and takes n steps inside X.
IsRun(f, X, x0, step, n) ==
  f \in [0..n -> X] /\ f[0] = x0 /\ \A i \in 1..n : f[i] = step[i][f[i - 1]]

LEMMA Loop ==
  ASSUME NEW X, NEW x0 \in X, NEW step \in [Nat -> [X -> X]], NEW n \in Nat
  PROVE  \E f : IsRun(f, X, x0, step, n)
<1> DEFINE P(m) == \E f \in [0..m -> X] : f[0] = x0 /\ \A i \in 1..m : f[i] = step[i][f[i - 1]]
           T == {m \in Nat : P(m)}
<1>1. P(0)
  <2> DEFINE f == [i \in 0..0 |-> x0]
  <2>1. f \in [0..0 -> X] /\ f[0] = x0 /\ 1..0 = {}
    OBVIOUS
  <2> QED
    BY <2>1
<1>2. ASSUME NEW m \in 1..n, P(m - 1) PROVE P(m)
  <2>1. m \in Nat /\ m - 1 \in Nat
    OBVIOUS
  <2>2. PICK f \in [0..(m-1) -> X] : f[0] = x0 /\ \A i \in 1..(m-1) : f[i] = step[i][f[i - 1]]
    BY <1>2
  <2> DEFINE g == [i \in 0..m |-> IF i = m THEN step[m][f[m - 1]] ELSE f[i]]
  <2>3. g \in [0..m -> X]
    BY <2>1, <2>2
  <2>4. g[0] = x0
    BY <2>1, <2>2
  <2>5. ASSUME NEW i \in 1..m PROVE g[i] = step[i][g[i - 1]]
    <3>1. i \in 0..m /\ i - 1 \in 0..m /\ i - 1 # m
      BY <2>1
    <3>2. g[i - 1] = f[i - 1]
      BY <3>1
    <3>3. CASE i = m
      BY <3>1, <3>2, <3>3
    <3>4. CASE i # m
      <4>1. i \in 1..(m - 1) /\ g[i] = f[i]
        BY <2>1, <3>1, <3>4
      <4> QED
        BY <2>2, <3>2, <4>1
    <3> QED
      BY <3>3, <3>4
  <2> HIDE DEF g
  <2> QED
    BY <2>3, <2>4, <2>5
<1>3. 0..n \subseteq T
  <2> HIDE DEF P
  <2>1. 0 \in T /\ \A i \in 1..n : i - 1 \in T => i \in T
    BY <1>1, <1>2
  <2> HIDE DEF T
  <2> QED
    BY <2>1, UpTo
<1> QED
  BY <1>3 DEF IsRun

-----------------------------------------------------------------------------
(* Types *)

Kind == {"sess.hello", "sess.accept", "sess.header", "sess.confirm", "snapshot.full", "event",
         "rpc.request", "rpc.response", "transcript", "transcript.page"}

KeySet == Nat \X Nat

\* The two control frames of a handshake carry no number.
FrameSet ==
  {f \in [kind : Kind, seq : Nat, class : {"P", "L", "M"}, keys : KeySet] :
     f.kind \in {"sess.hello", "sess.header"} => f.seq = 0}

\* The frames a sender at number n can have sent.
Numbered(n) == {f \in FrameSet : f.seq <= n}

TrackerSet == [last : Nat, inSession : BOOLEAN]

\* What the loop of drainMailbox keeps.
DrainSet == [tracker : TrackerSet, n : Nat, gap : BOOLEAN, abandoned : BOOLEAN, failed : BOOLEAN]

PresenceSet == [kind : {"presence"}, attached : BOOLEAN]

SessSet == [keys : KeySet, pull : KeySet, step : 0..3]

HostSet == [sent : Nat, attached : BOOLEAN, sess : SessSet,
            nonce : Nat, d2h : TrackerSet]

\* Nothing in flight carries a number above what its sender has used.
RelaySet(sent, top) ==
  [conns : SUBSET Conn, attached : BOOLEAN, mbx : Seq(Numbered(sent)), reader : Nat, lostText : BOOLEAN,
   toHost : Seq(Numbered(top) \cup PresenceSet), toDev : Seq(Numbered(sent)),
   fromDev : [Conn -> Seq(Numbered(top))]]

DevSet ==
  {d \in [pc : {"idle", "drain", "attach", "hello", "confirm", "up"}, conn : 0..MaxConnect, keys : KeySet,
          tracker : TrackerSet, after : Nat, reconcile : BOOLEAN,
          D2HLastSent : Nat, savedSent : Nat, H2DLastSeen : Nat, savedSeen : Nat] : d.pc # "idle" => d.conn \in Conn}

HistSet == [taken : Nat, got : Nat, d2hCount : Nat, d2hTop : Nat, d2hTaken : Nat, d2hGot : Nat,
            base : Nat, accepted : Nat, owed : BOOLEAN, unsaved : BOOLEAN]

TypeOK ==
  /\ host \in HostSet /\ dev \in DevSet /\ hist \in HistSet
  /\ relay \in RelaySet(host.sent, hist.d2hTop)

\* Plaintext frames apart, a mailbox holds the host's numbers in ascending order.
Ascending(mbx) ==
  \A i, j \in 1..Len(mbx) : i < j /\ mbx[i].seq # 0 /\ mbx[j].seq # 0 => mbx[i].seq < mbx[j].seq

-----------------------------------------------------------------------------
(* A mailbox page *)

\* get returns frames of the mailbox above the mark, in order.
LEMMA PageFacts ==
  ASSUME NEW n \in Nat, NEW mbx \in Seq(Numbered(n)), Ascending(mbx), NEW after \in Nat
  PROVE  /\ Page(mbx, after) \in Seq(Numbered(n))
         /\ \A k \in 1..Len(Page(mbx, after)) : Page(mbx, after)[k].seq > after
         /\ Ascending(Page(mbx, after))
<1> DEFINE F == Numbered(n)
           X == Seq(F)
           body(i, x) == IF mbx[i].seq > after /\ Len(x) < PageLimit THEN Append(x, mbx[i]) ELSE x
           step == [i \in Nat |-> [x \in X |-> IF i \in 1..Len(mbx) THEN body(i, x) ELSE x]]
           items == CHOOSE f : f = [i \in 0..Len(mbx) |-> IF i = 0 THEN <<>> ELSE body(i, f[i - 1])]
<1>1. Page(mbx, after) = items[Len(mbx)]
  BY DEF Page
<1>2. step \in [Nat -> [X -> X]]
  OBVIOUS
<1>3. PICK f : IsRun(f, X, <<>>, step, Len(mbx))
  <2>1. <<>> \in X /\ Len(mbx) \in Nat
    OBVIOUS
  <2> HIDE DEF X, step
  <2> QED
    BY <1>2, <2>1, Loop
<1>4. ASSUME NEW i \in 1..Len(mbx) PROVE f[i] = body(i, f[i - 1])
  <2>1. i \in Nat /\ i - 1 \in 0..Len(mbx) /\ f[i - 1] \in X
    <3>1. i \in Nat /\ i - 1 \in 0..Len(mbx)
      OBVIOUS
    <3> HIDE DEF X
    <3> QED
      BY <1>3, <3>1 DEF IsRun
  <2>2. step[i][f[i - 1]] = body(i, f[i - 1])
    <3> HIDE DEF body, X
    <3> QED
      BY <2>1
  <2> HIDE DEF X, step, body
  <2> QED
    BY <1>3, <2>2 DEF IsRun
<1>5. f = [i \in 0..Len(mbx) |-> IF i = 0 THEN <<>> ELSE body(i, f[i - 1])]
  <2> HIDE DEF body, X, step
  <2>1. \A i \in 0..Len(mbx) : i = 0 \/ i \in 1..Len(mbx)
    <3> DEFINE m == Len(mbx)
    <3>1. m \in Nat
      OBVIOUS
    <3> HIDE DEF m
    <3>2. \A i \in 0..m : i = 0 \/ i \in 1..m
      BY <3>1, ZeroOrMore, Zenon
    <3> QED
      BY <3>2, Zenon DEF m
  <2> QED
    BY <1>3, <1>4, <2>1 DEF IsRun
<1>6. items = [i \in 0..Len(mbx) |-> IF i = 0 THEN <<>> ELSE body(i, items[i - 1])]
  BY <1>5, Zenon
<1>7. items[0] = <<>> /\ \A i \in 1..Len(mbx) : items[i] = body(i, items[i - 1])
  <2> HIDE DEF items, body
  <2>1. 0 \in 0..Len(mbx) /\ \A i \in 1..Len(mbx) : i \in 0..Len(mbx) /\ i # 0
    OBVIOUS
  <2> QED
    BY <1>6, <2>1
<1> HIDE DEF items
\* The loop after i items.
<1> DEFINE From(i, x) ==
      /\ x \in X
      /\ \A k \in 1..Len(x) : x[k].seq > after /\ \E j \in 1..i : x[k] = mbx[j]
      /\ Ascending(x)
<1>8. From(0, <<>>)
  BY DEF Ascending
<1>9. ASSUME NEW i \in 1..Len(mbx), NEW x, From(i - 1, x) PROVE From(i, body(i, x))
  <2>1. CASE mbx[i].seq > after /\ Len(x) < PageLimit
    <3> DEFINE y == Append(x, mbx[i])
    <3>1. body(i, x) = y
      BY <2>1
    <3>2. y \in X /\ Len(y) = Len(x) + 1 /\ y[Len(y)] = mbx[i] /\ \A k \in 1..Len(x) : y[k] = x[k]
      BY <1>9
    <3>3. mbx[i] \in FrameSet /\ mbx[i].seq \in Nat /\ \A k \in 1..Len(x) : x[k] \in FrameSet /\ x[k].seq \in Nat
      BY <1>9 DEF Numbered, FrameSet
    <3>4. \A k \in 1..Len(x) : x[k].seq < mbx[i].seq
      <4> SUFFICES ASSUME NEW k \in 1..Len(x) PROVE x[k].seq < mbx[i].seq
        OBVIOUS
      <4>1. PICK j \in 1..(i - 1) : x[k] = mbx[j]
        BY <1>9
      <4>2. x[k].seq > after
        BY <1>9
      <4>3. j \in 1..Len(mbx) /\ j < i /\ mbx[j].seq # 0 /\ mbx[i].seq # 0
        BY <2>1, <3>3, <4>1, <4>2
      <4> QED
        BY <4>1, <4>3 DEF Ascending
    <3> HIDE DEF y
    <3>5. \A k \in 1..Len(y) : y[k].seq > after /\ \E j \in 1..i : y[k] = mbx[j]
      <4> SUFFICES ASSUME NEW k \in 1..Len(y) PROVE y[k].seq > after /\ \E j \in 1..i : y[k] = mbx[j]
        OBVIOUS
      <4>1. CASE k \in 1..Len(x)
        <5>1. PICK j \in 1..(i - 1) : x[k] = mbx[j]
          BY <1>9, <4>1
        <5>2. j \in 1..i /\ y[k] = x[k] /\ x[k].seq > after
          BY <1>9, <3>2, <4>1
        <5> QED
          BY <5>1, <5>2
      <4>2. CASE k = Len(y)
        BY <2>1, <3>2, <4>2
      <4> QED
        BY <3>2, <4>1, <4>2
    <3>6. Ascending(y)
      <4> SUFFICES ASSUME NEW k \in 1..Len(y), NEW l \in 1..Len(y), k < l, y[k].seq # 0, y[l].seq # 0
                   PROVE  y[k].seq < y[l].seq
        BY DEF Ascending
      <4>0. k \in 1..Len(x)
        BY <1>9, <3>2
      <4>1. CASE l \in 1..Len(x)
        BY <1>9, <3>2, <4>0, <4>1 DEF Ascending
      <4>2. CASE l = Len(y)
        BY <3>2, <3>4, <4>0, <4>2
      <4> QED
        BY <3>2, <4>1, <4>2
    <3> QED
      BY <3>1, <3>2, <3>5, <3>6
  <2>2. CASE ~(mbx[i].seq > after /\ Len(x) < PageLimit)
    <3>1. body(i, x) = x
      BY <2>2
    <3>2. \A k \in 1..Len(x) : \E j \in 1..i : x[k] = mbx[j]
      BY <1>9
    <3> QED
      BY <1>9, <3>1, <3>2
  <2> QED
    BY <2>1, <2>2
<1>10. From(Len(mbx), items[Len(mbx)])
  <2> DEFINE T == {i \in 0..Len(mbx) : From(i, items[i])}
  <2> HIDE DEF From, body
  <2>1. 0 \in T
    BY <1>7, <1>8
  <2>2. ASSUME NEW i \in 1..Len(mbx), i - 1 \in T PROVE i \in T
    BY <1>7, <1>9, <2>2
  <2> HIDE DEF T
  <2>3. 0..Len(mbx) \subseteq T
    <3> DEFINE m == Len(mbx)
    <3>1. m \in Nat
      OBVIOUS
    <3> HIDE DEF m
    <3> QED
      BY <2>1, <2>2, <3>1, UpTo DEF m
  <2> QED
    BY <2>3 DEF T
<1> QED
  BY <1>1, <1>10

-----------------------------------------------------------------------------
(* The drain of a page *)

\* A page in order and above the tracker never fails the Connect.  The tracker ends at
\* a frame of the page, at the last one unless the drain was abandoned; no more frames
\* are accepted than numbers are passed, and without a gap as many.
LEMMA DrainFacts ==
  ASSUME NEW n \in Nat, NEW t \in TrackerSet, t.last <= n,
         NEW frames \in Seq(Numbered(n)), Ascending(frames),
         \A k \in 1..Len(frames) : frames[k].seq > t.last
  PROVE  LET a == Drained(t, frames)
         IN  /\ a \in DrainSet
             /\ ~a.failed
             /\ a.tracker.inSession = t.inSession
             /\ a.tracker.last <= n
             /\ a.tracker.last >= t.last + a.n
             /\ a.n = 0 => a.tracker.last = t.last
             /\ ~a.gap => a.tracker.last = t.last + a.n
             /\ ~a.abandoned => a.tracker.last = IF frames = <<>> THEN t.last ELSE frames[Len(frames)].seq
<1> DEFINE m == Len(frames)
           x0 == [tracker |-> t, n |-> 0, gap |-> FALSE, abandoned |-> FALSE, failed |-> FALSE]
           step == [i \in Nat |-> [x \in DrainSet |-> IF i \in 1..m THEN DrainItem(x, frames[i]) ELSE x]]
           run == CHOOSE f : f = [i \in 0..m |-> IF i = 0 THEN x0 ELSE DrainItem(f[i - 1], frames[i])]
<1>1. Drained(t, frames) = run[m]
  BY DEF Drained
<1>2. m \in Nat /\ x0 \in DrainSet
  BY DEF DrainSet
<1>3. ASSUME NEW i \in 1..m
      PROVE  frames[i] \in FrameSet /\ frames[i].seq \in Nat /\ frames[i].seq <= n /\ frames[i].seq > t.last
  BY DEF Numbered, FrameSet
<1>4. ASSUME NEW i \in 1..m, NEW x \in DrainSet PROVE DrainItem(x, frames[i]) \in DrainSet
  <2> DEFINE f == frames[i]
             s == f.seq
             u == [x.tracker EXCEPT !.last = s]
  <2>1. s \in Nat /\ x.tracker \in TrackerSet /\ x.n \in Nat /\ x.gap \in BOOLEAN
    BY <1>3 DEF DrainSet
  <2>2. u \in TrackerSet
    BY <2>1 DEF TrackerSet
  <2>3. [x EXCEPT !.abandoned = TRUE] \in DrainSet /\ [x EXCEPT !.failed = TRUE] \in DrainSet
    BY DEF DrainSet
  <2>4. DrainItem(x, f) \in {x, [x EXCEPT !.abandoned = TRUE], [x EXCEPT !.failed = TRUE],
          [x EXCEPT !.tracker = u, !.n = x.n + 1, !.gap = x.gap \/ MailboxGap(x.tracker, s)]}
    BY DEF DrainItem, AcceptMailbox
  <2> HIDE DEF u, s, f
  <2>5. [x EXCEPT !.tracker = u, !.n = x.n + 1, !.gap = x.gap \/ MailboxGap(x.tracker, s)] \in DrainSet
    <3> DEFINE g == x.gap \/ MailboxGap(x.tracker, s)
               k == x.n + 1
    <3>1. g \in BOOLEAN /\ k \in Nat
      BY <2>1
    <3> HIDE DEF g, k
    <3>2. [x EXCEPT !.tracker = u, !.n = k, !.gap = g] \in DrainSet
      BY <2>2, <3>1 DEF DrainSet
    <3> QED
      BY <3>2 DEF g, k
  <2> QED
    BY <2>3, <2>4, <2>5 DEF f
<1>5. PICK f : IsRun(f, DrainSet, x0, step, m)
  <2>1. step \in [Nat -> [DrainSet -> DrainSet]]
    <3> HIDE DEF m
    <3> QED
      BY <1>4
  <2> HIDE DEF step, m, x0
  <2> QED
    BY <1>2, <2>1, Loop
<1>6. run = [i \in 0..m |-> IF i = 0 THEN x0 ELSE DrainItem(run[i - 1], frames[i])]
  <2>1. ASSUME NEW i \in 1..m PROVE f[i] = DrainItem(f[i - 1], frames[i])
    <3>1. i \in Nat /\ i - 1 \in 0..m
      BY <1>2
    <3>2. f[i - 1] \in DrainSet /\ f[i] = step[i][f[i - 1]]
      <4> HIDE DEF step, m, x0
      <4> QED
        BY <1>5, <3>1 DEF IsRun
    <3> HIDE DEF m
    <3> QED
      BY <3>1, <3>2
  <2>2. f = [i \in 0..m |-> IF i = 0 THEN x0 ELSE DrainItem(f[i - 1], frames[i])]
    <3>1. \A i \in 0..m : i = 0 \/ i \in 1..m
      BY <1>2
    <3> HIDE DEF step, m, x0
    <3> QED
      BY <1>5, <2>1, <3>1 DEF IsRun
  <2> HIDE DEF m, x0
  <2> QED
    BY <2>2
<1>7. run[0] = x0 /\ \A i \in 1..m : run[i] = DrainItem(run[i - 1], frames[i])
  <2>1. 0 \in 0..m /\ \A i \in 1..m : i \in 0..m /\ i # 0
    BY <1>2
  <2> HIDE DEF run, m, x0
  <2> QED
    BY <1>6, <2>1
<1> HIDE DEF run
<1> DEFINE last(i) == IF i = 0 THEN t.last ELSE frames[i].seq
\* The loop after i items.
           After(i, a) ==
             /\ a \in DrainSet
             /\ ~a.failed
             /\ a.tracker.inSession = t.inSession
             /\ a.tracker.last <= n
             /\ a.tracker.last >= t.last + a.n
             /\ a.n = 0 => a.tracker.last = t.last
             /\ ~a.gap => a.tracker.last = t.last + a.n
             /\ ~a.abandoned => a.tracker.last = last(i)
<1>8. After(0, x0)
  BY <1>2 DEF TrackerSet
<1>9. ASSUME NEW i \in 1..m, NEW a, After(i - 1, a) PROVE After(i, DrainItem(a, frames[i]))
  <2> DEFINE s == frames[i].seq
             b == DrainItem(a, frames[i])
  <2>0. /\ b \in DrainSet /\ a \in DrainSet /\ a.tracker \in TrackerSet /\ a.n \in Nat /\ s \in Nat
        /\ a.tracker.last \in Nat /\ t.last \in Nat /\ last(i) = s
    <3>1. a \in DrainSet
      BY <1>9
    <3>2. b \in DrainSet
      BY <1>4, <3>1
    <3>3. a.tracker \in TrackerSet /\ a.n \in Nat
      BY <3>1 DEF DrainSet
    <3>4. a.tracker.last \in Nat /\ t.last \in Nat
      BY <3>3 DEF TrackerSet
    <3>5. s \in Nat /\ last(i) = s
      BY <1>3
    <3> QED
      BY <3>1, <3>2, <3>3, <3>4, <3>5
  <2>1. CASE a.abandoned
    <3>1. b = a
      BY <2>1 DEF DrainItem
    <3> QED
      BY <1>9, <2>1, <3>1
  <2>2. CASE ~a.abandoned /\ frames[i].class # "M"
    <3>1. b = [a EXCEPT !.abandoned = TRUE]
      BY <1>9, <2>2 DEF DrainItem
    <3>2. /\ b.abandoned /\ b.failed = a.failed /\ b.tracker = a.tracker /\ b.n = a.n /\ b.gap = a.gap
      BY <2>0, <3>1 DEF DrainSet
    <3> HIDE DEF b
    <3> QED
      BY <1>9, <2>0, <3>2 DEF b
  <2>3. CASE ~a.abandoned /\ frames[i].class = "M"
    <3>1. a.tracker.last = last(i - 1) /\ s > t.last
      BY <1>3, <1>9, <2>3
    <3>2. s > last(i - 1)
      <4>1. CASE i = 1
        BY <3>1, <4>1
      <4>2. CASE i # 1
        <5>1. i - 1 \in 1..m /\ i - 1 < i /\ last(i - 1) = frames[i - 1].seq
          BY <4>2
        <5>2. frames[i - 1].seq # 0 /\ s # 0
          BY <1>3, <2>0, <5>1
        <5> QED
          BY <5>1, <5>2 DEF Ascending
      <4> QED
        BY <4>1, <4>2
    <3>3. s > a.tracker.last /\ s # 0
      BY <2>0, <3>1, <3>2
    <3>4. b = [a EXCEPT !.tracker = [a.tracker EXCEPT !.last = s], !.n = a.n + 1,
                        !.gap = a.gap \/ MailboxGap(a.tracker, s)]
      BY <1>9, <2>3, <3>3 DEF DrainItem, AcceptMailboxOK, AcceptMailbox
    <3>5. /\ b.failed = a.failed /\ b.n = a.n + 1 /\ b.gap = (a.gap \/ MailboxGap(a.tracker, s))
          /\ b.tracker = [a.tracker EXCEPT !.last = s]
      BY <2>0, <3>4 DEF DrainSet
    <3>6. b.tracker.last = s /\ b.tracker.inSession = a.tracker.inSession
      BY <2>0, <3>5 DEF TrackerSet
    <3>7. s >= t.last + (a.n + 1)
      BY <1>9, <2>0, <3>3
    <3>8. ~b.gap => s = t.last + (a.n + 1)
      <4> SUFFICES ASSUME ~b.gap PROVE s = t.last + (a.n + 1)
        OBVIOUS
      <4>1. ~a.gap /\ ~MailboxGap(a.tracker, s)
        BY <3>5
      <4>2. a.tracker.last = t.last + a.n
        BY <1>9, <4>1
      <4>3. ~(s > a.tracker.last + 1)
        BY <4>1 DEF MailboxGap
      <4>4. s \in Nat /\ a.tracker.last \in Nat /\ t.last \in Nat /\ a.n \in Nat
        BY <2>0
      <4> HIDE DEF s, b, last, After
      <4> QED
        BY <3>3, <4>2, <4>3, <4>4
    <3>9. s <= n
      BY <1>3
    <3> HIDE DEF b, last
    <3> QED
      BY <1>9, <2>0, <3>5, <3>6, <3>7, <3>8, <3>9 DEF b
  <2> QED
    BY <2>1, <2>2, <2>3
<1>10. After(m, run[m])
  <2> DEFINE T == {i \in 0..m : After(i, run[i])}
  <2> HIDE DEF After, x0, m
  <2>1. 0 \in T
    BY <1>2, <1>7, <1>8
  <2>2. ASSUME NEW i \in 1..m, i - 1 \in T PROVE i \in T
    BY <1>2, <1>7, <1>9, <2>2
  <2> HIDE DEF T
  <2>3. 0..m \subseteq T
    BY <1>2, <2>1, <2>2, UpTo
  <2> QED
    BY <1>2, <2>3 DEF T
<1>11. last(m) = IF frames = <<>> THEN t.last ELSE frames[Len(frames)].seq
  OBVIOUS
<1> HIDE DEF last
<1> QED
  BY <1>1, <1>10, <1>11

-----------------------------------------------------------------------------
(* Queues *)

LEMMA SeqMono == ASSUME NEW S, NEW T, S \subseteq T, NEW q \in Seq(S) PROVE q \in Seq(T)
OBVIOUS

LEMMA SeqJoin == ASSUME NEW S, NEW p \in Seq(S), NEW q \in Seq(S) PROVE p \o q \in Seq(S)
OBVIOUS

LEMMA SeqTail == ASSUME NEW S, NEW q \in Seq(S), q # <<>> PROVE Head(q) \in S /\ Tail(q) \in Seq(S)
OBVIOUS

LEMMA Enqueued == ASSUME NEW S, NEW q \in Seq(S), NEW m \in S PROVE enqueue(q, m) \in Seq(S)
BY DEF enqueue

LEMMA NumberedMono == ASSUME NEW m \in Nat, NEW n \in Nat, m <= n PROVE Numbered(m) \subseteq Numbered(n)
BY DEF Numbered, FrameSet

LEMMA RelayMono ==
  ASSUME NEW s1 \in Nat, NEW t1 \in Nat, NEW s2 \in Nat, NEW t2 \in Nat, s1 <= s2, t1 <= t2,
         NEW r \in RelaySet(s1, t1)
  PROVE  r \in RelaySet(s2, t2)
<1>1. Numbered(s1) \subseteq Numbered(s2) /\ Numbered(t1) \subseteq Numbered(t2)
  BY NumberedMono
<1>2. r.mbx \in Seq(Numbered(s2)) /\ r.toDev \in Seq(Numbered(s2))
  BY <1>1, SeqMono DEF RelaySet
<1>3. r.toHost \in Seq(Numbered(t2) \cup PresenceSet)
  <2>1. Numbered(t1) \cup PresenceSet \subseteq Numbered(t2) \cup PresenceSet
    BY <1>1
  <2> QED
    BY <2>1, SeqMono DEF RelaySet
<1>4. r.fromDev \in [Conn -> Seq(Numbered(t2))]
  <2>1. r.fromDev \in [Conn -> Seq(Numbered(t1))]
    BY DEF RelaySet
  <2>2. \A c \in Conn : r.fromDev[c] \in Seq(Numbered(t2))
    BY <1>1, <2>1, SeqMono
  <2> QED
    BY <2>1, <2>2
<1> QED
  BY <1>2, <1>3, <1>4 DEF RelaySet

-----------------------------------------------------------------------------
(* What the host sends *)

\* A host frame changes the mailbox or the queue of the device's connection.
Untouched(r, q) ==
  /\ q.conns = r.conns /\ q.attached = r.attached /\ q.reader = r.reader /\ q.lostText = r.lostText
  /\ q.toHost = r.toHost /\ q.fromDev = r.fromDev

LEMMA HostFrameOK ==
  ASSUME NEW sent \in Nat, NEW n \in Nat, NEW top \in Nat, sent <= n,
         NEW r \in RelaySet(sent, top), Ascending(r.mbx),
         NEW f \in Numbered(n), f.seq = 0 \/ f.seq > sent
  PROVE  LET q == hostFrame(r, f)
         IN  q \in RelaySet(n, top) /\ Ascending(q.mbx) /\ Untouched(r, q)
<1> DEFINE N == Numbered(n)
<1>1. r \in RelaySet(n, top)
  BY RelayMono
<1>2. r.toDev \in Seq(N) /\ r.mbx \in Seq(N)
  BY <1>1 DEF RelaySet
<1>3. CASE hostFrame(r, f) = r
  BY <1>1, <1>3 DEF Untouched
<1>4. CASE hostFrame(r, f) = [r EXCEPT !.toDev = enqueue(@, f)]
  <2> DEFINE e == enqueue(r.toDev, f)
  <2>1. e \in Seq(N)
    BY <1>2, Enqueued
  <2>2. hostFrame(r, f) = [r EXCEPT !.toDev = e]
    BY <1>4
  <2> HIDE DEF e
  <2> QED
    BY <1>1, <2>1, <2>2 DEF RelaySet, Untouched
<1>5. CASE hostFrame(r, f) = [r EXCEPT !.mbx = mailboxAppend(@, f)]
  <2> DEFINE g == Append(r.mbx, f)
             b == mailboxAppend(r.mbx, f)
  <2>1. g \in Seq(N) /\ Len(g) = Len(r.mbx) + 1 /\ g[Len(g)] = f /\ \A i \in 1..Len(r.mbx) : g[i] = r.mbx[i]
    BY <1>2
  <2>2. \A i \in 1..Len(r.mbx) : r.mbx[i].seq \in Nat /\ r.mbx[i].seq <= sent
    BY DEF RelaySet, Numbered, FrameSet
  <2> HIDE DEF g, N
  <2>3. Ascending(g)
    <3> SUFFICES ASSUME NEW i \in 1..Len(g), NEW j \in 1..Len(g), i < j, g[i].seq # 0, g[j].seq # 0
                 PROVE  g[i].seq < g[j].seq
      BY DEF Ascending
    <3>0. Len(r.mbx) \in Nat /\ i \in 1..Len(r.mbx) /\ g[i].seq \in Nat /\ g[i].seq <= sent
      <4>1. Len(r.mbx) \in Nat
        BY <1>2
      <4>2. i \in 1..Len(r.mbx)
        BY <2>1, <4>1
      <4> QED
        BY <2>1, <2>2, <4>1, <4>2
    <3>1. CASE j \in 1..Len(r.mbx)
      BY <2>1, <3>0, <3>1 DEF Ascending
    <3>2. CASE j = Len(g)
      <4>1. g[j].seq = f.seq /\ f.seq > sent /\ f.seq \in Nat
        BY <2>1, <3>2 DEF Numbered, FrameSet
      <4> QED
        BY <3>0, <4>1
    <3> QED
      BY <2>1, <3>0, <3>1, <3>2
  <2>4. b = g \/ b = Tail(g)
    BY DEF mailboxAppend, g
  <2>5. g # <<>>
    BY <2>1
  <2>6. b \in Seq(N) /\ Ascending(b)
    <3>1. CASE b = g
      BY <2>1, <2>3, <3>1
    <3>2. CASE b = Tail(g)
      <4>1. Tail(g) \in Seq(N) /\ Len(Tail(g)) = Len(g) - 1 /\ \A i \in 1..Len(Tail(g)) : Tail(g)[i] = g[i + 1]
        BY <2>1, <2>5
      <4>2. Ascending(Tail(g))
        BY <2>1, <2>3, <4>1 DEF Ascending
      <4> QED
        BY <3>2, <4>1, <4>2
    <3> QED
      BY <2>4, <3>1, <3>2
  <2>7. hostFrame(r, f) = [r EXCEPT !.mbx = b]
    BY <1>5
  <2> HIDE DEF b
  <2> QED
    BY <1>1, <2>6, <2>7 DEF RelaySet, Untouched, N
<1> QED
  BY <1>3, <1>4, <1>5 DEF hostFrame

\* The pair of states a handler threads through its sends.
PairOK(s, top) == s \in [h : HostSet, r : RelaySet(s.h.sent, top)] /\ Ascending(s.r.mbx)

\* From s the host's own sends have led to t.
Served(s, t, top) ==
  /\ PairOK(t, top)
  /\ t.h.sent >= s.h.sent /\ t.h.attached = s.h.attached /\ t.h.d2h = s.h.d2h
  /\ Untouched(s.r, t.r)

LEMMA ServedAgain ==
  ASSUME NEW top \in Nat, NEW s, NEW t, NEW u, PairOK(s, top), Served(s, t, top), Served(t, u, top)
  PROVE  Served(s, u, top)
<1>1. s.h.sent \in Nat /\ t.h.sent \in Nat /\ u.h.sent \in Nat
  BY DEF Served, PairOK, HostSet
<1> QED
  BY <1>1 DEF Served, Untouched

LEMMA ServedNot == ASSUME NEW top \in Nat, NEW s, PairOK(s, top) PROVE Served(s, s, top)
<1>1. s.h.sent \in Nat
  BY DEF PairOK, HostSet
<1> QED
  BY <1>1 DEF Served, Untouched

\* A numbered frame, on the session or for the mailbox.
LEMMA NumberedSent ==
  ASSUME NEW top \in Nat, NEW s, PairOK(s, top), NEW kind \in Kind \ {"sess.hello", "sess.header"},
         NEW class \in {"L", "M"}, NEW keys \in KeySet, NEW t,
         t = [h |-> [s.h EXCEPT !.sent = s.h.sent + 1],
              r |-> hostFrame(s.r, Frame(kind, s.h.sent + 1, class, keys))]
  PROVE  Served(s, t, top)
<1> DEFINE n == s.h.sent + 1
           f == Frame(kind, n, class, keys)
<1>1. s.h \in HostSet /\ s.h.sent \in Nat /\ n \in Nat /\ s.r \in RelaySet(s.h.sent, top) /\ Ascending(s.r.mbx)
  BY DEF PairOK, HostSet
<1>2. f \in Numbered(n) /\ f.seq > s.h.sent
  BY <1>1 DEF Frame, Numbered, FrameSet
<1>3. t.h = [s.h EXCEPT !.sent = n] /\ t.r = hostFrame(s.r, f)
  OBVIOUS
<1>4. /\ t.h \in HostSet /\ t.h.sent = n /\ n >= s.h.sent
      /\ t.h.attached = s.h.attached /\ t.h.d2h = s.h.d2h
  BY <1>1, <1>3 DEF HostSet
<1> HIDE DEF f
<1>5. t.r \in RelaySet(n, top) /\ Ascending(t.r.mbx) /\ Untouched(s.r, t.r)
  <2>1. s.h.sent <= n
    BY <1>1
  <2> HIDE DEF n
  <2> QED
    BY <1>1, <1>2, <1>3, <2>1, HostFrameOK
<1> HIDE DEF n
<1>6. t \in [h : HostSet, r : RelaySet(n, top)]
  BY <1>4, <1>5
<1> QED
  BY <1>4, <1>5, <1>6 DEF Served, PairOK

LEMMA SendsServed ==
  ASSUME NEW top \in Nat, NEW s, PairOK(s, top), NEW kind \in Kind \ {"sess.hello", "sess.header"}
  PROVE  /\ Served(s, sendEncryptedOn(s, kind), top)
         /\ Served(s, sendMailboxEnvelope(s, kind), top)
         /\ Served(s, sendEnvelope(s, kind), top)
<1>1. s.h.sess.keys \in KeySet /\ NoKeys \in KeySet
  BY DEF PairOK, HostSet, SessSet, NoKeys, KeySet
<1>2. Served(s, sendEncryptedOn(s, kind), top)
  BY <1>1, NumberedSent DEF sendEncryptedOn
<1>3. Served(s, sendMailboxEnvelope(s, kind), top)
  BY <1>1, NumberedSent DEF sendMailboxEnvelope
<1>4. Served(s, s, top)
  BY ServedNot
<1> QED
  BY <1>2, <1>3, <1>4 DEF sendEnvelope

\* A change of the session alone.
LEMMA SessionServed ==
  ASSUME NEW top \in Nat, NEW s, PairOK(s, top), NEW t,
         NEW sess \in SessSet,
         t = [s EXCEPT !.h = [s.h EXCEPT !.sess = sess]]
  PROVE  Served(s, t, top)
<1>1. s.h \in HostSet /\ s.h.sent \in Nat /\ s.r \in RelaySet(s.h.sent, top) /\ Ascending(s.r.mbx)
  BY DEF PairOK, HostSet
<1>2. t.h = [s.h EXCEPT !.sess = sess] /\ t.r = s.r /\ t = [h |-> t.h, r |-> t.r]
  BY DEF PairOK
<1>3. t.h \in HostSet /\ t.h.sent = s.h.sent /\ t.h.attached = s.h.attached /\ t.h.d2h = s.h.d2h
  BY <1>1, <1>2 DEF HostSet
<1>4. t \in [h : HostSet, r : RelaySet(t.h.sent, top)]
  BY <1>1, <1>2, <1>3
<1> QED
  BY <1>1, <1>2, <1>3, <1>4 DEF Served, PairOK, Untouched

LEMMA ControlServed ==
  ASSUME NEW top \in Nat, NEW s, PairOK(s, top), NEW kind \in Kind, NEW keys \in KeySet
  PROVE  Served(s, sendControl(s, kind, keys), top)
<1> DEFINE f == Frame(kind, 0, "P", keys)
           t == sendControl(s, kind, keys)
<1>1. s.h \in HostSet /\ s.h.sent \in Nat /\ s.r \in RelaySet(s.h.sent, top) /\ Ascending(s.r.mbx)
  BY DEF PairOK, HostSet
<1>2. f \in Numbered(s.h.sent) /\ f.seq = 0
  BY <1>1 DEF Frame, Numbered, FrameSet
<1>3. t.h = s.h /\ t.r = hostFrame(s.r, f) /\ t = [h |-> t.h, r |-> t.r]
  BY DEF sendControl, PairOK
<1> HIDE DEF f, t
<1>4. t.r \in RelaySet(s.h.sent, top) /\ Ascending(t.r.mbx) /\ Untouched(s.r, t.r)
  <2>1. s.h.sent <= s.h.sent
    BY <1>1
  <2> QED
    BY <1>1, <1>2, <1>3, <2>1, HostFrameOK
<1>5. t \in [h : HostSet, r : RelaySet(t.h.sent, top)]
  BY <1>1, <1>3, <1>4
<1>6. Served(s, t, top)
  BY <1>1, <1>3, <1>4, <1>5 DEF Served, PairOK
<1> QED
  BY <1>6 DEF t

\* A change of the host's own state that keeps its counter and its view.
LEMMA HostChange ==
  ASSUME NEW top \in Nat, NEW s, PairOK(s, top), NEW h \in HostSet,
         h.sent = s.h.sent, NEW t, t = [h |-> h, r |-> s.r]
  PROVE  PairOK(t, top) /\ t.h = h /\ t.r = s.r
<1>1. s.r \in RelaySet(h.sent, top) /\ Ascending(s.r.mbx) /\ t.h = h /\ t.r = s.r
  BY DEF PairOK
<1> QED
  BY <1>1 DEF PairOK

-----------------------------------------------------------------------------
(* What the host does with a frame *)

\* The host accepts f as authentic.
Took(s, f) == f.seq > 0 /\ s.h.sess.pull # NoKeys /\ AcceptOK(s.h.d2h, f.seq) /\ Opens(s.h.sess, f)

\* Handling f led from s to t: the mark moves only to the number of f, forward, and
\* does so if f is accepted.
Handled(s, t, f, top) ==
  /\ PairOK(t, top)
  /\ t.h.sent >= s.h.sent /\ t.h.attached = s.h.attached /\ Untouched(s.r, t.r)
  /\ \/ t.h.d2h.last = s.h.d2h.last /\ ~Took(s, f)
     \/ t.h.d2h.last = f.seq /\ f.seq > s.h.d2h.last

\* Sends after a change of the host's own state.
LEMMA ThenServed ==
  ASSUME NEW top \in Nat, NEW s, PairOK(s, top), NEW f, NEW h \in HostSet,
         h.sent = s.h.sent, h.attached = s.h.attached,
         \/ h.d2h.last = s.h.d2h.last /\ ~Took(s, f)
         \/ h.d2h.last = f.seq /\ f.seq > s.h.d2h.last,
         NEW t, Served([h |-> h, r |-> s.r], t, top)
  PROVE  Handled(s, t, f, top)
<1> DEFINE u == [h |-> h, r |-> s.r]
<1>1. u.h = h /\ u.r = s.r
  OBVIOUS
<1>2. Served(u, t, top)
  OBVIOUS
<1> HIDE DEF u
<1> QED
  BY <1>1, <1>2 DEF Served, Handled

LEMMA HelloHandled ==
  ASSUME NEW top \in Nat, NEW s, PairOK(s, top), NEW f \in FrameSet, f.seq = 0
  PROVE  Handled(s, handleSessHello(s, f), f, top)
<1> DEFINE n == s.h.nonce + 1
           keys == <<f.keys[1], n>>
           sess == [keys |-> keys, pull |-> NoKeys, step |-> 1]
           d2h == [s.h.d2h EXCEPT !.inSession = FALSE]
           h == [s.h EXCEPT !.nonce = n, !.d2h = d2h, !.sess = sess]
           u == [h |-> h, r |-> s.r]
<1>1. s.h \in HostSet /\ s.h.nonce \in Nat /\ s.h.d2h \in TrackerSet /\ s = [h |-> s.h, r |-> s.r]
  BY DEF PairOK, HostSet
<1>2. keys \in KeySet /\ NoKeys \in KeySet /\ n \in Nat
  BY <1>1 DEF FrameSet, KeySet, NoKeys
<1>3. sess \in SessSet
  <2> HIDE DEF keys
  <2> QED
    BY <1>2 DEF SessSet
<1>4. d2h \in TrackerSet /\ d2h.last = s.h.d2h.last
  BY <1>1 DEF TrackerSet
<1>5. handleSessHello(s, f) = sendControl(u, "sess.accept", keys)
  <2> DEFINE h0 == [s.h EXCEPT !.sess = NoSession]
             t == abortSession(s)
  <2>1. t.h = h0 /\ t = [h |-> h0, r |-> s.r]
    BY <1>1 DEF abortSession
  <2>2. h0.d2h = s.h.d2h /\ StartSession(s.h.d2h) = d2h
    BY <1>1 DEF HostSet, StartSession
  <2>3. [h0 EXCEPT !.nonce = n, !.d2h = d2h, !.sess = sess] = h
    <3> HIDE DEF n, d2h, sess
    <3> QED
      BY <1>1 DEF HostSet
  <2>4. [h0 EXCEPT !.nonce = n, !.d2h = StartSession(@), !.sess = sess]
          = [h0 EXCEPT !.nonce = n, !.d2h = d2h, !.sess = sess]
    <3> HIDE DEF n, d2h, sess
    <3> QED
      BY <1>1, <2>2 DEF HostSet
  <2>5. [t.h EXCEPT !.nonce = n, !.d2h = StartSession(@), !.sess = sess] = h
    <3> HIDE DEF n, d2h, sess, h0, t, h
    <3> QED
      BY <2>1, <2>3, <2>4
  <2>6. [t EXCEPT !.h = h] = u
    <3> HIDE DEF h, h0, t
    <3> QED
      BY <2>1
  <2>7. handleSessHello(s, f) = sendControl([t EXCEPT !.h = [t.h EXCEPT !.nonce = n,
          !.d2h = StartSession(@), !.sess = sess]], "sess.accept", keys)
    BY DEF handleSessHello
  <2> HIDE DEF h, t, u
  <2> QED
    BY <2>5, <2>6, <2>7
<1> HIDE DEF sess, d2h, keys, n
<1>6. h \in HostSet /\ h.sent = s.h.sent /\ h.attached = s.h.attached /\ h.d2h = d2h
  BY <1>1, <1>2, <1>3, <1>4 DEF HostSet
<1> HIDE DEF h
<1>7. PairOK(u, top)
  BY <1>6, HostChange
<1>8. Served(u, sendControl(u, "sess.accept", keys), top)
  <2> HIDE DEF u
  <2> QED
    BY <1>2, <1>7, ControlServed DEF Kind
<1>9. ~Took(s, f)
  BY DEF Took
<1> QED
  BY <1>4, <1>5, <1>6, <1>8, <1>9, ThenServed

LEMMA SessChange ==
  ASSUME NEW x \in SessSet, NEW k \in KeySet, NEW n \in 0..3
  PROVE  [x EXCEPT !.pull = k] \in SessSet /\ [x EXCEPT !.step = n] \in SessSet
BY DEF SessSet

LEMMA HeaderHandled ==
  ASSUME NEW top \in Nat, NEW s, PairOK(s, top), NEW f \in FrameSet, f.seq = 0
  PROVE  Handled(s, handleSessHeader(s, f), f, top)
<1>1. s.h \in HostSet /\ s = [h |-> s.h, r |-> s.r]
  BY DEF PairOK
<1>2. ~Took(s, f)
  BY DEF Took
<1>3. CASE s.h.sess.step # 1
  <2>1. handleSessHeader(s, f) = s
    BY <1>3 DEF handleSessHeader
  <2>2. Served([h |-> s.h, r |-> s.r], s, top)
    BY <1>1, ServedNot
  <2> QED
    BY <1>1, <1>2, <2>1, <2>2, ThenServed
<1>4. CASE s.h.sess.step = 1
  <2> DEFINE sess == [s.h.sess EXCEPT !.pull = f.keys, !.step = 2]
             u == [s EXCEPT !.h = [s.h EXCEPT !.sess = sess]]
  <2>1. sess \in SessSet
    <3>1. s.h.sess \in SessSet /\ f.keys \in KeySet /\ 2 \in 0..3
      BY <1>1 DEF HostSet, FrameSet
    <3>2. [s.h.sess EXCEPT !.pull = f.keys] \in SessSet
      BY <3>1, SessChange
    <3> QED
      BY <3>1, <3>2, SessChange
  <2>2. [s EXCEPT !.h.sess.pull = f.keys, !.h.sess.step = 2] = u
    BY <1>1 DEF HostSet
  <2>3. handleSessHeader(s, f) = sendEncryptedOn(u, "sess.confirm")
    BY <1>4, <2>2 DEF handleSessHeader
  <2> HIDE DEF sess
  <2>4. Served(s, u, top)
    BY <2>1, SessionServed
  <2> HIDE DEF u
  <2>5. Served(u, sendEncryptedOn(u, "sess.confirm"), top)
    BY <2>4, SendsServed DEF Kind, Served
  <2>6. Served(s, sendEncryptedOn(u, "sess.confirm"), top)
    BY <2>4, <2>5, ServedAgain
  <2> QED
    BY <1>1, <1>2, <2>3, <2>6, ThenServed
<1> QED
  BY <1>3, <1>4

LEMMA AbortServed ==
  ASSUME NEW top \in Nat, NEW s, PairOK(s, top)
  PROVE  Served(s, abortSession(s), top)
<1>1. NoSession \in SessSet
  BY DEF NoSession, NoKeys, SessSet, KeySet
<1>2. abortSession(s) = [s EXCEPT !.h = [s.h EXCEPT !.sess = NoSession]]
  BY DEF abortSession
<1> QED
  BY <1>1, <1>2, SessionServed

LEMMA RPCServed ==
  ASSUME NEW top \in Nat, NEW s, PairOK(s, top), NEW kind
  PROVE  Served(s, handleRPC(s, kind), top)
<1>1. CASE kind = "rpc.request"
  BY <1>1, SendsServed DEF handleRPC, Kind
<1>2. CASE kind # "rpc.request"
  <2> DEFINE u == sendEnvelope(s, "transcript.page")
  <2>1. Served(s, u, top)
    BY SendsServed DEF Kind
  <2>2. handleRPC(s, kind) = sendEnvelope(u, "transcript.page")
    BY <1>2 DEF handleRPC
  <2> HIDE DEF u
  <2>3. Served(u, sendEnvelope(u, "transcript.page"), top)
    BY <2>1, SendsServed DEF Kind, Served
  <2> QED
    BY <2>1, <2>2, <2>3, ServedAgain
<1> QED
  BY <1>1, <1>2

LEMMA AEADHandled ==
  ASSUME NEW top \in Nat, NEW s, PairOK(s, top), NEW f \in FrameSet
  PROVE  Handled(s, handleAEAD(s, f), f, top)
<1>1. s.h \in HostSet /\ s = [h |-> s.h, r |-> s.r] /\ s.h.sess \in SessSet /\ s.h.d2h \in TrackerSet
  BY DEF PairOK, HostSet
<1>2. CASE s.h.sess.pull = NoKeys
  <2>1. handleAEAD(s, f) = s /\ ~Took(s, f)
    BY <1>2 DEF handleAEAD, Took
  <2>2. Served([h |-> s.h, r |-> s.r], s, top)
    BY <1>1, ServedNot
  <2> QED
    BY <1>1, <2>1, <2>2, ThenServed
<1>3. CASE s.h.sess.pull # NoKeys /\ ~AcceptOK(s.h.d2h, f.seq)
  <2>1. handleAEAD(s, f) = abortSession(s) /\ ~Took(s, f)
    BY <1>3 DEF handleAEAD, Took
  <2>2. Served([h |-> s.h, r |-> s.r], abortSession(s), top)
    BY <1>1, AbortServed
  <2> QED
    BY <1>1, <2>1, <2>2, ThenServed
<1>4. CASE s.h.sess.pull # NoKeys /\ AcceptOK(s.h.d2h, f.seq)
  <2> DEFINE h == [s.h EXCEPT !.d2h = Accept(s.h.d2h, f.seq)]
             t == [h |-> h, r |-> s.r]
             up == [t EXCEPT !.h.sess.step = 3]
  <2>1. [s EXCEPT !.h.d2h = Accept(@, f.seq)] = t
    BY <1>1
  <2>2. f.seq \in Nat /\ f.seq > s.h.d2h.last
    BY <1>4 DEF FrameSet, AcceptOK
  <2>3. h \in HostSet /\ h.sent = s.h.sent /\ h.attached = s.h.attached /\ h.d2h.last = f.seq /\ h.sess = s.h.sess
    <3> DEFINE d == Accept(s.h.d2h, f.seq)
    <3>1. d \in TrackerSet /\ d.last = f.seq
      BY <2>2 DEF Accept, TrackerSet
    <3> HIDE DEF d
    <3> QED
      BY <1>1, <3>1 DEF HostSet, d
  <2> HIDE DEF h
  <2>4. PairOK(t, top) /\ t.h = h
    BY <2>3, HostChange
  <2>5. up = [t EXCEPT !.h = [t.h EXCEPT !.sess = [h.sess EXCEPT !.step = 3]]]
    OBVIOUS
  <2>6. [h.sess EXCEPT !.step = 3] \in SessSet
    BY <1>1, <2>3, SessChange DEF SessSet
  <2>7. handleAEAD(s, f) \in {abortSession(t), sendEnvelope(up, "snapshot.full"), handleRPC(t, f.kind), t}
    BY <1>4, <2>1 DEF handleAEAD
  <2> HIDE DEF t, up
  <2>8. Served(t, up, top)
    BY <2>4, <2>5, <2>6, SessionServed
  <2>9. Served(up, sendEnvelope(up, "snapshot.full"), top)
    BY <2>8, SendsServed DEF Kind, Served
  <2>10. Served(t, handleAEAD(s, f), top)
    BY <2>4, <2>7, <2>8, <2>9, AbortServed, RPCServed, ServedNot, ServedAgain
  <2> QED
    BY <2>2, <2>3, <2>10, ThenServed DEF t
<1> QED
  BY <1>2, <1>3, <1>4

\* handleSessionFrame keeps the relay's and the host's side in order, and the mark
\* follows what is accepted.
LEMMA FrameHandled ==
  ASSUME NEW top \in Nat, NEW s, PairOK(s, top), NEW f \in FrameSet
  PROVE  Handled(s, handleSessionFrame(s, f), f, top)
<1>1. CASE f.kind = "sess.hello"
  BY <1>1, HelloHandled DEF handleSessionFrame, FrameSet
<1>2. CASE f.kind = "sess.header"
  BY <1>2, HeaderHandled DEF handleSessionFrame, FrameSet
<1>3. CASE f.kind \notin {"sess.hello", "sess.header"}
  BY <1>3, AEADHandled DEF handleSessionFrame
<1> QED
  BY <1>1, <1>2, <1>3

-----------------------------------------------------------------------------
(* The invariant, and steps of the two directions *)

\* Device to host: what reached a wire is saved, what the host took it has marked.
CountersInv ==
  /\ hist.d2hTop <= dev.savedSent /\ dev.savedSent <= dev.D2HLastSent
  /\ hist.d2hGot <= host.d2h.last

\* Host to device: the mark is what was taken last, and a running Connect or session
\* starts from it; the page to fetch next starts there too.  The mark is saved unless
\* the last save of it failed.
MarksInv ==
  /\ hist.got = dev.H2DLastSeen /\ hist.got <= host.sent
  /\ dev.savedSeen <= hist.got /\ (hist.unsaved \/ dev.savedSeen = hist.got)
  /\ dev.pc # "idle" => dev.tracker.last = dev.H2DLastSeen
  /\ dev.pc = "drain" => dev.after = dev.tracker.last
  /\ Ascending(relay.mbx)

\* SkippedMeansReconcile from the start of a Connect, whose tracker is in session
\* once the session is up.
SkipInv ==
  dev.pc # "idle" =>
    /\ dev.tracker.inSession <=> dev.pc = "up"
    /\ dev.reconcile \/ dev.tracker.last - hist.base = hist.accepted

Inv == TypeOK /\ CountersInv /\ MarksInv /\ SkipInv

H2DStep ==
  [H2D!Next]_<<host.sent, host.sent, hist.taken, hist.got, dev.savedSeen, hist.unsaved>>

D2HStep ==
  [D2H!Next]_<<hist.d2hCount, hist.d2hTop, hist.d2hTaken, hist.d2hGot, hist.d2hGot, FALSE>>

Step == Inv' /\ H2DStep /\ D2HStep

LEMMA H2DSent ==
  ASSUME host.sent \in Nat, host'.sent \in Nat, host'.sent >= host.sent,
         hist'.taken = hist.taken, hist'.got = hist.got,
         dev'.savedSeen = dev.savedSeen, hist'.unsaved = hist.unsaved
  PROVE  H2DStep
BY DEF H2DStep, H2D!Next, H2D!Send

LEMMA MaxIs ==
  ASSUME NEW T, T \subseteq Int, NEW x \in T, \A y \in T : y <= x
  PROVE  Max(T) = x
<1> DEFINE P(z) == z \in T /\ \A y \in T : z >= y
<1>1. P(x)
  OBVIOUS
<1>2. \A z : P(z) => z = x
  OBVIOUS
<1>3. Max(T) = CHOOSE z : P(z)
  BY DEF Max
<1> HIDE DEF P
<1> QED
  BY <1>1, <1>2, <1>3

\* k numbers ending with g, the mark saved or not.
LEMMA H2DTook ==
  ASSUME host.sent \in Nat, hist.got \in Nat, NEW k \in Nat \ {0}, NEW g \in Nat,
         g >= hist.got + k, g <= host.sent,
         host' = host, hist'.taken = hist.taken + k, hist'.got = g,
         dev'.savedSeen = IF hist'.unsaved THEN dev.savedSeen ELSE g
  PROVE  H2DStep
<1> DEFINE S == (g - k + 1)..g
<1>1. g - k + 1 \in Int /\ g - k + 1 <= g
  OBVIOUS
<1>2. Cardinality(S) = k
  <2>1. Cardinality(S) = IF g - k + 1 > g THEN 0 ELSE g - (g - k + 1) + 1
    BY <1>1, FS_Interval
  <2> QED
    BY <1>1, <2>1
<1>3. g \in S /\ S \subseteq Int /\ (\A y \in S : y <= g) /\ S \subseteq (hist.got + 1)..host.sent
  OBVIOUS
<1> HIDE DEF S
<1>4. Max(S) = g
  BY <1>3, MaxIs
<1>5. S \in (SUBSET ((hist.got + 1)..host.sent)) \ {{}}
  BY <1>3
<1>6. H2D!Take
  <2>1. H2D!Max(S) = g
    BY <1>4 DEF H2D!Max, Max
  <2>2. H2D!Cardinality(S) = k
    BY <1>2 DEF H2D!Cardinality, Cardinality
  <2> QED
    BY <2>1, <2>2, <1>5 DEF H2D!Take
<1> QED
  BY <1>6 DEF H2DStep, H2D!Next

LEMMA D2HTook ==
  ASSUME hist.d2hTop \in Nat, hist.d2hGot \in Nat, NEW g \in Nat, g > hist.d2hGot, g <= hist.d2hTop,
         hist'.d2hCount = hist.d2hCount, hist'.d2hTop = hist.d2hTop,
         hist'.d2hTaken = hist.d2hTaken + 1, hist'.d2hGot = g
  PROVE  D2HStep
<1>1. Max({g}) = g
  <2>1. {g} \subseteq Int /\ g \in {g} /\ \A y \in {g} : y <= g
    OBVIOUS
  <2> QED
    BY <2>1, MaxIs
<1>2. Cardinality({g}) = 1
  BY FS_Singleton
<1>3. {g} \in (SUBSET ((hist.d2hGot + 1)..hist.d2hTop)) \ {{}}
  OBVIOUS
<1>4. D2H!Max({g}) = g
  BY <1>1 DEF D2H!Max, Max
<1>5. D2H!Cardinality({g}) = 1
  BY <1>2 DEF D2H!Cardinality, Cardinality
<1>6. D2H!Take
  BY <1>3, <1>4, <1>5 DEF D2H!Take
<1> QED
  BY <1>6 DEF D2HStep, D2H!Next

\* Neither the device's wire nor what the host took is touched.
LEMMA D2HQuiet ==
  ASSUME hist'.d2hCount = hist.d2hCount, hist'.d2hTop = hist.d2hTop,
         hist'.d2hTaken = hist.d2hTaken, hist'.d2hGot = hist.d2hGot
  PROVE  D2HStep
BY DEF D2HStep

-----------------------------------------------------------------------------
(* Steps of the relay *)

LEMMA RelayOnly ==
  ASSUME Inv, UNCHANGED <<host, dev, hist>>,
         relay' \in RelaySet(host.sent, hist.d2hTop), Ascending(relay'.mbx)
  PROVE  Step
<1>1. TypeOK' /\ CountersInv' /\ SkipInv'
  BY DEF Inv, TypeOK, CountersInv, SkipInv
<1>2. MarksInv'
  BY DEF Inv, MarksInv
<1>3. H2DStep /\ D2HStep
  BY DEF H2DStep, D2HStep
<1> QED
  BY <1>1, <1>2, <1>3 DEF Step, Inv

\* q has a recorded for its presence; a transition was queued, and nothing else changed.
Published(r, q, a) ==
  /\ q.attached = a
  /\ q.conns = r.conns /\ q.mbx = r.mbx /\ q.fromDev = r.fromDev
  /\ \/ q = r
     \/ /\ q.toHost = enqueue(r.toHost, PresenceMsg(a))
        /\ q.lostText = (r.lostText \/ Len(r.toHost) >= QueueCap)

LEMMA AttachedPublished ==
  ASSUME NEW sent \in Nat, NEW top \in Nat, NEW r \in RelaySet(sent, top), NEW a \in BOOLEAN
  PROVE  setDevAttached(r, a) \in RelaySet(sent, top) /\ Published(r, setDevAttached(r, a), a)
<1>1. CASE r.attached = a
  BY <1>1 DEF setDevAttached, Published
<1>2. CASE r.attached # a
  <2> DEFINE p == [r EXCEPT !.attached = a]
             e == enqueue(r.toHost, PresenceMsg(a))
             l == r.lostText \/ Len(r.toHost) >= QueueCap
             q == [p EXCEPT !.toHost = e, !.lostText = l]
  <2>1. PresenceMsg(a) \in Numbered(top) \cup PresenceSet
    BY DEF PresenceMsg, PresenceSet
  <2>2. r.toHost \in Seq(Numbered(top) \cup PresenceSet)
    BY DEF RelaySet
  <2>3. e \in Seq(Numbered(top) \cup PresenceSet)
    BY <2>1, <2>2, Enqueued
  <2>4. p.toHost = r.toHost /\ p.lostText = r.lostText /\ p \in RelaySet(sent, top) /\ p.attached = a
        /\ p.conns = r.conns /\ p.mbx = r.mbx /\ p.fromDev = r.fromDev
    BY DEF RelaySet
  <2>5. setDevAttached(r, a) = sendText(p, PresenceMsg(a))
    BY <1>2 DEF setDevAttached
  <2> HIDE DEF p
  <2>6. sendText(p, PresenceMsg(a)) = q
    <3>1. [p EXCEPT !.toHost = enqueue(@, PresenceMsg(a))] = [p EXCEPT !.toHost = e]
      BY <2>4
    <3>2. [p EXCEPT !.toHost = e].lostText = r.lostText
      BY <2>4 DEF RelaySet
    <3> HIDE DEF e
    <3> QED
      BY <2>4, <3>1, <3>2 DEF sendText
  <2>7. l \in BOOLEAN
    OBVIOUS
  <2>8. q.toHost = e /\ q.lostText = l
    <3> HIDE DEF e, l
    <3> QED
      BY <2>4 DEF RelaySet
  <2>9. /\ q \in RelaySet(sent, top) /\ q.attached = a
        /\ q.conns = r.conns /\ q.mbx = r.mbx /\ q.fromDev = r.fromDev
    <3> HIDE DEF e, l
    <3> QED
      BY <2>3, <2>4, <2>7 DEF RelaySet
  <2> HIDE DEF q
  <2> QED
    BY <2>5, <2>6, <2>8, <2>9 DEF Published
<1> QED
  BY <1>1, <1>2

LEMMA DeviceFrameStep == ASSUME Inv, NEW c \in Conn, DeviceFrame(c) PROVE Step
<1> DEFINE top == hist.d2hTop
           f == Head(relay.fromDev[c])
           fd == [relay.fromDev EXCEPT ![c] = Tail(@)]
           e == enqueue(relay.toHost, f)
<1>1. relay \in RelaySet(host.sent, top) /\ relay.fromDev \in [Conn -> Seq(Numbered(top))]
      /\ relay.toHost \in Seq(Numbered(top) \cup PresenceSet)
  BY DEF Inv, TypeOK, RelaySet
<1>2. /\ relay.fromDev[c] # <<>> /\ UNCHANGED <<host, dev, hist>>
      /\ relay' = [relay EXCEPT !.fromDev = fd, !.toHost = e]
  BY <1>1 DEF DeviceFrame, RelaySet
<1>3. f \in Numbered(top) /\ Tail(relay.fromDev[c]) \in Seq(Numbered(top))
  BY <1>1, <1>2, SeqTail
<1>4. fd \in [Conn -> Seq(Numbered(top))] /\ e \in Seq(Numbered(top) \cup PresenceSet)
  BY <1>1, <1>3, Enqueued
<1> HIDE DEF fd, e, top
<1>5. relay' \in RelaySet(host.sent, top) /\ relay'.mbx = relay.mbx
  BY <1>1, <1>2, <1>4 DEF RelaySet
<1> QED
  BY <1>2, <1>5, RelayOnly DEF top, Inv, MarksInv

LEMMA Detached ==
  ASSUME NEW sent \in Nat, NEW top \in Nat, NEW r \in RelaySet(sent, top), NEW c \in Conn
  PROVE  deleteDevConn(r, c) \in RelaySet(sent, top) /\ deleteDevConn(r, c).mbx = r.mbx
<1> DEFINE cs == r.conns \ {c}
           fd == [r.fromDev EXCEPT ![c] = <<>>]
           out == [r EXCEPT !.conns = cs, !.fromDev = fd]
<1>1. <<>> \in Seq(Numbered(top))
  OBVIOUS
<1>2. cs \subseteq Conn /\ fd \in [Conn -> Seq(Numbered(top))]
  BY <1>1 DEF RelaySet
<1>3. [r EXCEPT !.conns = @ \ {c}, !.fromDev[c] = <<>>] = out
  BY DEF RelaySet
<1>4. deleteDevConn(r, c) = IF out.conns = {} THEN setDevAttached(out, FALSE) ELSE out
  BY <1>3 DEF deleteDevConn
<1> HIDE DEF cs, fd
<1>5. out \in RelaySet(sent, top) /\ out.mbx = r.mbx
  BY <1>2 DEF RelaySet
<1> HIDE DEF out
<1>6. setDevAttached(out, FALSE) \in RelaySet(sent, top) /\ setDevAttached(out, FALSE).mbx = out.mbx
  <2>1. \A a \in BOOLEAN : setDevAttached(out, a) \in RelaySet(sent, top) /\ setDevAttached(out, a).mbx = out.mbx
    BY <1>5, AttachedPublished DEF Published
  <2>2. FALSE \in BOOLEAN
    OBVIOUS
  <2> QED
    BY <2>1, <2>2, Zenon
<1> QED
  BY <1>4, <1>5, <1>6

LEMMA DeviceDetachStep == ASSUME Inv, NEW c \in Conn, DeviceDetach(c) PROVE Step
<1>1. relay \in RelaySet(host.sent, hist.d2hTop) /\ host.sent \in Nat /\ hist.d2hTop \in Nat
  BY DEF Inv, TypeOK, HostSet, HistSet
<1>2. relay' \in RelaySet(host.sent, hist.d2hTop) /\ relay'.mbx = relay.mbx
  BY <1>1, Detached DEF DeviceDetach
<1> QED
  BY <1>2, RelayOnly DEF DeviceDetach, Inv, MarksInv

LEMMA MailboxExpireStep == ASSUME Inv, MailboxExpire PROVE Step
<1> DEFINE N == Numbered(host.sent)
           b == relay.mbx
<1>1. relay \in RelaySet(host.sent, hist.d2hTop) /\ b \in Seq(N) /\ b # <<>> /\ Ascending(b)
  BY DEF Inv, TypeOK, RelaySet, MailboxExpire, MarksInv
<1>2. relay' = [relay EXCEPT !.mbx = Tail(b)] /\ UNCHANGED <<host, dev, hist>>
  BY DEF MailboxExpire
<1> HIDE DEF N, b
<1>3. Tail(b) \in Seq(N) /\ Len(Tail(b)) = Len(b) - 1 /\ \A i \in 1..Len(Tail(b)) : Tail(b)[i] = b[i + 1]
  BY <1>1
<1>4. Ascending(Tail(b))
  BY <1>1, <1>3 DEF Ascending
<1> DEFINE t == Tail(b)
<1> HIDE DEF t
<1>5. t \in Seq(N) /\ Ascending(t) /\ relay' = [relay EXCEPT !.mbx = t]
  BY <1>2, <1>3, <1>4 DEF t
<1>6. relay' \in RelaySet(host.sent, hist.d2hTop) /\ relay'.mbx = t
  BY <1>1, <1>5 DEF RelaySet, N
<1> QED
  BY <1>2, <1>5, <1>6, RelayOnly

-----------------------------------------------------------------------------
(* Steps of the host *)

\* Sends of the host, and nothing accepted.
LEMMA HostServes ==
  ASSUME Inv, NEW t, Served([h |-> host, r |-> relay], t, hist.d2hTop),
         host' = t.h, relay' = t.r, UNCHANGED <<dev, hist>>
  PROVE  Step
<1> DEFINE s == [h |-> host, r |-> relay]
<1>1. s.h = host /\ s.r = relay /\ Served(s, t, hist.d2hTop)
  OBVIOUS
<1> HIDE DEF s
<1>2. /\ host' \in HostSet /\ relay' \in RelaySet(host'.sent, hist.d2hTop) /\ Ascending(relay'.mbx)
      /\ host'.sent >= host.sent /\ host'.d2h = host.d2h
  BY <1>1 DEF Served, PairOK
<1>3. host.sent \in Nat /\ host'.sent \in Nat /\ hist.got \in Nat
  BY <1>2 DEF Inv, TypeOK, HostSet, HistSet
<1>4. TypeOK' /\ CountersInv' /\ SkipInv'
  BY <1>2 DEF Inv, TypeOK, CountersInv, SkipInv
<1>5. MarksInv'
  BY <1>2, <1>3 DEF Inv, MarksInv
<1>6. H2DStep
  BY <1>2, <1>3, H2DSent
<1>7. D2HStep
  BY D2HQuiet
<1> QED
  BY <1>4, <1>5, <1>6, <1>7 DEF Step, Inv

LEMMA EmitStep == ASSUME Inv, EmitEvent \/ EmitEventClassL PROVE Step
<1> DEFINE s == [h |-> host, r |-> relay]
           top == hist.d2hTop
<1>1. top \in Nat /\ PairOK(s, top)
  BY DEF Inv, TypeOK, HistSet, MarksInv, PairOK
<1>2. Served(s, sendEnvelope(s, "event"), top) /\ Served(s, sendEncryptedOn(s, "event"), top)
  <2> HIDE DEF s, top
  <2> QED
    BY <1>1, SendsServed DEF Kind
<1>3. CASE EmitEvent
  BY <1>2, <1>3, HostServes DEF EmitEvent
<1>4. CASE EmitEventClassL
  BY <1>2, <1>4, HostServes DEF EmitEventClassL
<1> QED
  BY <1>3, <1>4

LEMMA HostReadStep == ASSUME Inv, HostRead PROVE Step
<1> DEFINE m == Head(relay.toHost)
           q == Tail(relay.toHost)
           top == hist.d2hTop
           p == [relay EXCEPT !.toHost = q]
           s == [h |-> host, r |-> p]
           t == IF m.kind = "presence" THEN handleControl(s, m) ELSE handleSessionFrame(s, m)
           took == m.kind # "presence" /\ m.seq > 0 /\ host.sess.pull # NoKeys
                   /\ AcceptOK(host.d2h, m.seq) /\ Opens(host.sess, m)
<1>1. /\ relay.toHost # <<>> /\ UNCHANGED dev /\ host' = t.h /\ relay' = t.r
      /\ hist' = IF took THEN [hist EXCEPT !.d2hTaken = @ + 1, !.d2hGot = m.seq] ELSE hist
  BY DEF HostRead
<1>2. /\ relay \in RelaySet(host.sent, top) /\ host \in HostSet /\ hist \in HistSet /\ dev \in DevSet /\ top \in Nat
      /\ host.sent \in Nat /\ hist.got \in Nat /\ hist.d2hGot \in Nat /\ host.d2h.last \in Nat
  BY DEF Inv, TypeOK, HistSet, HostSet, TrackerSet
<1>3. m \in Numbered(top) \cup PresenceSet /\ q \in Seq(Numbered(top) \cup PresenceSet)
  <2>1. relay.toHost \in Seq(Numbered(top) \cup PresenceSet)
    BY <1>2 DEF RelaySet
  <2> QED
    BY <1>1, <2>1, SeqTail
<1> HIDE DEF m, q, top
<1>4. p \in RelaySet(host.sent, top) /\ p.mbx = relay.mbx
  BY <1>2, <1>3 DEF RelaySet
<1> HIDE DEF p
<1>5. PairOK(s, top) /\ s.h = host /\ s.r = p
  BY <1>2, <1>4 DEF PairOK, Inv, MarksInv
<1> HIDE DEF s
<1>6. CASE m.kind = "presence"
  <2> DEFINE h == [host EXCEPT !.attached = m.attached]
  <2>1. m.attached \in BOOLEAN
    BY <1>3, <1>6 DEF PresenceSet, Numbered, FrameSet, Kind
  <2>2. t.h = h /\ t.r = p
    BY <1>5, <1>6 DEF handleControl, PairOK
  <2>3. h \in HostSet /\ h.sent = host.sent /\ h.d2h = host.d2h
    BY <1>2, <2>1 DEF HostSet
  <2>4. hist' = hist /\ host' = h /\ relay' = p /\ dev' = dev
    BY <1>1, <1>6, <2>2
  <2> HIDE DEF h, t, took
  <2>5. TypeOK' /\ CountersInv' /\ SkipInv' /\ MarksInv'
    BY <1>2, <1>4, <2>3, <2>4 DEF Inv, TypeOK, CountersInv, SkipInv, MarksInv, top
  <2>6. H2DStep /\ D2HStep
    BY <2>3, <2>4, H2DSent, D2HQuiet, <1>2
  <2> QED
    BY <2>5, <2>6 DEF Step, Inv
<1>7. CASE m.kind # "presence"
  <2>1. m \in Numbered(top) /\ m \in FrameSet /\ m.seq \in Nat /\ m.seq <= top
    BY <1>3, <1>7 DEF PresenceSet, Numbered, FrameSet
  <2>2. t = handleSessionFrame(s, m) /\ took = Took(s, m)
    BY <1>5, <1>7 DEF Took
  <2> HIDE DEF t, took
  <2>3. Handled(s, t, m, top)
    BY <1>2, <1>5, <2>1, <2>2, FrameHandled
  <2>4. /\ host' \in HostSet /\ relay' \in RelaySet(host'.sent, top) /\ Ascending(relay'.mbx)
        /\ host'.sent >= host.sent /\ host'.sent \in Nat
        /\ \/ host'.d2h.last = host.d2h.last /\ ~took
           \/ host'.d2h.last = m.seq /\ m.seq > host.d2h.last
    <3>1. PairOK(t, top) /\ t.h.sent >= s.h.sent
          /\ (\/ t.h.d2h.last = s.h.d2h.last /\ ~took
              \/ t.h.d2h.last = m.seq /\ m.seq > s.h.d2h.last)
      BY <2>2, <2>3 DEF Handled
    <3>2. t.h \in HostSet /\ t.r \in RelaySet(t.h.sent, top) /\ Ascending(t.r.mbx) /\ t.h.sent \in Nat
      BY <3>1 DEF PairOK, HostSet
    <3> QED
      BY <1>1, <1>5, <3>1, <3>2
  <2>5. CASE took
    <3>1. hist' = [hist EXCEPT !.d2hTaken = @ + 1, !.d2hGot = m.seq]
      BY <1>1, <2>5
    <3>2. /\ hist' \in HistSet /\ hist'.d2hTaken = hist.d2hTaken + 1 /\ hist'.d2hGot = m.seq
          /\ hist'.d2hTop = hist.d2hTop /\ hist'.d2hCount = hist.d2hCount
          /\ hist'.taken = hist.taken /\ hist'.got = hist.got
          /\ hist'.base = hist.base /\ hist'.accepted = hist.accepted /\ hist'.unsaved = hist.unsaved
      <4>1. hist.d2hTaken + 1 \in Nat
        BY <1>2 DEF HistSet
      <4>2. hist' \in HistSet
        BY <1>2, <2>1, <3>1, <4>1 DEF HistSet
      <4> QED
        BY <1>2, <3>1, <4>2 DEF HistSet
    <3>3. TypeOK' /\ SkipInv'
      BY <1>1, <1>2, <2>4, <3>2 DEF Inv, TypeOK, SkipInv, top
    <3>4. host'.d2h.last = m.seq /\ m.seq > host.d2h.last
      BY <2>4, <2>5
    <3>5. CountersInv'
      BY <1>1, <1>2, <2>1, <3>2, <3>4 DEF Inv, CountersInv
    <3>6. MarksInv'
      BY <1>1, <1>2, <2>4, <3>2 DEF Inv, MarksInv
    <3>7. H2DStep
      BY <1>1, <1>2, <2>4, <3>2, H2DSent
    <3>8. D2HStep
      <4>1. m.seq > hist.d2hGot
        BY <1>2, <2>1, <3>4 DEF Inv, CountersInv
      <4> QED
        BY <1>2, <2>1, <3>2, <4>1, D2HTook DEF top
    <3> QED
      BY <3>3, <3>5, <3>6, <3>7, <3>8 DEF Step, Inv
  <2>6. CASE ~took
    <3>1. hist' = hist
      BY <1>1, <2>6
    <3>2. TypeOK' /\ SkipInv'
      BY <1>1, <1>2, <2>4, <3>1 DEF Inv, TypeOK, SkipInv, top
    <3>3. CountersInv'
      <4>1. host'.d2h.last \in Nat /\ host'.d2h.last >= host.d2h.last
        BY <1>2, <2>1, <2>4
      <4>2. hist.d2hGot <= host'.d2h.last
        BY <1>2, <4>1 DEF Inv, CountersInv
      <4> QED
        BY <1>1, <3>1, <4>2 DEF Inv, CountersInv
    <3>4. MarksInv'
      BY <1>1, <1>2, <2>4, <3>1 DEF Inv, MarksInv
    <3>5. H2DStep /\ D2HStep
      BY <1>1, <1>2, <2>4, <3>1, H2DSent, D2HQuiet
    <3> QED
      BY <3>2, <3>3, <3>4, <3>5 DEF Step, Inv
  <2> QED
    BY <2>5, <2>6
<1> QED
  BY <1>6, <1>7

-----------------------------------------------------------------------------
(* Steps of the device *)

\* The device reads, writes and goes away without touching mailbox, presence or the
\* queue to the host.
DeviceKept(r, q) ==
  q.conns = r.conns /\ q.attached = r.attached /\ q.lostText = r.lostText /\ q.toHost = r.toHost /\ q.mbx = r.mbx

LEMMA WriteOK ==
  ASSUME NEW sent \in Nat, NEW top \in Nat, NEW r \in RelaySet(sent, top), NEW c \in Conn,
         NEW frames \in Seq(Numbered(top))
  PROVE  write(r, c, frames) \in RelaySet(sent, top) /\ DeviceKept(r, write(r, c, frames))
<1>1. CASE c \in r.conns
  <2> DEFINE j == r.fromDev[c] \o frames
             fd == [r.fromDev EXCEPT ![c] = j]
  <2>1. j \in Seq(Numbered(top))
    <3>1. r.fromDev[c] \in Seq(Numbered(top))
      BY DEF RelaySet
    <3> QED
      BY <3>1, SeqJoin
  <2>2. write(r, c, frames) = [r EXCEPT !.fromDev = fd]
    BY <1>1 DEF write
  <2> HIDE DEF j
  <2>3. fd \in [Conn -> Seq(Numbered(top))]
    BY <2>1 DEF RelaySet
  <2> HIDE DEF fd
  <2> QED
    BY <2>2, <2>3 DEF RelaySet, DeviceKept
<1>2. CASE c \notin r.conns
  BY <1>2 DEF write, DeviceKept
<1> QED
  BY <1>1, <1>2

LEMMA UnreadOK ==
  ASSUME NEW sent \in Nat, NEW top \in Nat, NEW r \in RelaySet(sent, top)
  PROVE  unread(r) \in RelaySet(sent, top) /\ DeviceKept(r, unread(r))
<1>1. <<>> \in Seq(Numbered(sent))
  OBVIOUS
<1> QED
  BY <1>1 DEF unread, RelaySet, DeviceKept

LEMMA ReadOK ==
  ASSUME NEW sent \in Nat, NEW top \in Nat, NEW r \in RelaySet(sent, top), r.toDev # <<>>, NEW q,
         q = [r EXCEPT !.toDev = Tail(@)]
  PROVE  /\ q \in RelaySet(sent, top) /\ DeviceKept(r, q)
         /\ Head(r.toDev) \in Numbered(sent)
<1> DEFINE t == Tail(r.toDev)
<1>1. r.toDev \in Seq(Numbered(sent))
  BY DEF RelaySet
<1>2. t \in Seq(Numbered(sent)) /\ Head(r.toDev) \in Numbered(sent)
  BY <1>1, SeqTail
<1> HIDE DEF t
<1>3. q = [r EXCEPT !.toDev = t]
  BY DEF t
<1> QED
  BY <1>2, <1>3 DEF RelaySet, DeviceKept

\* Nothing was sent or accepted.
HistKept ==
  /\ hist' \in HistSet
  /\ hist'.taken = hist.taken /\ hist'.got = hist.got /\ hist'.base = hist.base
  /\ hist'.accepted = hist.accepted /\ hist'.d2hCount = hist.d2hCount /\ hist'.d2hTop = hist.d2hTop
  /\ hist'.d2hTaken = hist.d2hTaken /\ hist'.d2hGot = hist.d2hGot

\* The saved mark is left alone, or a save succeeded.
SeenKept ==
  \/ dev'.savedSeen = dev.savedSeen /\ hist'.unsaved = hist.unsaved
  \/ dev'.savedSeen = hist.got /\ hist'.unsaved = FALSE

LEMMA HistSame == ASSUME Inv, UNCHANGED hist PROVE HistKept
BY DEF Inv, TypeOK, HistKept

LEMMA H2DKept ==
  ASSUME UNCHANGED host, hist'.taken = hist.taken, hist'.got = hist.got, SeenKept
  PROVE  H2DStep
<1>1. CASE dev'.savedSeen = dev.savedSeen /\ hist'.unsaved = hist.unsaved
  BY <1>1 DEF H2DStep
<1>2. CASE dev'.savedSeen = hist.got /\ hist'.unsaved = FALSE
  BY <1>2 DEF H2DStep, H2D!Next, H2D!Keep
<1> QED
  BY <1>1, <1>2 DEF SeenKept

\* Steps that neither send nor accept.
LEMMA DeviceOnly ==
  ASSUME Inv, UNCHANGED host, relay' \in RelaySet(host.sent, hist.d2hTop), relay'.mbx = relay.mbx,
         dev' \in DevSet, dev'.savedSent \in {dev.savedSent, dev.D2HLastSent},
         dev'.savedSent <= dev'.D2HLastSent, dev'.H2DLastSeen = dev.H2DLastSeen,
         HistKept, SeenKept, SkipInv',
         dev'.pc = "idle" \/ (dev'.pc # "drain" /\ dev.pc # "idle" /\ dev'.tracker = dev.tracker)
  PROVE  Step
<1>1. /\ dev.savedSent \in Nat /\ dev.D2HLastSent \in Nat /\ hist.d2hTop \in Nat /\ hist.got \in Nat
  BY DEF Inv, TypeOK, DevSet, HistSet
<1>2. TypeOK'
  BY DEF Inv, TypeOK, HistKept
<1>3. CountersInv'
  BY <1>1 DEF Inv, CountersInv, HistKept
<1>4. MarksInv'
  <2>1. dev'.savedSeen <= hist'.got /\ (hist'.unsaved \/ dev'.savedSeen = hist'.got)
    BY <1>1 DEF Inv, MarksInv, SeenKept, HistKept
  <2> QED
    BY <2>1 DEF Inv, MarksInv, HistKept
<1>5. H2DStep /\ D2HStep
  BY H2DKept, D2HQuiet DEF HistKept
<1> QED
  BY <1>2, <1>3, <1>4, <1>5 DEF Step, Inv

LEMMA ConnectStep == ASSUME Inv, Connect PROVE Step
<1>1. dev \in DevSet /\ hist \in HistSet /\ dev.H2DLastSeen \in Nat
  BY DEF Inv, TypeOK, DevSet
<1> DEFINE t == [last |-> dev.H2DLastSeen, inSession |-> FALSE]
<1>2. t \in TrackerSet /\ NoKeys \in KeySet
  BY <1>1 DEF TrackerSet, NoKeys, KeySet
<1>3. t.last = dev.H2DLastSeen /\ ~t.inSession
  OBVIOUS
<1>4. /\ dev' = [dev EXCEPT !.pc = "drain", !.conn = dev.conn + 1, !.keys = NoKeys, !.reconcile = FALSE,
                            !.tracker = t, !.after = dev.H2DLastSeen]
      /\ hist' = [hist EXCEPT !.base = dev.H2DLastSeen, !.accepted = 0]
      /\ UNCHANGED <<host, relay>>
  BY <1>1 DEF Connect, NewSeqTracker, DevSet
<1>5. dev.conn + 1 \in Conn /\ dev.conn + 1 \in 0..MaxConnect
  BY <1>1, DeliveryAssumption DEF Connect, DevSet, Conn
<1> HIDE DEF t
<1>6. dev' \in DevSet
  BY <1>1, <1>2, <1>4, <1>5 DEF DevSet
<1>7. /\ dev'.pc = "drain" /\ dev'.tracker = t /\ dev'.after = dev.H2DLastSeen /\ dev'.H2DLastSeen = dev.H2DLastSeen
      /\ dev'.savedSent = dev.savedSent /\ dev'.D2HLastSent = dev.D2HLastSent
      /\ dev'.savedSeen = dev.savedSeen
  BY <1>1, <1>4 DEF DevSet
<1>8. hist' \in HistSet /\ hist'.base = dev.H2DLastSeen /\ hist'.accepted = 0
  BY <1>1, <1>4 DEF HistSet
<1>9. /\ hist'.taken = hist.taken /\ hist'.got = hist.got /\ hist'.d2hCount = hist.d2hCount
      /\ hist'.d2hTop = hist.d2hTop /\ hist'.d2hTaken = hist.d2hTaken /\ hist'.d2hGot = hist.d2hGot
      /\ hist'.unsaved = hist.unsaved
  BY <1>1, <1>4 DEF HistSet
<1>10. TypeOK' /\ CountersInv'
  BY <1>4, <1>6, <1>7, <1>8, <1>9 DEF Inv, TypeOK, CountersInv
<1>11. MarksInv' /\ SkipInv'
  BY <1>1, <1>3, <1>4, <1>7, <1>8, <1>9 DEF Inv, MarksInv, SkipInv
<1>12. H2DStep /\ D2HStep
  BY <1>4, <1>7, <1>9 DEF H2DStep, D2HStep
<1> QED
  BY <1>10, <1>11, <1>12 DEF Step, Inv

LEMMA DrainPageStep == ASSUME Inv, DrainPage PROVE Step
<1> DEFINE sent == host.sent
           page == mailboxGet(relay, dev.after)
           a == Drained(dev.tracker, page.frames)
           d == [dev EXCEPT !.tracker = a.tracker, !.after = page.next,
                            !.reconcile = dev.reconcile \/ a.gap \/ a.abandoned]
           pc == IF page.truncated /\ ~a.abandoned THEN "drain" ELSE "attach"
<1>1. /\ dev \in DevSet /\ hist \in HistSet /\ sent \in Nat /\ relay \in RelaySet(sent, hist.d2hTop)
      /\ dev.pc = "drain" /\ UNCHANGED <<host, relay>>
  BY DEF Inv, TypeOK, HostSet, DrainPage
<1>2. /\ dev.tracker \in TrackerSet /\ dev.tracker.last \in Nat /\ dev.after = dev.tracker.last
      /\ dev.H2DLastSeen = dev.tracker.last /\ hist.got = dev.tracker.last /\ dev.tracker.last <= sent
      /\ Ascending(relay.mbx) /\ ~dev.tracker.inSession
  <2>1. dev.tracker \in TrackerSet /\ dev.tracker.last \in Nat
    BY <1>1 DEF DevSet, TrackerSet
  <2>2. /\ dev.after = dev.tracker.last /\ dev.H2DLastSeen = dev.tracker.last
        /\ hist.got = dev.tracker.last /\ dev.tracker.last <= sent /\ Ascending(relay.mbx)
    <3> HIDE DEF page, a, d, pc
    <3> QED
      BY <1>1 DEF Inv, MarksInv
  <2>3. ~dev.tracker.inSession
    BY <1>1 DEF Inv, SkipInv
  <2> QED
    BY <2>1, <2>2, <2>3
<1>3. PICK ok \in BOOLEAN :
        /\ dev' = IF a.failed THEN Drop(d) ELSE [saveDrainMark(d, a.tracker.last, ok) EXCEPT !.pc = pc]
        /\ hist' = [hist EXCEPT !.taken = @ + a.n, !.accepted = @ + a.n,
                                !.got = IF a.n > 0 THEN a.tracker.last ELSE @,
                                !.unsaved = IF a.n > 0 THEN ~ok ELSE @,
                                !.owed = @ \/ a.gap]
  BY Zenon DEF DrainPage
<1> DEFINE frames == Page(relay.mbx, dev.after)
<1>4. page.frames = frames /\ page.next = IF frames = <<>> THEN dev.after ELSE frames[Len(frames)].seq
  BY DEF mailboxGet, get
<1>5. /\ frames \in Seq(Numbered(sent)) /\ Ascending(frames)
      /\ \A k \in 1..Len(frames) : frames[k].seq > dev.tracker.last
  <2>1. relay.mbx \in Seq(Numbered(sent)) /\ dev.after \in Nat
    BY <1>1, <1>2 DEF RelaySet
  <2> QED
    BY <1>1, <1>2, <2>1, PageFacts
<1> HIDE DEF frames, page
<1>6. /\ a \in DrainSet /\ ~a.failed /\ a.tracker.inSession = dev.tracker.inSession
      /\ a.tracker.last <= sent /\ a.tracker.last >= dev.tracker.last + a.n
      /\ a.n = 0 => a.tracker.last = dev.tracker.last
      /\ ~a.gap => a.tracker.last = dev.tracker.last + a.n
      /\ ~a.abandoned => a.tracker.last = page.next
  BY <1>1, <1>2, <1>4, <1>5, DrainFacts
<1>7. page.next \in Nat
  <2>1. CASE frames = <<>>
    BY <1>2, <1>4, <2>1
  <2>2. CASE frames # <<>>
    <3>1. Len(frames) \in 1..Len(frames) /\ frames[Len(frames)] \in Numbered(sent)
      BY <1>5, <2>2
    <3> QED
      BY <1>4, <2>2, <3>1 DEF Numbered, FrameSet
  <2> QED
    BY <2>1, <2>2
<1> HIDE DEF a, pc
<1>8. /\ a.tracker \in TrackerSet /\ a.tracker.last \in Nat /\ a.n \in Nat /\ a.gap \in BOOLEAN /\ a.abandoned \in BOOLEAN
      /\ pc \in {"drain", "attach"} /\ (pc = "drain" => ~a.abandoned)
  BY <1>6 DEF DrainSet, TrackerSet, pc
<1>9. /\ d \in DevSet /\ d.tracker = a.tracker /\ d.after = page.next /\ d.conn \in Conn
      /\ d.H2DLastSeen = dev.H2DLastSeen /\ d.savedSent = dev.savedSent /\ d.D2HLastSent = dev.D2HLastSent
      /\ d.reconcile = (dev.reconcile \/ a.gap \/ a.abandoned) /\ d.pc = "drain" /\ d.savedSeen = dev.savedSeen
  <2> DEFINE rc == dev.reconcile \/ a.gap \/ a.abandoned
  <2>1. rc \in BOOLEAN /\ d = [dev EXCEPT !.tracker = a.tracker, !.after = page.next, !.reconcile = rc]
    OBVIOUS
  <2> HIDE DEF rc, d
  <2>2. d \in DevSet
    BY <1>1, <1>7, <1>8, <2>1 DEF DevSet
  <2>3. d.reconcile = rc
    BY <1>1, <2>1 DEF DevSet
  <2> QED
    BY <1>1, <2>1, <2>2, <2>3 DEF DevSet, rc
<1> HIDE DEF d
\* The mark follows the tracker: when it moved, it is saved or the save fails.
<1>10. /\ dev' \in DevSet /\ dev'.tracker = a.tracker /\ dev'.after = page.next /\ dev'.pc = pc
       /\ dev'.H2DLastSeen = a.tracker.last /\ dev'.D2HLastSent = dev.D2HLastSent
       /\ dev'.savedSent \in {dev.savedSent, dev.D2HLastSent} /\ dev'.reconcile = d.reconcile
       /\ dev'.savedSeen = IF a.n > 0 /\ ok THEN a.tracker.last ELSE dev.savedSeen
  <2>0. a.n > 0 <=> a.tracker.last > d.H2DLastSeen
    BY <1>2, <1>6, <1>8, <1>9
  <2>1. CASE a.tracker.last > d.H2DLastSeen
    <3> DEFINE v == IF ok THEN d.D2HLastSent ELSE d.savedSent
               w == IF ok THEN a.tracker.last ELSE d.savedSeen
    <3>1. dev' = [d EXCEPT !.H2DLastSeen = a.tracker.last, !.savedSent = v, !.savedSeen = w, !.pc = pc]
      <4> DEFINE x == [d EXCEPT !.H2DLastSeen = a.tracker.last]
      <4>1. x.D2HLastSent = d.D2HLastSent /\ x.H2DLastSeen = a.tracker.last
        BY <1>9 DEF DevSet
      <4>2. dev' = [Save(x, ok) EXCEPT !.pc = pc]
        BY <1>3, <1>6, <2>1 DEF saveDrainMark
      <4>3. CASE ok
        BY <4>1, <4>2, <4>3 DEF Save
      <4>4. CASE ~ok
        BY <1>9, <4>2, <4>4 DEF Save, DevSet
      <4> QED
        BY <4>3, <4>4
    <3>2. v \in Nat /\ w \in Nat /\ v \in {dev.savedSent, dev.D2HLastSent}
      BY <1>8, <1>9 DEF DevSet
    <3>3. w = IF a.n > 0 /\ ok THEN a.tracker.last ELSE dev.savedSeen
      BY <1>9, <2>0, <2>1
    <3> HIDE DEF v, w
    <3>4. dev' \in DevSet
      BY <1>8, <1>9, <3>1, <3>2 DEF DevSet
    <3>5. /\ dev'.tracker = d.tracker /\ dev'.after = d.after /\ dev'.pc = pc
          /\ dev'.H2DLastSeen = a.tracker.last /\ dev'.D2HLastSent = d.D2HLastSent
          /\ dev'.savedSent = v /\ dev'.savedSeen = w /\ dev'.reconcile = d.reconcile
      BY <1>9, <3>1 DEF DevSet
    <3> QED
      BY <1>9, <3>2, <3>3, <3>4, <3>5
  <2>2. CASE ~(a.tracker.last > d.H2DLastSeen)
    <3>1. dev' = [d EXCEPT !.pc = pc]
      BY <1>3, <1>6, <2>2 DEF saveDrainMark
    <3>2. a.tracker.last = d.H2DLastSeen
      BY <1>2, <1>6, <1>8, <1>9, <2>2
    <3>3. dev' \in DevSet
      BY <1>8, <1>9, <3>1 DEF DevSet
    <3> QED
      BY <1>9, <2>0, <2>2, <3>1, <3>2, <3>3 DEF DevSet
  <2> QED
    BY <2>1, <2>2
<1>11. /\ hist' \in HistSet /\ hist'.taken = hist.taken + a.n /\ hist'.accepted = hist.accepted + a.n
       /\ hist'.got = a.tracker.last /\ hist'.base = hist.base /\ hist'.d2hCount = hist.d2hCount
       /\ hist'.d2hTop = hist.d2hTop /\ hist'.d2hTaken = hist.d2hTaken /\ hist'.d2hGot = hist.d2hGot
       /\ hist'.unsaved = IF a.n > 0 THEN ~ok ELSE hist.unsaved
  <2> DEFINE u == IF a.n > 0 THEN ~ok ELSE hist.unsaved
             g == IF a.n > 0 THEN a.tracker.last ELSE hist.got
             o == hist.owed \/ a.gap
             k == hist.taken + a.n
             c == hist.accepted + a.n
  <2>1. hist' = [hist EXCEPT !.taken = k, !.accepted = c, !.got = g, !.unsaved = u, !.owed = o]
    BY <1>1, <1>3 DEF HistSet
  <2>2. g = a.tracker.last /\ o \in BOOLEAN /\ k \in Nat /\ c \in Nat /\ u \in BOOLEAN
    <3>1. g = a.tracker.last
      BY <1>2, <1>6, <1>8
    <3>2. k \in Nat /\ c \in Nat
      BY <1>1, <1>8 DEF HistSet
    <3>3. u \in BOOLEAN
      BY <1>1 DEF HistSet
    <3> QED
      BY <3>1, <3>2, <3>3
  <2> HIDE DEF g, o, k, c, u
  <2>3. hist' \in HistSet
    BY <1>1, <1>8, <2>1, <2>2 DEF HistSet
  <2>4. hist'.taken = k /\ hist'.accepted = c /\ hist'.got = g /\ hist'.unsaved = u
    BY <1>1, <2>1 DEF HistSet
  <2> QED
    BY <1>1, <2>1, <2>2, <2>3, <2>4 DEF HistSet, k, c, u
<1>12. TypeOK'
  BY <1>1, <1>10, <1>11 DEF Inv, TypeOK
<1>13. CountersInv'
  <2>1. dev.savedSent \in Nat /\ dev.D2HLastSent \in Nat /\ hist.d2hTop \in Nat
    BY <1>1 DEF DevSet, HistSet
  <2> QED
    BY <1>1, <1>10, <1>11, <2>1 DEF Inv, CountersInv
<1>14. MarksInv'
  <2>1. dev.savedSeen \in Nat /\ dev.savedSeen <= hist.got /\ (hist.unsaved \/ dev.savedSeen = hist.got)
    BY <1>1 DEF Inv, MarksInv, DevSet
  <2>2. dev'.savedSeen <= hist'.got /\ (hist'.unsaved \/ dev'.savedSeen = hist'.got)
    <3>1. CASE a.n = 0
      BY <1>2, <1>6, <1>10, <1>11, <2>1, <3>1
    <3>2. CASE a.n > 0
      <4>1. CASE ok
        <5>1. dev'.savedSeen = a.tracker.last /\ hist'.got = a.tracker.last
          BY <1>10, <1>11, <3>2, <4>1
        <5> QED
          BY <1>8, <5>1
      <4>2. CASE ~ok
        <5>1. dev'.savedSeen = dev.savedSeen /\ hist'.got = a.tracker.last /\ hist'.unsaved
          BY <1>10, <1>11, <3>2, <4>2
        <5> QED
          BY <1>2, <1>6, <1>8, <2>1, <5>1
      <4> QED
        BY <4>1, <4>2
    <3> QED
      BY <1>8, <3>1, <3>2
  <2> QED
    BY <1>1, <1>2, <1>6, <1>8, <1>10, <1>11, <2>2 DEF MarksInv
<1>15. SkipInv'
  <2>1. dev'.pc # "up" /\ ~dev'.tracker.inSession
    BY <1>2, <1>6, <1>8, <1>10
  <2>2. dev'.reconcile \/ dev'.tracker.last - hist'.base = hist'.accepted
    <3> SUFFICES ASSUME ~dev'.reconcile PROVE dev'.tracker.last - hist'.base = hist'.accepted
      OBVIOUS
    <3>1. ~dev.reconcile /\ ~a.gap
      BY <1>9, <1>10
    <3>2. dev.tracker.last - hist.base = hist.accepted
      BY <1>1, <3>1 DEF Inv, SkipInv
    <3>3. a.tracker.last = dev.tracker.last + a.n
      BY <1>6, <3>1
    <3>4. hist.base \in Nat /\ hist.accepted \in Nat
      BY <1>1 DEF HistSet
    <3> QED
      BY <1>2, <1>8, <1>10, <1>11, <3>2, <3>3, <3>4
  <2> QED
    BY <2>1, <2>2 DEF SkipInv
<1>16. H2DStep
  <2>1. CASE a.n = 0
    <3>1. /\ hist'.taken = hist.taken /\ hist'.got = hist.got
          /\ dev'.savedSeen = dev.savedSeen /\ hist'.unsaved = hist.unsaved
      BY <1>1, <1>2, <1>6, <1>10, <1>11, <2>1 DEF HistSet
    <3> QED
      BY <1>1, <3>1 DEF H2DStep
  <2>2. CASE a.n # 0
    <3>1. a.n \in Nat \ {0} /\ hist.got \in Nat /\ a.tracker.last >= hist.got + a.n
      BY <1>2, <1>6, <1>8, <2>2
    <3>2. dev'.savedSeen = IF hist'.unsaved THEN dev.savedSeen ELSE a.tracker.last
      <4>0. a.n > 0
        BY <3>1
      <4>1. CASE ok
        <5>1. dev'.savedSeen = a.tracker.last /\ ~hist'.unsaved
          BY <1>10, <1>11, <4>0, <4>1
        <5> QED
          BY <5>1
      <4>2. CASE ~ok
        <5>1. dev'.savedSeen = dev.savedSeen /\ hist'.unsaved
          BY <1>10, <1>11, <4>0, <4>2
        <5> QED
          BY <5>1
      <4> QED
        BY <4>1, <4>2
    <3> QED
      BY <1>1, <1>6, <1>8, <1>11, <3>1, <3>2, H2DTook
  <2> QED
    BY <2>1, <2>2
<1>17. D2HStep
  BY <1>11, D2HQuiet
<1> QED
  BY <1>12, <1>13, <1>14, <1>15, <1>16, <1>17 DEF Step, Inv

LEMMA Inserted ==
  ASSUME NEW sent \in Nat, NEW top \in Nat, NEW r \in RelaySet(sent, top), NEW c \in Conn
  PROVE  insertDevConn(r, c) \in RelaySet(sent, top) /\ insertDevConn(r, c).mbx = r.mbx
<1> DEFINE cs == r.conns \cup {c}
           in == [r EXCEPT !.conns = cs, !.reader = c, !.toDev = <<>>]
<1>1. <<>> \in Seq(Numbered(sent)) /\ c \in Nat
  BY DEF Conn
<1>2. cs \subseteq Conn
  BY DEF RelaySet
<1>3. insertDevConn(r, c) = IF in.conns = {c} THEN setDevAttached(in, TRUE) ELSE in
  BY DEF insertDevConn
<1> HIDE DEF cs
<1>4. in \in RelaySet(sent, top) /\ in.mbx = r.mbx
  BY <1>1, <1>2 DEF RelaySet
<1> HIDE DEF in
<1>5. setDevAttached(in, TRUE) \in RelaySet(sent, top) /\ setDevAttached(in, TRUE).mbx = in.mbx
  <2>1. \A a \in BOOLEAN : setDevAttached(in, a) \in RelaySet(sent, top) /\ setDevAttached(in, a).mbx = in.mbx
    BY <1>4, AttachedPublished DEF Published
  <2>2. TRUE \in BOOLEAN
    OBVIOUS
  <2> QED
    BY <2>1, <2>2, Zenon
<1> QED
  BY <1>3, <1>4, <1>5

LEMMA AttachStep == ASSUME Inv, Attach PROVE Step
<1> DEFINE top == hist.d2hTop
           f == Frame("sess.hello", 0, "P", <<dev.conn, 0>>)
           in == insertDevConn(relay, dev.conn)
<1>1. /\ dev \in DevSet /\ hist.d2hTop \in Nat /\ host.sent \in Nat /\ relay \in RelaySet(host.sent, top)
      /\ dev.conn \in Conn /\ dev.pc = "attach"
  BY DEF Inv, TypeOK, HostSet, HistSet, DevSet, Attach
<1>2. /\ relay' = write(in, dev.conn, <<f>>) /\ dev' = [dev EXCEPT !.pc = "hello"] /\ UNCHANGED <<host, hist>>
  BY DEF Attach
<1>3. f \in Numbered(top)
  <2>1. <<dev.conn, 0>> \in KeySet
    BY <1>1 DEF Conn, KeySet
  <2> QED
    BY <1>1, <2>1 DEF Frame, Numbered, FrameSet, Kind
<1> HIDE DEF f
<1>4. <<f>> \in Seq(Numbered(top))
  BY <1>3
<1>5. in \in RelaySet(host.sent, top) /\ in.mbx = relay.mbx
  BY <1>1, Inserted
<1> HIDE DEF in
<1>6. relay' \in RelaySet(host.sent, top) /\ relay'.mbx = relay.mbx
  BY <1>1, <1>2, <1>4, <1>5, WriteOK DEF DeviceKept
<1>7. /\ dev' \in DevSet /\ dev'.tracker = dev.tracker /\ dev'.pc = "hello" /\ dev'.H2DLastSeen = dev.H2DLastSeen
      /\ dev'.savedSent = dev.savedSent /\ dev'.D2HLastSent = dev.D2HLastSent /\ dev'.reconcile = dev.reconcile
      /\ dev'.savedSeen = dev.savedSeen
  BY <1>1, <1>2 DEF DevSet
<1>8. SkipInv'
  BY <1>1, <1>2, <1>7 DEF Inv, SkipInv
<1>9. HistKept /\ SeenKept
  BY <1>2, <1>7, HistSame DEF SeenKept
<1>10. dev'.savedSent \in {dev.savedSent, dev.D2HLastSent} /\ dev'.savedSent <= dev'.D2HLastSent
  BY <1>7 DEF Inv, CountersInv
<1> QED
  BY <1>1, <1>2, <1>6, <1>7, <1>8, <1>9, <1>10, DeviceOnly

\* The attempt or the session is over, whatever was counted or saved on the way.
LEMMA DropStep ==
  ASSUME Inv, UNCHANGED host, HistKept, relay' \in RelaySet(host.sent, hist.d2hTop), relay'.mbx = relay.mbx,
         NEW n \in Nat, NEW v \in {dev.savedSent, dev.D2HLastSent}, v <= n,
         NEW w \in Nat,
         (w = dev.savedSeen /\ hist'.unsaved = hist.unsaved) \/ (w = hist.got /\ hist'.unsaved = FALSE),
         dev' = [dev EXCEPT !.pc = "idle", !.D2HLastSent = n, !.savedSent = v, !.savedSeen = w]
  PROVE  Step
<1>1. dev \in DevSet /\ v \in Nat
  BY DEF Inv, TypeOK, DevSet
<1>2. /\ dev' \in DevSet /\ dev'.pc = "idle" /\ dev'.H2DLastSeen = dev.H2DLastSeen /\ dev'.savedSent = v
      /\ dev'.D2HLastSent = n /\ dev'.savedSeen = w
  BY <1>1 DEF DevSet
<1>3. SkipInv'
  BY <1>2 DEF SkipInv
<1>4. SeenKept
  BY <1>2 DEF SeenKept
<1> QED
  BY <1>2, <1>3, <1>4, DeviceOnly

\* A frame that cannot be used, an error or a timeout ends the attempt; n is the counter.
LEMMA GiveUpStep ==
  ASSUME Inv, UNCHANGED <<host, hist>>, relay' \in RelaySet(host.sent, hist.d2hTop), relay'.mbx = relay.mbx,
         NEW n \in Nat, n >= dev.D2HLastSent, dev' = [dev EXCEPT !.pc = "idle", !.D2HLastSent = n]
  PROVE  Step
<1>1. /\ dev \in DevSet /\ dev.savedSent \in Nat /\ dev.savedSeen \in Nat /\ dev.D2HLastSent \in Nat
      /\ dev.savedSent <= dev.D2HLastSent
  BY DEF Inv, TypeOK, DevSet, CountersInv
<1>2. dev' = [dev EXCEPT !.pc = "idle", !.D2HLastSent = n, !.savedSent = dev.savedSent,
                         !.savedSeen = dev.savedSeen]
  BY <1>1 DEF DevSet
<1>3. HistKept /\ hist'.unsaved = hist.unsaved /\ dev.savedSent <= n
      /\ dev.savedSent \in {dev.savedSent, dev.D2HLastSent}
  BY <1>1, HistSame
<1> QED
  BY <1>1, <1>2, <1>3, DropStep

LEMMA CloseStep == ASSUME Inv, UNCHANGED host, NEW ok \in BOOLEAN, Close(ok) PROVE Step
<1>1. /\ dev \in DevSet /\ hist.d2hTop \in Nat /\ host.sent \in Nat /\ relay \in RelaySet(host.sent, hist.d2hTop)
      /\ dev.savedSent \in Nat /\ dev.savedSeen \in Nat /\ dev.D2HLastSent \in Nat /\ dev.H2DLastSeen \in Nat
      /\ dev.savedSent <= dev.D2HLastSent /\ hist \in HistSet /\ hist.got = dev.H2DLastSeen
  BY DEF Inv, TypeOK, HostSet, HistSet, DevSet, CountersInv, MarksInv
<1>2. relay' \in RelaySet(host.sent, hist.d2hTop) /\ relay'.mbx = relay.mbx
  BY <1>1, UnreadOK DEF Close, DeviceKept
<1> DEFINE u == hist.unsaved /\ ~ok
<1>3. hist' = [hist EXCEPT !.unsaved = u] /\ u \in BOOLEAN
  BY <1>1 DEF Close, HistSet
<1> HIDE DEF u
<1>4. HistKept /\ hist'.unsaved = u
  BY <1>1, <1>3 DEF HistSet, HistKept
<1>5. CASE ok
  <2>1. dev' = [dev EXCEPT !.pc = "idle", !.D2HLastSent = dev.D2HLastSent, !.savedSent = dev.D2HLastSent,
                           !.savedSeen = dev.H2DLastSeen]
    BY <1>1, <1>5 DEF Close, Drop, Save, DevSet
  <2>2. dev.D2HLastSent \in {dev.savedSent, dev.D2HLastSent} /\ dev.D2HLastSent <= dev.D2HLastSent
    BY <1>1
  <2>3. dev.H2DLastSeen = hist.got /\ hist'.unsaved = FALSE
    BY <1>1, <1>4, <1>5, Zenon DEF u
  <2> QED
    BY <1>1, <1>2, <1>4, <2>1, <2>2, <2>3, DropStep
<1>6. CASE ~ok
  <2>1. dev' = [dev EXCEPT !.pc = "idle", !.D2HLastSent = dev.D2HLastSent, !.savedSent = dev.savedSent,
                           !.savedSeen = dev.savedSeen]
    BY <1>1, <1>6 DEF Close, Drop, Save, DevSet
  <2>2. hist'.unsaved = hist.unsaved /\ dev.savedSent \in {dev.savedSent, dev.D2HLastSent}
    BY <1>1, <1>4, <1>6 DEF u, HistSet
  <2> QED
    BY <1>1, <1>2, <1>4, <2>1, <2>2, DropStep
<1> QED
  BY <1>5, <1>6

LEMMA EndSessionStep == ASSUME Inv, EndSession PROVE Step
BY CloseStep DEF EndSession

\* The device is back at what it saved: where it was, unless the last save failed.
LEMMA CrashStep == ASSUME Inv, Crash PROVE Step
<1>1. /\ dev \in DevSet /\ hist.d2hTop \in Nat /\ host.sent \in Nat /\ relay \in RelaySet(host.sent, hist.d2hTop)
      /\ dev.savedSent \in Nat /\ dev.savedSeen \in Nat /\ hist \in HistSet /\ hist.got \in Nat
  BY DEF Inv, TypeOK, HostSet, HistSet, DevSet
<1>2. relay' \in RelaySet(host.sent, hist.d2hTop) /\ relay'.mbx = relay.mbx /\ UNCHANGED host
  BY <1>1, UnreadOK DEF Crash, DeviceKept
<1>3. dev' = [dev EXCEPT !.D2HLastSent = dev.savedSent, !.H2DLastSeen = dev.savedSeen, !.pc = "idle"]
  BY <1>1 DEF Crash, Drop, DevSet
<1>4. /\ dev' \in DevSet /\ dev'.pc = "idle" /\ dev'.savedSent = dev.savedSent /\ dev'.savedSeen = dev.savedSeen
      /\ dev'.D2HLastSent = dev.savedSent /\ dev'.H2DLastSeen = dev.savedSeen
  BY <1>1, <1>3 DEF DevSet
<1>5. /\ hist' \in HistSet /\ hist'.got = dev.savedSeen /\ hist'.unsaved = FALSE /\ hist'.taken = hist.taken
      /\ hist'.d2hCount = hist.d2hCount /\ hist'.d2hTop = hist.d2hTop
      /\ hist'.d2hTaken = hist.d2hTaken /\ hist'.d2hGot = hist.d2hGot
  BY <1>1 DEF Crash, HistSet
<1>6. TypeOK'
  BY <1>2, <1>4, <1>5 DEF Inv, TypeOK
<1>7. CountersInv' /\ SkipInv'
  BY <1>1, <1>2, <1>4, <1>5 DEF Inv, CountersInv, SkipInv
<1>8. MarksInv'
  <2>1. dev.savedSeen <= hist.got /\ hist.got <= host.sent /\ Ascending(relay.mbx)
    BY DEF Inv, MarksInv
  <2> QED
    BY <1>1, <1>2, <1>4, <1>5, <2>1 DEF MarksInv
<1>9. H2DStep
  <2>1. CASE hist.unsaved
    BY <1>2, <1>4, <1>5, <2>1 DEF H2DStep, H2D!Next, H2D!Forget
  <2>2. CASE ~hist.unsaved
    <3>1. dev.savedSeen = hist.got /\ hist.unsaved = FALSE
      BY <1>1, <2>2 DEF Inv, MarksInv, HistSet
    <3> QED
      BY <1>2, <1>4, <1>5, <3>1 DEF H2DStep
  <2> QED
    BY <2>1, <2>2
<1>10. D2HStep
  BY <1>5, D2HQuiet
<1> QED
  BY <1>6, <1>7, <1>8, <1>9, <1>10 DEF Step, Inv

\* The counter is saved and then the frame leaves, behind what goes before it.
LEMMA SendStep ==
  ASSUME Inv, UNCHANGED host, dev.pc # "idle",
         NEW pc \in {"confirm", "up"}, pc = "up" <=> dev.pc = "up",
         NEW keys \in KeySet, NEW d, d = [dev EXCEPT !.pc = pc, !.keys = keys],
         NEW r \in RelaySet(host.sent, hist.d2hTop), r.mbx = relay.mbx,
         NEW before \in Seq(Numbered(0)), NEW kind \in Kind \ {"sess.hello", "sess.header"},
         sendEncrypted(d, r, before, kind)
  PROVE  Step
<1> DEFINE seq == dev.D2HLastSent + 1
           top == hist.d2hTop
           f == Frame(kind, seq, "L", keys)
<1>0. dev \in DevSet /\ hist \in HistSet /\ host \in HostSet
  BY DEF Inv, TypeOK
<1>1. /\ dev \in DevSet /\ hist \in HistSet /\ host.sent \in Nat /\ top \in Nat /\ seq \in Nat /\ dev.conn \in Conn
      /\ dev.D2HLastSent \in Nat /\ dev.savedSent \in Nat /\ top < seq /\ hist.d2hCount \in Nat
  <2>1. host.sent \in Nat /\ top \in Nat /\ hist.d2hCount \in Nat
    BY <1>0 DEF HostSet, HistSet
  <2>2. dev.conn \in Conn /\ dev.D2HLastSent \in Nat /\ dev.savedSent \in Nat
    BY <1>0 DEF DevSet
  <2>3. top <= dev.savedSent /\ dev.savedSent <= dev.D2HLastSent
    BY DEF Inv, CountersInv
  <2> QED
    BY <1>0, <2>1, <2>2, <2>3
<1>2. d.D2HLastSent = dev.D2HLastSent /\ d.conn = dev.conn /\ d.keys = keys /\ d.H2DLastSeen = dev.H2DLastSeen
  BY <1>1 DEF DevSet
<1>3. /\ dev' = [dev EXCEPT !.pc = pc, !.keys = keys, !.D2HLastSent = seq, !.savedSent = seq,
                            !.savedSeen = dev.H2DLastSeen]
      /\ relay' = write(r, dev.conn, before \o <<f>>)
      /\ hist' = [hist EXCEPT !.d2hCount = hist.d2hCount + 1, !.d2hTop = Max({top, seq}), !.unsaved = FALSE]
  <2> DEFINE x == [d EXCEPT !.D2HLastSent = seq]
  <2>1. /\ dev' = Save(x, TRUE) /\ relay' = write(r, dev.conn, before \o <<f>>)
        /\ hist' = [hist EXCEPT !.d2hCount = @ + 1, !.d2hTop = Max({@, seq}), !.unsaved = FALSE]
    BY <1>2 DEF sendEncrypted
  <2>2. x = [dev EXCEPT !.pc = pc, !.keys = keys, !.D2HLastSent = seq] /\ x.D2HLastSent = seq
        /\ x.H2DLastSeen = dev.H2DLastSeen
    <3> HIDE DEF seq
    <3> QED
      BY <1>1 DEF DevSet
  <2>3. Save(x, TRUE) = [dev EXCEPT !.pc = pc, !.keys = keys, !.D2HLastSent = seq, !.savedSent = seq,
                                    !.savedSeen = dev.H2DLastSeen]
    BY <2>2 DEF Save
  <2>4. [hist EXCEPT !.d2hCount = @ + 1, !.d2hTop = Max({@, seq}), !.unsaved = FALSE]
          = [hist EXCEPT !.d2hCount = hist.d2hCount + 1, !.d2hTop = Max({top, seq}), !.unsaved = FALSE]
    BY <1>1 DEF HistSet
  <2> QED
    BY <2>1, <2>3, <2>4
<1>4. f \in Numbered(seq)
  BY <1>1 DEF Frame, Numbered, FrameSet
<1>5. Max({top, seq}) = seq
  <2>1. {top, seq} \subseteq Int /\ seq \in {top, seq} /\ \A y \in {top, seq} : y <= seq
    BY <1>1
  <2> HIDE DEF seq, top
  <2> QED
    BY <2>1, MaxIs
<1> HIDE DEF f
<1>6. before \o <<f>> \in Seq(Numbered(seq))
  <2>1. Numbered(0) \subseteq Numbered(seq)
    <3>1. 0 \in Nat /\ 0 <= seq
      BY <1>1
    <3> HIDE DEF seq
    <3> QED
      BY <1>1, <3>1, NumberedMono
  <2>2. before \in Seq(Numbered(seq))
    BY <2>1, SeqMono
  <2>3. <<f>> \in Seq(Numbered(seq))
    BY <1>4
  <2> QED
    BY <2>2, <2>3, SeqJoin
<1>7. r \in RelaySet(host.sent, seq)
  <2>1. host.sent <= host.sent /\ top <= seq
    BY <1>1
  <2> HIDE DEF seq
  <2> QED
    BY <1>1, <2>1, RelayMono
<1> DEFINE g == before \o <<f>>
           c == hist.d2hCount + 1
<1>8. c \in Nat /\ c > hist.d2hCount /\ seq - top >= c - hist.d2hCount
  BY <1>1
<1>9. relay' = write(r, dev.conn, g) /\ g \in Seq(Numbered(seq))
      /\ hist' = [hist EXCEPT !.d2hCount = c, !.d2hTop = seq, !.unsaved = FALSE]
  BY <1>3, <1>5, <1>6
<1>10. seq = dev.D2HLastSent + 1
  OBVIOUS
<1> HIDE DEF seq, g, c
<1>11. relay' \in RelaySet(host.sent, seq) /\ relay'.mbx = relay.mbx
  BY <1>1, <1>7, <1>9, WriteOK DEF DeviceKept
<1>12. dev' \in DevSet
  <2>1. dev.H2DLastSeen \in Nat
    BY <1>1 DEF DevSet
  <2> QED
    BY <1>1, <1>3, <2>1 DEF DevSet
<1>13. /\ dev'.pc = pc /\ dev'.tracker = dev.tracker /\ dev'.H2DLastSeen = dev.H2DLastSeen
       /\ dev'.savedSent = seq /\ dev'.D2HLastSent = seq /\ dev'.reconcile = dev.reconcile
       /\ dev'.savedSeen = dev.H2DLastSeen
  BY <1>1, <1>3 DEF DevSet
<1>14. /\ hist' \in HistSet /\ hist'.d2hCount = c /\ hist'.d2hTop = seq
       /\ hist'.taken = hist.taken /\ hist'.got = hist.got /\ hist'.base = hist.base /\ hist'.accepted = hist.accepted
       /\ hist'.d2hTaken = hist.d2hTaken /\ hist'.d2hGot = hist.d2hGot /\ hist'.unsaved = FALSE
  BY <1>1, <1>8, <1>9 DEF HistSet
<1>15. TypeOK'
  BY <1>11, <1>12, <1>14 DEF Inv, TypeOK
<1>16. CountersInv'
  BY <1>1, <1>13, <1>14 DEF Inv, CountersInv
<1>17. MarksInv'
  <2>1. hist.got = dev.H2DLastSeen /\ dev.H2DLastSeen \in Nat
    BY <1>1 DEF Inv, MarksInv, DevSet
  <2> QED
    BY <1>11, <1>13, <1>14, <2>1 DEF Inv, MarksInv
<1>18. SkipInv'
  BY <1>13, <1>14 DEF Inv, SkipInv
<1>19. H2DStep
  <2>1. SeenKept
    BY <1>13, <1>14 DEF SeenKept, Inv, MarksInv
  <2> QED
    BY <1>14, <2>1, H2DKept
<1>20. D2HStep
  BY <1>8, <1>14 DEF D2HStep, D2H!Next, D2H!Send
<1> QED
  BY <1>15, <1>16, <1>17, <1>18, <1>19, <1>20 DEF Step, Inv

LEMMA SendRPCStep == ASSUME Inv, SendRPC PROVE Step
<1>1. /\ dev \in DevSet /\ dev.pc = "up" /\ dev.keys \in KeySet /\ relay \in RelaySet(host.sent, hist.d2hTop)
      /\ dev.D2HLastSent \in Nat /\ dev.savedSent \in Nat /\ UNCHANGED host
  BY DEF Inv, TypeOK, DevSet, SendRPC
<1>2. ASSUME NEW kind \in {"rpc.request", "transcript"}, sendEncrypted(dev, relay, <<>>, kind) PROVE Step
  <2>1. dev = [dev EXCEPT !.pc = "up", !.keys = dev.keys]
    BY <1>1 DEF DevSet
  <2>2. <<>> \in Seq(Numbered(0))
    OBVIOUS
  <2>3. kind \in Kind \ {"sess.hello", "sess.header"}
    BY <1>2 DEF Kind
  <2> QED
    BY <1>1, <1>2, <2>1, <2>2, <2>3, SendStep
<1>3. CASE dev' = SaveFails(dev) /\ UNCHANGED <<relay, hist>>
  <2>1. dev' = [dev EXCEPT !.D2HLastSent = dev.D2HLastSent + 1]
    BY <1>3 DEF SaveFails
  <2>2. dev' \in DevSet
    BY <1>1, <2>1 DEF DevSet
  <2>3. /\ dev'.tracker = dev.tracker /\ dev'.pc = "up" /\ dev'.H2DLastSeen = dev.H2DLastSeen
        /\ dev'.savedSent = dev.savedSent /\ dev'.D2HLastSent = dev.D2HLastSent + 1 /\ dev'.reconcile = dev.reconcile
        /\ dev'.savedSeen = dev.savedSeen
    BY <1>1, <2>1 DEF DevSet
  <2>4. SkipInv'
    BY <1>1, <1>3, <2>3 DEF Inv, SkipInv
  <2>5. dev'.savedSent <= dev'.D2HLastSent
    BY <1>1, <2>3 DEF Inv, CountersInv
  <2>6. HistKept /\ SeenKept
    BY <1>3, <2>3, HistSame DEF SeenKept
  <2> QED
    BY <1>1, <1>3, <2>2, <2>3, <2>4, <2>5, <2>6, DeviceOnly
<1> QED
  BY <1>2, <1>3 DEF SendRPC

\* One frame on the live path is accepted; its mark is saved, or the save fails.
LEMMA TakeStep ==
  ASSUME Inv, UNCHANGED host, dev.pc # "idle",
         NEW g \in Nat, g > dev.tracker.last, g <= host.sent,
         NEW rc \in BOOLEAN, rc \/ (~dev.reconcile /\ g = dev.tracker.last + 1),
         NEW ok \in BOOLEAN, NEW d,
         d = [dev EXCEPT !.pc = "up", !.tracker = [last |-> g, inSession |-> TRUE],
                         !.reconcile = rc, !.H2DLastSeen = g],
         dev' = Save(d, ok),
         relay' \in RelaySet(host.sent, hist.d2hTop), relay'.mbx = relay.mbx,
         NEW o \in BOOLEAN,
         hist' = [hist EXCEPT !.taken = @ + 1, !.accepted = @ + 1, !.got = g, !.owed = o, !.unsaved = ~ok]
  PROVE  Step
<1> DEFINE t == [last |-> g, inSession |-> TRUE]
<1>1. /\ dev \in DevSet /\ hist \in HistSet /\ host.sent \in Nat /\ dev.tracker.last \in Nat
      /\ hist.got = dev.tracker.last /\ dev.conn \in Conn /\ dev.D2HLastSent \in Nat /\ dev.savedSent \in Nat
      /\ dev.savedSeen \in Nat /\ dev.savedSeen <= hist.got
  BY DEF Inv, TypeOK, HostSet, DevSet, TrackerSet, MarksInv
<1>2. t \in TrackerSet /\ t.last = g /\ t.inSession
  BY DEF TrackerSet
<1> DEFINE v == IF ok THEN dev.D2HLastSent ELSE dev.savedSent
           w == IF ok THEN g ELSE dev.savedSeen
<1>3. dev' = [dev EXCEPT !.pc = "up", !.tracker = t, !.reconcile = rc, !.H2DLastSeen = g,
                         !.savedSent = v, !.savedSeen = w]
  <2> HIDE DEF t
  <2>0. d = [dev EXCEPT !.pc = "up", !.tracker = t, !.reconcile = rc, !.H2DLastSeen = g]
    BY DEF t
  <2>1. d.D2HLastSent = dev.D2HLastSent /\ d.H2DLastSeen = g
    BY <1>1, <2>0 DEF DevSet
  <2>2. CASE ok
    BY <2>0, <2>1, <2>2 DEF Save
  <2>3. CASE ~ok
    <3>1. dev' = d
      BY <2>3 DEF Save
    <3> QED
      BY <1>1, <2>0, <2>3, <3>1, ZenonT(40) DEF DevSet
  <2> QED
    BY <2>2, <2>3
<1>v. v \in Nat /\ w \in Nat /\ v \in {dev.savedSent, dev.D2HLastSent}
  BY <1>1
<1>w. w = IF ok THEN g ELSE dev.savedSeen
  OBVIOUS
<1> HIDE DEF t, v, w
<1>4. dev' \in DevSet
  BY <1>1, <1>2, <1>3, <1>v, ZenonT(40) DEF DevSet
<1>5. /\ dev'.pc = "up" /\ dev'.tracker = t /\ dev'.reconcile = rc /\ dev'.H2DLastSeen = g
      /\ dev'.savedSent = v /\ dev'.D2HLastSent = dev.D2HLastSent /\ dev'.savedSeen = w
  BY <1>1, <1>3 DEF DevSet
<1>6. /\ hist' \in HistSet /\ hist'.taken = hist.taken + 1 /\ hist'.accepted = hist.accepted + 1 /\ hist'.got = g
      /\ hist'.unsaved = ~ok
  <2> DEFINE k == hist.taken + 1
             c == hist.accepted + 1
             u == ~ok
  <2>1. hist' = [hist EXCEPT !.taken = k, !.accepted = c, !.got = g, !.owed = o, !.unsaved = u]
    BY <1>1 DEF HistSet
  <2>2. k \in Nat /\ c \in Nat /\ u \in BOOLEAN
    BY <1>1 DEF HistSet
  <2> HIDE DEF k, c, u
  <2>3. hist' \in HistSet
    BY <1>1, <2>1, <2>2, ZenonT(40) DEF HistSet
  <2>4. hist'.taken = k /\ hist'.accepted = c /\ hist'.got = g /\ hist'.unsaved = u
    BY <1>1, <2>1, <2>2 DEF HistSet
  <2> QED
    BY <2>3, <2>4 DEF k, c, u
<1>7. /\ hist'.base = hist.base /\ hist'.d2hCount = hist.d2hCount /\ hist'.d2hTop = hist.d2hTop
      /\ hist'.d2hTaken = hist.d2hTaken /\ hist'.d2hGot = hist.d2hGot
  BY <1>1 DEF HistSet
<1>8. TypeOK'
  BY <1>4, <1>6, <1>7 DEF Inv, TypeOK
<1>9. CountersInv'
  <2>1. hist.d2hTop \in Nat
    BY <1>1 DEF HistSet
  <2> QED
    BY <1>1, <1>5, <1>7, <1>v, <2>1 DEF Inv, CountersInv
<1>10. MarksInv'
  <2>1. dev'.savedSeen <= hist'.got /\ (hist'.unsaved \/ dev'.savedSeen = hist'.got)
    <3>1. CASE ok
      <4>1. dev'.savedSeen = g /\ hist'.got = g
        BY <1>5, <1>6, <1>w, <3>1
      <4> QED
        BY <4>1
    <3>2. CASE ~ok
      <4>1. dev'.savedSeen = dev.savedSeen /\ hist'.got = g /\ hist'.unsaved
        BY <1>5, <1>6, <1>w, <3>2
      <4> QED
        BY <1>1, <4>1
    <3> QED
      BY <3>1, <3>2
  <2> QED
    BY <1>2, <1>5, <1>6, <2>1 DEF Inv, MarksInv
<1>11. SkipInv'
  <2>1. rc \/ g - hist.base = hist.accepted + 1
    <3> SUFFICES ASSUME ~rc PROVE g - hist.base = hist.accepted + 1
      OBVIOUS
    <3>1. dev.tracker.last - hist.base = hist.accepted /\ g = dev.tracker.last + 1
      BY DEF Inv, SkipInv
    <3>2. hist.base \in Nat /\ hist.accepted \in Nat
      BY <1>1 DEF HistSet
    <3> QED
      BY <1>1, <3>1, <3>2
  <2> QED
    BY <1>2, <1>5, <1>6, <1>7, <2>1 DEF SkipInv
<1>12. H2DStep
  <2>1. hist.got \in Nat /\ g >= hist.got + 1 /\ 1 \in Nat \ {0}
    BY <1>1
  <2>2. dev'.savedSeen = IF hist'.unsaved THEN dev.savedSeen ELSE g
    BY <1>5, <1>6, <1>w
  <2> QED
    BY <1>1, <1>6, <2>1, <2>2, H2DTook
<1>13. D2HStep
  BY <1>7, D2HQuiet
<1> QED
  BY <1>8, <1>9, <1>10, <1>11, <1>12, <1>13 DEF Step, Inv

\* Nothing is saved when the answer cannot be used.
LEMMA UnusableStep ==
  ASSUME Inv, UNCHANGED <<host, hist>>, dev' = Drop(dev), relay' = unread(relay)
  PROVE  Step
<1>1. /\ dev \in DevSet /\ hist.d2hTop \in Nat /\ host.sent \in Nat /\ relay \in RelaySet(host.sent, hist.d2hTop)
      /\ dev.D2HLastSent \in Nat
  BY DEF Inv, TypeOK, HostSet, HistSet, DevSet
<1>2. relay' \in RelaySet(host.sent, hist.d2hTop) /\ relay'.mbx = relay.mbx
  BY <1>1, UnreadOK DEF DeviceKept
<1>3. dev' = [dev EXCEPT !.pc = "idle", !.D2HLastSent = dev.D2HLastSent]
  BY <1>1 DEF Drop, DevSet
<1>4. dev.D2HLastSent >= dev.D2HLastSent
  BY <1>1
<1> QED
  BY <1>1, <1>2, <1>3, <1>4, GiveUpStep

LEMMA ReadAcceptStep == ASSUME Inv, ReadAccept PROVE Step
<1> DEFINE f == Head(relay.toDev)
           r == [relay EXCEPT !.toDev = Tail(@)]
           keys == <<dev.conn, f.keys[2]>>
           header == <<Frame("sess.header", 0, "P", keys)>>
           top == hist.d2hTop
<1>1. /\ dev \in DevSet /\ top \in Nat /\ host.sent \in Nat /\ relay \in RelaySet(host.sent, top)
      /\ dev.savedSent \in Nat /\ dev.D2HLastSent \in Nat /\ dev.savedSent <= dev.D2HLastSent
      /\ dev.pc = "hello" /\ relay.toDev # <<>> /\ UNCHANGED host /\ dev.conn \in Conn
  BY DEF Inv, TypeOK, HostSet, HistSet, DevSet, CountersInv, ReadAccept
<1>2. r \in RelaySet(host.sent, top) /\ r.mbx = relay.mbx /\ f \in Numbered(host.sent)
  BY <1>1, ReadOK DEF DeviceKept
<1>3. keys \in KeySet
  BY <1>1, <1>2 DEF Numbered, FrameSet, KeySet, Conn
<1>4. header \in Seq(Numbered(0)) /\ header \in Seq(Numbered(top))
  <2> DEFINE x == Frame("sess.header", 0, "P", keys)
  <2> HIDE DEF keys
  <2>1. x \in Numbered(0) /\ x \in Numbered(top)
    BY <1>1, <1>3 DEF Frame, Numbered, FrameSet, Kind
  <2> HIDE DEF x
  <2>2. <<x>> \in Seq(Numbered(0)) /\ <<x>> \in Seq(Numbered(top))
    BY <2>1
  <2> QED
    BY <2>2 DEF x
<1>5. \/ sendEncrypted([dev EXCEPT !.pc = "confirm", !.keys = keys], r, header, "sess.confirm")
      \/ dev' = Drop(SaveFails(dev)) /\ relay' = unread(write(relay, dev.conn, header)) /\ UNCHANGED hist
      \/ dev' = Drop(dev) /\ relay' = unread(relay) /\ UNCHANGED hist
  BY DEF ReadAccept
<1> HIDE DEF f, r, keys, header, top
<1>6. CASE sendEncrypted([dev EXCEPT !.pc = "confirm", !.keys = keys], r, header, "sess.confirm")
  <2>1. "sess.confirm" \in Kind \ {"sess.hello", "sess.header"}
    BY DEF Kind
  <2> QED
    BY <1>1, <1>2, <1>3, <1>4, <1>6, <2>1, SendStep DEF top
<1>7. CASE dev' = Drop(SaveFails(dev)) /\ relay' = unread(write(relay, dev.conn, header)) /\ UNCHANGED hist
  <2>1. write(relay, dev.conn, header) \in RelaySet(host.sent, top) /\ write(relay, dev.conn, header).mbx = relay.mbx
    BY <1>1, <1>4, WriteOK DEF DeviceKept
  <2>2. relay' \in RelaySet(host.sent, top) /\ relay'.mbx = relay.mbx
    BY <1>1, <1>7, <2>1, UnreadOK DEF DeviceKept
  <2> DEFINE n == dev.D2HLastSent + 1
  <2>3. dev' = [dev EXCEPT !.pc = "idle", !.D2HLastSent = n]
    BY <1>1, <1>7 DEF Drop, SaveFails, DevSet
  <2>4. n \in Nat /\ n >= dev.D2HLastSent
    BY <1>1
  <2> HIDE DEF n
  <2> QED
    BY <1>1, <1>7, <2>2, <2>3, <2>4, GiveUpStep DEF top
<1>8. CASE dev' = Drop(dev) /\ relay' = unread(relay) /\ UNCHANGED hist
  BY <1>1, <1>8, UnusableStep
<1> QED
  BY <1>5, <1>6, <1>7, <1>8

LEMMA ReadConfirmStep == ASSUME Inv, ReadConfirm PROVE Step
<1> DEFINE f == Head(relay.toDev)
           r == [relay EXCEPT !.toDev = Tail(@)]
           jump == Reconcile(dev.tracker, f.seq)
           rc == dev.reconcile \/ jump
           o == hist.owed /\ ~dev.reconcile /\ ~jump
<1>1. /\ dev \in DevSet /\ hist \in HistSet /\ hist.d2hTop \in Nat /\ host.sent \in Nat
      /\ relay \in RelaySet(host.sent, hist.d2hTop) /\ dev.tracker \in TrackerSet /\ dev.tracker.last \in Nat
      /\ dev.pc = "confirm" /\ relay.toDev # <<>> /\ UNCHANGED host
  BY DEF Inv, TypeOK, HostSet, HistSet, DevSet, TrackerSet, ReadConfirm
<1>2. r \in RelaySet(host.sent, hist.d2hTop) /\ r.mbx = relay.mbx /\ f.seq \in Nat /\ f.seq <= host.sent
  BY <1>1, ReadOK DEF DeviceKept, Numbered, FrameSet
<1>3. CASE /\ AcceptOK(StartSession(dev.tracker), f.seq)
           /\ f.class = "L" /\ f.keys = dev.keys /\ f.kind = "sess.confirm"
  <2>1. f.seq > dev.tracker.last
    BY <1>1, <1>3 DEF AcceptOK, StartSession, TrackerSet
  <2>2. rc \in BOOLEAN /\ o \in BOOLEAN
    OBVIOUS
  <2> DEFINE d == [dev EXCEPT !.pc = "up", !.tracker = [last |-> f.seq, inSession |-> TRUE],
                              !.reconcile = rc, !.H2DLastSeen = f.seq]
  <2>3. PICK ok \in BOOLEAN :
          /\ dev' = Save([dev EXCEPT !.pc = "up", !.tracker = Accept(@, f.seq),
                                     !.reconcile = @ \/ jump, !.H2DLastSeen = f.seq], ok)
          /\ relay' = r
          /\ hist' = [hist EXCEPT !.taken = @ + 1, !.accepted = @ + 1, !.got = f.seq,
                                  !.owed = @ /\ ~dev.reconcile /\ ~jump, !.unsaved = ~ok]
    <3> HIDE DEF d, rc, o
    <3> QED
      BY <1>3 DEF ReadConfirm
  <2>4. /\ dev' = Save(d, ok)
        /\ hist' = [hist EXCEPT !.taken = @ + 1, !.accepted = @ + 1, !.got = f.seq, !.owed = o, !.unsaved = ~ok]
    <3> HIDE DEF f, r, jump
    <3>1. [dev EXCEPT !.pc = "up", !.tracker = Accept(@, f.seq), !.reconcile = @ \/ jump, !.H2DLastSeen = f.seq] = d
      BY <1>1 DEF DevSet, Accept
    <3>2. [hist EXCEPT !.taken = @ + 1, !.accepted = @ + 1, !.got = f.seq,
                       !.owed = @ /\ ~dev.reconcile /\ ~jump, !.unsaved = ~ok]
            = [hist EXCEPT !.taken = @ + 1, !.accepted = @ + 1, !.got = f.seq, !.owed = o, !.unsaved = ~ok]
      BY <1>1 DEF HistSet
    <3> HIDE DEF d, rc, o
    <3> QED
      BY <2>3, <3>1, <3>2
  <2>5. rc \/ (~dev.reconcile /\ f.seq = dev.tracker.last + 1)
    <3>1. ~dev.tracker.inSession
      BY <1>1 DEF Inv, SkipInv
    <3> QED
      BY <1>1, <1>2, <2>1, <3>1 DEF Reconcile
  <2>6. d = [dev EXCEPT !.pc = "up", !.tracker = [last |-> f.seq, inSession |-> TRUE],
                        !.reconcile = rc, !.H2DLastSeen = f.seq]
    OBVIOUS
  <2>7. relay' = r
    BY <2>3
  <2> HIDE DEF f, r, rc, o, d
  <2> QED
    BY <1>1, <1>2, <2>1, <2>2, <2>4, <2>5, <2>6, <2>7, TakeStep, ZenonT(40)
<1>4. CASE ~ (/\ AcceptOK(StartSession(dev.tracker), f.seq)
              /\ f.class = "L" /\ f.keys = dev.keys /\ f.kind = "sess.confirm")
  <2>1. dev' = Drop(dev) /\ relay' = unread(relay) /\ UNCHANGED hist
    BY <1>4 DEF ReadConfirm
  <2> QED
    BY <1>1, <2>1, UnusableStep
<1> QED
  BY <1>3, <1>4

LEMMA RecvStep == ASSUME Inv, Recv PROVE Step
<1> DEFINE f == Head(relay.toDev)
           r == [relay EXCEPT !.toDev = Tail(@)]
<1>1. /\ dev \in DevSet /\ hist \in HistSet /\ hist.d2hTop \in Nat /\ host.sent \in Nat
      /\ relay \in RelaySet(host.sent, hist.d2hTop) /\ dev.tracker \in TrackerSet /\ dev.tracker.last \in Nat
      /\ dev.pc = "up" /\ relay.toDev # <<>> /\ UNCHANGED host
  BY DEF Inv, TypeOK, HostSet, HistSet, DevSet, TrackerSet, Recv
<1>2. r \in RelaySet(host.sent, hist.d2hTop) /\ r.mbx = relay.mbx /\ f.seq \in Nat /\ f.seq <= host.sent
  BY <1>1, ReadOK DEF DeviceKept, Numbered, FrameSet
<1>3. CASE f.seq = 0
  <2>1. relay' = r /\ UNCHANGED <<dev, hist>>
    BY <1>3 DEF Recv
  <2> QED
    BY <1>1, <1>2, <2>1, RelayOnly DEF Inv, MarksInv
<1>4. CASE f.seq # 0 /\ AcceptOK(dev.tracker, f.seq) /\ f.class = "L" /\ f.keys = dev.keys
  <2>1. f.seq > dev.tracker.last /\ f.seq = dev.tracker.last + 1
    <3>1. dev.tracker.inSession
      BY <1>1 DEF Inv, SkipInv
    <3> QED
      BY <1>4, <3>1 DEF AcceptOK
  <2>2. PICK ok \in BOOLEAN :
          /\ relay' = r
          /\ dev' = Save([dev EXCEPT !.tracker = Accept(@, f.seq), !.H2DLastSeen = f.seq], ok)
          /\ hist' = [hist EXCEPT !.taken = @ + 1, !.accepted = @ + 1, !.got = f.seq, !.unsaved = ~ok]
    BY <1>4 DEF Recv
  <2> DEFINE rc == dev.reconcile
             o == hist.owed
             d == [dev EXCEPT !.pc = "up", !.tracker = [last |-> f.seq, inSession |-> TRUE],
                              !.reconcile = rc, !.H2DLastSeen = f.seq]
  <2>3. rc \in BOOLEAN /\ o \in BOOLEAN /\ (rc \/ ~dev.reconcile)
    BY <1>1 DEF DevSet, HistSet
  <2> HIDE DEF f, r
  <2>4. dev' = Save(d, ok)
    <3>1. [dev EXCEPT !.tracker = Accept(@, f.seq), !.H2DLastSeen = f.seq] = d
      BY <1>1 DEF Accept, DevSet
    <3> HIDE DEF d
    <3> QED
      BY <2>2, <3>1
  <2>5. hist' = [hist EXCEPT !.taken = @ + 1, !.accepted = @ + 1, !.got = f.seq, !.owed = o, !.unsaved = ~ok]
    BY <1>1, <2>2 DEF HistSet
  <2>6. d = [dev EXCEPT !.pc = "up", !.tracker = [last |-> f.seq, inSession |-> TRUE],
                        !.reconcile = rc, !.H2DLastSeen = f.seq] /\ relay' = r
    BY <2>2
  <2> HIDE DEF d, o, rc
  <2> QED
    BY <1>1, <1>2, <2>1, <2>3, <2>4, <2>5, <2>6, TakeStep, ZenonT(40)
<1>5. CASE f.seq # 0 /\ ~(AcceptOK(dev.tracker, f.seq) /\ f.class = "L" /\ f.keys = dev.keys)
  <2>1. \E ok \in BOOLEAN : Close(ok)
    BY <1>5 DEF Recv
  <2> QED
    BY <1>1, <2>1, CloseStep
<1> QED
  BY <1>3, <1>4, <1>5

-----------------------------------------------------------------------------
(* Every step, and the theorems *)

LEMMA NextStep == ASSUME Inv, [Next]_vars PROVE Step
<1>1. CASE UNCHANGED vars
  <2>1. relay \in RelaySet(host.sent, hist.d2hTop) /\ Ascending(relay.mbx)
    BY DEF Inv, TypeOK, MarksInv
  <2> QED
    BY <1>1, <2>1, RelayOnly DEF vars
<1>2. ASSUME NEW c \in Conn, DeviceFrame(c) \/ DeviceDetach(c) PROVE Step
  BY <1>2, DeviceFrameStep, DeviceDetachStep
<1>3. CASE MailboxExpire \/ HostRead \/ EmitEvent \/ EmitEventClassL
  BY <1>3, MailboxExpireStep, HostReadStep, EmitStep
<1>4. CASE Connect \/ DrainPage \/ Attach \/ ReadAccept
  BY <1>4, ConnectStep, DrainPageStep, AttachStep, ReadAcceptStep
<1>5. CASE ReadConfirm \/ Recv \/ SendRPC \/ EndSession \/ Crash
  BY <1>5, ReadConfirmStep, RecvStep, SendRPCStep, EndSessionStep, CrashStep
<1> QED
  BY <1>1, <1>2, <1>3, <1>4, <1>5 DEF Next

LEMMA InitInv == ASSUME Init PROVE Inv
<1> DEFINE d2h == Accept(NewSeqTracker(0), 1)
           t == NewSeqTracker(1)
<1>1. NoKeys \in KeySet /\ NoSession \in SessSet
  <2>1. NoKeys \in KeySet
    BY DEF NoKeys, KeySet
  <2> QED
    BY <2>1 DEF NoSession, SessSet
<1>2. d2h \in TrackerSet /\ d2h.last = 1 /\ t \in TrackerSet /\ t.last = 1
  BY DEF Accept, NewSeqTracker, TrackerSet
<1>3. host = [sent |-> 1, attached |-> FALSE, sess |-> NoSession, nonce |-> 0, d2h |-> d2h]
  BY DEF Init
<1>4. dev = [pc |-> "idle", conn |-> 0, keys |-> NoKeys, tracker |-> t, after |-> 1, reconcile |-> FALSE,
             D2HLastSent |-> 1, savedSent |-> 1, H2DLastSeen |-> 1, savedSeen |-> 1]
  BY DEF Init
<1> HIDE DEF d2h, t
<1>5. host \in HostSet /\ host.sent = 1 /\ host.d2h.last = 1
  BY <1>1, <1>2, <1>3 DEF HostSet
<1>6. 0 \in 0..MaxConnect
  BY DeliveryAssumption
<1>7. dev \in DevSet /\ dev.pc = "idle" /\ dev.H2DLastSeen = 1 /\ dev.savedSent = 1 /\ dev.D2HLastSent = 1
      /\ dev.savedSeen = 1
  BY <1>1, <1>2, <1>4, <1>6 DEF DevSet
<1>8. hist \in HistSet /\ hist.d2hTop = 1 /\ hist.d2hGot = 1 /\ hist.got = 1
  BY DEF Init, HistSet
<1>9. relay.mbx = <<>> /\ Ascending(relay.mbx)
  BY DEF Init, Ascending
<1>10. relay \in RelaySet(1, 1)
  <2>1. <<>> \in Seq(Numbered(1))
    OBVIOUS
  <2>2. <<>> \in Seq(Numbered(1) \cup PresenceSet)
    OBVIOUS
  <2>3. [c \in Conn |-> <<>>] \in [Conn -> Seq(Numbered(1))]
    BY <2>1
  <2> QED
    BY <2>1, <2>2, <2>3 DEF Init, RelaySet
<1> QED
  BY <1>5, <1>7, <1>8, <1>9, <1>10 DEF Inv, TypeOK, CountersInv, MarksInv, SkipInv

LEMMA InvAlways == Spec => []Inv
<1>1. Inv /\ [Next]_vars => Inv'
  BY NextStep DEF Step
<1> QED
  BY <1>1, InitInv, PTL DEF Spec

\* Every variable keeps its type, and nothing in flight or in the mailbox carries a
\* number its sender has not used (seq.go, sendEncrypted, sendEnvelope).
THEOREM DeliveryTypeCorrect == Spec => []TypeOK
<1>1. Inv => TypeOK
  BY DEF Inv
<1> QED
  BY <1>1, InvAlways, PTL

\* Host to device (drainMailbox, Connect, Recv): over any number of crashes, reconnects and
\* overlapping mailbox reads, the device accepts each of the host's numbers at most once and
\* in ascending order.  Only a crash after a save of the mark failed (the error is ignored,
\* session.go:217, 331, 435) takes it back, to the last mark that was saved and no further.
THEOREM TakenOnceByDevice == Spec => HostToDevice
<1>1. Init => H2D!Init
  BY DEF Init, H2D!Init
<1>2. Inv /\ [Next]_vars => H2DStep
  BY NextStep DEF Step
<1> QED
  BY <1>1, <1>2, InvAlways, PTL DEF Spec, HostToDevice, H2D!Spec, H2DStep

\* Device to host: no number is used by two frames, whatever save or process fails, and
\* the host accepts each at most once and in order, stale connections included.
THEOREM TakenOnceByHost == Spec => DeviceToHost
<1>1. Init => D2H!Init
  BY DEF Init, D2H!Init
<1>2. Inv /\ [Next]_vars => D2HStep
  BY NextStep DEF Step
<1> QED
  BY <1>1, <1>2, InvAlways, PTL DEF Spec, DeviceToHost, D2H!Spec, D2HStep

\* ReconcileExpected (devclient/session.go:48): an established session has accepted every number
\* since the mark its Connect started from, or its reconcile flag is up.
THEOREM SkipsAreReconciled == Spec => []SkippedMeansReconcile
<1>1. Inv => SkippedMeansReconcile
  BY DEF Inv, SkipInv, SkippedMeansReconcile
<1> QED
  BY <1>1, InvAlways, PTL

-----------------------------------------------------------------------------
(* The host's view of device presence *)

\* What the host will believe once it has read q, if it believes v now.
View(q, v) ==
  LET told == {i \in DOMAIN q : q[i].kind = "presence"}
  IN  IF told = {} THEN v ELSE q[Max(told)].attached

\* i is the place of the last presence message of q.
LastTold(q, i) ==
  i \in 1..Len(q) /\ q[i].kind = "presence" /\ \A j \in 1..Len(q) : q[j].kind = "presence" => j <= i

NoneTold(q) == \A j \in 1..Len(q) : q[j].kind # "presence"

LEMMA ViewLast == ASSUME NEW S, NEW q \in Seq(S), NEW v, NEW i, LastTold(q, i) PROVE View(q, v) = q[i].attached
<1> DEFINE T == {j \in DOMAIN q : q[j].kind = "presence"}
<1>1. T \subseteq Int /\ i \in T /\ \A j \in T : j <= i
  BY DEF LastTold
<1>2. View(q, v) = IF T = {} THEN v ELSE q[Max(T)].attached
  BY DEF View
<1> HIDE DEF T
<1>3. Max(T) = i
  BY <1>1, MaxIs
<1> QED
  BY <1>1, <1>2, <1>3

LEMMA ViewNone == ASSUME NEW S, NEW q \in Seq(S), NEW v, NoneTold(q) PROVE View(q, v) = v
<1> DEFINE T == {j \in DOMAIN q : q[j].kind = "presence"}
<1>1. T = {}
  BY DEF NoneTold
<1> QED
  BY <1>1 DEF View

LEMMA ToldOrNot == ASSUME NEW S, NEW q \in Seq(S) PROVE NoneTold(q) \/ \E i : LastTold(q, i)
<1> DEFINE T == {j \in 1..Len(q) : q[j].kind = "presence"}
<1>1. CASE T = {}
  BY <1>1 DEF NoneTold
<1>2. CASE T # {}
  <2> DEFINE n == Len(q)
  <2>1. n \in Nat /\ T \subseteq 1..n
    OBVIOUS
  <2>2. PICK i \in T : \A y \in T : y <= i
    <3> HIDE DEF n, T
    <3> QED
      BY <1>2, <2>1, SetMax
  <2> QED
    BY <2>2 DEF LastTold
<1> QED
  BY <1>1, <1>2

LEMMA ViewAppend ==
  ASSUME NEW S, NEW q \in Seq(S), NEW v, NEW m \in S
  PROVE  View(Append(q, m), v) = IF m.kind = "presence" THEN m.attached ELSE View(q, v)
<1> DEFINE p == Append(q, m)
<1>1. /\ p \in Seq(S) /\ Len(p) = Len(q) + 1 /\ p[Len(q) + 1] = m /\ Len(q) \in Nat
      /\ \A j \in 1..Len(q) : p[j] = q[j]
  OBVIOUS
<1> HIDE DEF p
<1>2. CASE m.kind = "presence"
  <2>1. LastTold(p, Len(q) + 1)
    BY <1>1, <1>2 DEF LastTold
  <2>2. View(p, v) = p[Len(q) + 1].attached
    BY <1>1, <2>1, ViewLast
  <2> QED
    BY <1>1, <1>2, <2>2 DEF p
<1>3. CASE m.kind # "presence" /\ NoneTold(q)
  <2>1. NoneTold(p)
    BY <1>1, <1>3 DEF NoneTold
  <2>2. View(p, v) = v /\ View(q, v) = v
    BY <1>1, <1>3, <2>1, ViewNone
  <2> QED
    BY <1>3, <2>2 DEF p
<1>4. ASSUME m.kind # "presence", NEW i, LastTold(q, i)
      PROVE  View(p, v) = View(q, v)
  <2>1. LastTold(p, i) /\ p[i] = q[i]
    BY <1>1, <1>4 DEF LastTold
  <2>2. View(p, v) = p[i].attached
    BY <1>1, <2>1, ViewLast
  <2>3. View(q, v) = q[i].attached
    BY <1>4, ViewLast
  <2> QED
    BY <2>1, <2>2, <2>3
<1> QED
  BY <1>2, <1>3, <1>4, ToldOrNot DEF p

LEMMA ViewTail ==
  ASSUME NEW S, NEW q \in Seq(S), q # <<>>, NEW v
  PROVE  View(q, v) = View(Tail(q), IF Head(q).kind = "presence" THEN Head(q).attached ELSE v)
<1> DEFINE p == Tail(q)
           w == IF Head(q).kind = "presence" THEN Head(q).attached ELSE v
<1>1. /\ p \in Seq(S) /\ Len(q) = Len(p) + 1 /\ q[1] = Head(q) /\ Len(p) \in Nat
      /\ \A j \in 1..Len(p) : p[j] = q[j + 1]
  OBVIOUS
<1>2. \A j \in 1..Len(q) : j = 1 \/ (j - 1 \in 1..Len(p) /\ q[j] = p[j - 1])
  BY <1>1
<1> HIDE DEF p
<1>3. CASE NoneTold(p) /\ Head(q).kind = "presence"
  <2>1. LastTold(q, 1)
    <3>1. 1 \in 1..Len(q) /\ q[1].kind = "presence"
      BY <1>1, <1>3
    <3>2. ASSUME NEW j \in 1..Len(q), q[j].kind = "presence" PROVE j <= 1
      BY <1>2, <1>3, <3>2 DEF NoneTold
    <3> QED
      BY <3>1, <3>2 DEF LastTold
  <2>2. View(q, v) = q[1].attached
    BY <2>1, ViewLast
  <2>3. View(p, w) = w
    BY <1>1, <1>3, ViewNone
  <2> QED
    BY <1>1, <1>3, <2>2, <2>3 DEF p
<1>4. CASE NoneTold(p) /\ Head(q).kind # "presence"
  <2>1. NoneTold(q)
    BY <1>1, <1>2, <1>4 DEF NoneTold
  <2>2. View(q, v) = v /\ View(p, w) = w
    BY <1>1, <1>4, <2>1, ViewNone
  <2> QED
    BY <1>4, <2>2 DEF p
<1>5. ASSUME NEW i, LastTold(p, i) PROVE View(q, v) = View(p, w)
  <2>1. LastTold(q, i + 1) /\ q[i + 1] = p[i]
    <3>1. i \in 1..Len(p) /\ p[i].kind = "presence" /\ q[i + 1] = p[i]
      BY <1>1, <1>5 DEF LastTold
    <3>2. i + 1 \in 1..Len(q)
      BY <1>1, <3>1
    <3>3. ASSUME NEW j \in 1..Len(q), q[j].kind = "presence" PROVE j <= i + 1
      <4>1. CASE j = 1
        BY <3>1, <4>1
      <4>2. CASE j - 1 \in 1..Len(p) /\ q[j] = p[j - 1]
        <5>1. j - 1 <= i
          BY <1>5, <3>3, <4>2 DEF LastTold
        <5> QED
          BY <3>1, <5>1
      <4> QED
        BY <1>2, <4>1, <4>2
    <3> QED
      BY <3>1, <3>2, <3>3 DEF LastTold
  <2>2. View(q, v) = q[i + 1].attached
    BY <2>1, ViewLast
  <2>3. View(p, w) = p[i].attached
    BY <1>1, <1>5, ViewLast
  <2> QED
    BY <2>1, <2>2, <2>3
<1>6. View(q, v) = View(p, w)
  BY <1>1, <1>3, <1>4, <1>5, ToldOrNot DEF p
<1> QED
  BY <1>6 DEF p

\* The record of presence follows the connections, and unless a message was lost a
\* host that believes v is about to believe the record.
ViewOf(r, v) ==
  /\ r.attached <=> r.conns # {}
  /\ r.lostText \/ View(r.toHost, v) = r.attached

ViewInv == ViewOf(relay, host.attached)

\* What every step but four leaves alone.
ViewSame(r, q) == q.conns = r.conns /\ q.attached = r.attached /\ q.lostText = r.lostText /\ q.toHost = r.toHost

LEMMA ViewKept == ASSUME ViewInv, ViewSame(relay, relay'), host'.attached = host.attached PROVE ViewInv'
BY DEF ViewInv, ViewOf, ViewSame

LEMMA DeviceFrameView == ASSUME Inv, ViewInv, NEW c \in Conn, DeviceFrame(c) PROVE ViewInv'
<1> DEFINE S == Numbered(hist.d2hTop) \cup PresenceSet
           q == relay.toHost
           f == Head(relay.fromDev[c])
<1>1. relay \in RelaySet(host.sent, hist.d2hTop) /\ q \in Seq(S)
  BY DEF Inv, TypeOK, RelaySet
<1>2. f \in S /\ f.kind # "presence"
  <2>1. relay.fromDev[c] \in Seq(Numbered(hist.d2hTop)) /\ relay.fromDev[c] # <<>>
    BY <1>1 DEF RelaySet, DeviceFrame
  <2>2. f \in Numbered(hist.d2hTop)
    BY <2>1, SeqTail
  <2> HIDE DEF f
  <2> QED
    BY <2>2 DEF Numbered, FrameSet, Kind
<1>3. /\ relay'.conns = relay.conns /\ relay'.attached = relay.attached /\ relay'.lostText = relay.lostText
      /\ relay'.toHost = enqueue(q, f) /\ host' = host
  BY <1>1 DEF RelaySet, DeviceFrame
<1> HIDE DEF S, q, f
<1>4. View(enqueue(q, f), host.attached) = View(q, host.attached)
  BY <1>1, <1>2, ViewAppend DEF enqueue
<1> QED
  BY <1>3, <1>4 DEF ViewInv, ViewOf, q

\* A transition that is published is what the host will believe.
LEMMA PublishedView ==
  ASSUME NEW sent \in Nat, NEW top \in Nat, NEW r \in RelaySet(sent, top), NEW a \in BOOLEAN, NEW q,
         Published(r, q, a), NEW v, r.lostText \/ View(r.toHost, v) = r.attached
  PROVE  q.lostText \/ View(q.toHost, v) = a
<1>1. CASE q = r
  BY <1>1 DEF Published
<1>2. CASE /\ q.toHost = enqueue(r.toHost, PresenceMsg(a))
           /\ q.lostText = (r.lostText \/ Len(r.toHost) >= QueueCap)
  <2>1. CASE Len(r.toHost) >= QueueCap
    BY <1>2, <2>1
  <2>2. CASE ~(Len(r.toHost) >= QueueCap)
    <3> DEFINE S == Numbered(top) \cup PresenceSet
               m == PresenceMsg(a)
    <3>1. r.toHost \in Seq(S) /\ m \in S /\ m.kind = "presence" /\ m.attached = a
      BY DEF RelaySet, PresenceMsg, PresenceSet
    <3>2. QueueCap \in Nat /\ Len(r.toHost) \in Nat
      BY <3>1, DeliveryAssumption
    <3>3. q.toHost = Append(r.toHost, m)
      BY <1>2, <2>2, <3>2 DEF enqueue
    <3> HIDE DEF S, m
    <3> QED
      BY <3>1, <3>3, ViewAppend
  <2> QED
    BY <2>1, <2>2
<1> QED
  BY <1>1, <1>2 DEF Published

\* The record is brought up to the connections.
LEMMA RecordedView ==
  ASSUME NEW sent \in Nat, NEW top \in Nat, NEW r \in RelaySet(sent, top), NEW v,
         r.lostText \/ View(r.toHost, v) = r.attached, NEW a \in BOOLEAN, a <=> r.conns # {}
  PROVE  ViewOf(setDevAttached(r, a), v)
<1> DEFINE q == setDevAttached(r, a)
<1>1. Published(r, q, a)
  BY AttachedPublished
<1> HIDE DEF q
<1>2. q.lostText \/ View(q.toHost, v) = a
  BY <1>1, PublishedView
<1>3. q.attached = a /\ q.conns = r.conns
  BY <1>1 DEF Published
<1>4. ViewOf(q, v)
  BY <1>2, <1>3 DEF ViewOf
<1> QED
  BY <1>4 DEF q

LEMMA DetachedView ==
  ASSUME NEW sent \in Nat, NEW top \in Nat, NEW r \in RelaySet(sent, top), NEW v, ViewOf(r, v), NEW c \in r.conns
  PROVE  ViewOf(deleteDevConn(r, c), v)
<1> DEFINE cs == r.conns \ {c}
           fd == [r.fromDev EXCEPT ![c] = <<>>]
           out == [r EXCEPT !.conns = cs, !.fromDev = fd]
<1>0. c \in Conn /\ <<>> \in Seq(Numbered(top))
  BY DEF RelaySet
<1>1. cs \subseteq Conn /\ fd \in [Conn -> Seq(Numbered(top))]
  BY <1>0 DEF RelaySet
<1>2. [r EXCEPT !.conns = @ \ {c}, !.fromDev[c] = <<>>] = out
  BY DEF RelaySet
<1>3. deleteDevConn(r, c) = IF out.conns = {} THEN setDevAttached(out, FALSE) ELSE out
  BY <1>2 DEF deleteDevConn
<1> HIDE DEF cs, fd
<1>4. out \in RelaySet(sent, top) /\ out.conns = cs /\ out.attached = r.attached
      /\ out.lostText = r.lostText /\ out.toHost = r.toHost
  BY <1>1 DEF RelaySet
<1> HIDE DEF out
<1>5. r.attached /\ (out.lostText \/ View(out.toHost, v) = out.attached)
  BY <1>4 DEF ViewOf
<1>6. CASE out.conns = {}
  <2>1. \A a \in BOOLEAN : (a <=> out.conns # {}) => ViewOf(setDevAttached(out, a), v)
    BY <1>4, <1>5, RecordedView
  <2>2. FALSE \in BOOLEAN /\ (FALSE <=> out.conns # {})
    BY <1>6
  <2>3. ViewOf(setDevAttached(out, FALSE), v)
    BY <2>1, <2>2, Zenon
  <2> QED
    BY <1>3, <1>6, <2>3
<1>7. CASE out.conns # {}
  BY <1>3, <1>4, <1>5, <1>7 DEF ViewOf
<1> QED
  BY <1>6, <1>7

LEMMA DeviceDetachView == ASSUME Inv, ViewInv, NEW c \in Conn, DeviceDetach(c) PROVE ViewInv'
<1>1. relay \in RelaySet(host.sent, hist.d2hTop) /\ host.sent \in Nat /\ hist.d2hTop \in Nat /\ c \in relay.conns
  BY DEF Inv, TypeOK, HostSet, HistSet, DeviceDetach
<1>2. ViewOf(deleteDevConn(relay, c), host.attached)
  BY <1>1, DetachedView DEF ViewInv
<1>3. relay' = deleteDevConn(relay, c) /\ host' = host
  BY DEF DeviceDetach
<1> QED
  BY <1>2, <1>3 DEF ViewInv

LEMMA InsertedView ==
  ASSUME NEW sent \in Nat, NEW top \in Nat, NEW r \in RelaySet(sent, top), NEW v, ViewOf(r, v), NEW c \in Conn
  PROVE  ViewOf(insertDevConn(r, c), v)
<1> DEFINE cs == r.conns \cup {c}
           in == [r EXCEPT !.conns = cs, !.reader = c, !.toDev = <<>>]
<1>1. <<>> \in Seq(Numbered(sent)) /\ c \in Nat
  BY DEF Conn
<1>2. cs \subseteq Conn /\ c \in cs /\ r.conns \subseteq cs /\ (cs # {c} => r.conns # {})
  BY DEF RelaySet
<1>3. insertDevConn(r, c) = IF in.conns = {c} THEN setDevAttached(in, TRUE) ELSE in
  BY DEF insertDevConn
<1> HIDE DEF cs
<1>4. in \in RelaySet(sent, top) /\ in.conns = cs /\ in.attached = r.attached
      /\ in.lostText = r.lostText /\ in.toHost = r.toHost
  BY <1>1, <1>2 DEF RelaySet
<1> HIDE DEF in
<1>5. in.lostText \/ View(in.toHost, v) = in.attached
  BY <1>4 DEF ViewOf
<1>6. CASE in.conns = {c}
  <2>1. \A a \in BOOLEAN : (a <=> in.conns # {}) => ViewOf(setDevAttached(in, a), v)
    BY <1>4, <1>5, RecordedView
  <2>2. TRUE \in BOOLEAN /\ (TRUE <=> in.conns # {})
    BY <1>6
  <2>3. ViewOf(setDevAttached(in, TRUE), v)
    BY <2>1, <2>2, Zenon
  <2> QED
    BY <1>3, <1>6, <2>3
<1>7. CASE in.conns # {c}
  <2>1. in.attached /\ in.conns # {}
    BY <1>2, <1>4, <1>7 DEF ViewOf
  <2>2. ViewOf(in, v)
    BY <1>5, <2>1 DEF ViewOf
  <2> QED
    BY <1>3, <1>7, <2>2
<1> QED
  BY <1>6, <1>7

LEMMA WriteSame ==
  ASSUME NEW sent \in Nat, NEW top \in Nat, NEW r \in RelaySet(sent, top), NEW c, NEW frames
  PROVE  ViewSame(r, write(r, c, frames)) /\ ViewSame(r, unread(write(r, c, frames)))
<1>1. CASE c \in r.conns
  <2> DEFINE fd == [r.fromDev EXCEPT ![c] = @ \o frames]
             w == [r EXCEPT !.fromDev = fd]
  <2>1. write(r, c, frames) = w
    BY <1>1 DEF write, RelaySet
  <2> HIDE DEF fd
  <2>2. ViewSame(r, w) /\ ViewSame(r, unread(w))
    BY DEF ViewSame, RelaySet, unread
  <2> QED
    BY <2>1, <2>2
<1>2. CASE c \notin r.conns
  <2>1. write(r, c, frames) = r
    BY <1>2 DEF write
  <2>2. ViewSame(r, r) /\ ViewSame(r, unread(r))
    BY DEF ViewSame, RelaySet, unread
  <2> QED
    BY <2>1, <2>2
<1> QED
  BY <1>1, <1>2

LEMMA AttachView == ASSUME Inv, ViewInv, Attach PROVE ViewInv'
<1> DEFINE in == insertDevConn(relay, dev.conn)
           f == <<Frame("sess.hello", 0, "P", <<dev.conn, 0>>)>>
<1>1. /\ hist.d2hTop \in Nat /\ host.sent \in Nat /\ relay \in RelaySet(host.sent, hist.d2hTop)
      /\ dev.conn \in Conn
  BY DEF Inv, TypeOK, HostSet, HistSet, DevSet, Attach
<1>2. relay' = write(in, dev.conn, f) /\ host' = host
  BY DEF Attach
<1>3. in \in RelaySet(host.sent, hist.d2hTop) /\ ViewOf(in, host.attached)
  BY <1>1, Inserted, InsertedView DEF ViewInv
<1> HIDE DEF in, f
<1>4. ViewSame(in, relay')
  BY <1>1, <1>2, <1>3, WriteSame
<1> QED
  BY <1>2, <1>3, <1>4 DEF ViewInv, ViewOf, ViewSame

LEMMA EmitView == ASSUME Inv, ViewInv, EmitEvent \/ EmitEventClassL PROVE ViewInv'
<1> DEFINE s == [h |-> host, r |-> relay]
           top == hist.d2hTop
           Sent(t) == Served(s, t, top)
<1>1. top \in Nat /\ PairOK(s, top) /\ s.h = host /\ s.r = relay
  BY DEF Inv, TypeOK, HistSet, MarksInv, PairOK
<1>2. Sent(sendEnvelope(s, "event")) /\ Sent(sendEncryptedOn(s, "event"))
  <2> HIDE DEF s, top
  <2> QED
    BY <1>1, SendsServed DEF Kind
<1>3. PICK t : Sent(t) /\ host' = t.h /\ relay' = t.r
  <2> HIDE DEF Sent
  <2> QED
    BY <1>2 DEF EmitEvent, EmitEventClassL
<1> HIDE DEF s
<1>4. ViewSame(relay, relay') /\ host'.attached = host.attached
  BY <1>1, <1>3 DEF Served, Untouched, ViewSame
<1> QED
  BY <1>4, ViewKept

\* The host reads the oldest message: a presence message it believes, a frame leaves
\* its view alone.
LEMMA HostReadView == ASSUME Inv, ViewInv, HostRead PROVE ViewInv'
<1> DEFINE m == Head(relay.toHost)
           q == Tail(relay.toHost)
           top == hist.d2hTop
           p == [relay EXCEPT !.toHost = q]
           s == [h |-> host, r |-> p]
           t == IF m.kind = "presence" THEN handleControl(s, m) ELSE handleSessionFrame(s, m)
           v == IF m.kind = "presence" THEN m.attached ELSE host.attached
<1>1. relay.toHost # <<>> /\ host' = t.h /\ relay' = t.r
  BY DEF HostRead
<1>2. relay \in RelaySet(host.sent, top) /\ host \in HostSet /\ top \in Nat
      /\ relay.toHost \in Seq(Numbered(top) \cup PresenceSet)
  BY DEF Inv, TypeOK, HistSet, RelaySet
<1>3. m \in Numbered(top) \cup PresenceSet /\ q \in Seq(Numbered(top) \cup PresenceSet)
  BY <1>1, <1>2, SeqTail
<1>4. View(relay.toHost, host.attached) = View(q, v)
  BY <1>1, <1>2, ViewTail
<1> HIDE DEF m, q, top
<1>5. p \in RelaySet(host.sent, top) /\ p.mbx = relay.mbx /\ p.toHost = q
      /\ p.conns = relay.conns /\ p.attached = relay.attached /\ p.lostText = relay.lostText
  BY <1>2, <1>3 DEF RelaySet
<1> HIDE DEF p
<1>6. PairOK(s, top) /\ s.h = host /\ s.r = p
  BY <1>2, <1>5 DEF PairOK, Inv, MarksInv
<1>7. ViewOf(p, v)
  BY <1>4, <1>5 DEF ViewInv, ViewOf
<1> HIDE DEF s
<1>8. ViewSame(p, relay') /\ host'.attached = v
  <2>1. CASE m.kind = "presence"
    <3>1. t.h = [host EXCEPT !.attached = m.attached] /\ t.r = p
      BY <1>6, <2>1 DEF handleControl, PairOK
    <3> QED
      BY <1>1, <1>2, <2>1, <3>1 DEF ViewSame, HostSet
  <2>2. CASE m.kind # "presence"
    <3>1. m \in FrameSet
      BY <1>3, <2>2 DEF PresenceSet, Numbered
    <3>2. t = handleSessionFrame(s, m) /\ v = host.attached
      BY <2>2
    <3> HIDE DEF t, v
    <3>3. Handled(s, t, m, top)
      BY <1>2, <1>6, <3>1, <3>2, FrameHandled
    <3> QED
      BY <1>1, <1>6, <3>2, <3>3 DEF Handled, Untouched, ViewSame
  <2> QED
    BY <2>1, <2>2
<1> HIDE DEF v
<1> QED
  BY <1>7, <1>8 DEF ViewInv, ViewOf, ViewSame

\* The device's other steps and the mailbox.
LEMMA OtherView ==
  ASSUME Inv, ViewInv,
         \/ MailboxExpire \/ Connect \/ DrainPage
         \/ ReadAccept \/ ReadConfirm \/ Recv \/ SendRPC \/ EndSession \/ Crash
  PROVE  ViewInv'
<1>1. hist.d2hTop \in Nat /\ host.sent \in Nat /\ relay \in RelaySet(host.sent, hist.d2hTop)
  <2>1. host \in HostSet /\ hist \in HistSet /\ relay \in RelaySet(host.sent, hist.d2hTop)
    BY Zenon DEF Inv, TypeOK
  <2> QED
    BY <2>1 DEF HostSet, HistSet
<1>2. host' = host
  <2>1. CASE MailboxExpire \/ Connect \/ DrainPage \/ EndSession \/ Crash
    BY <2>1, Zenon DEF MailboxExpire, Connect, DrainPage, EndSession, Close, Crash
  <2>2. CASE ReadAccept \/ ReadConfirm \/ Recv \/ SendRPC
    BY <2>2, Zenon DEF ReadAccept, ReadConfirm, Recv, SendRPC
  <2> QED
    BY <2>1, <2>2
<1> SUFFICES ViewSame(relay, relay')
  BY <1>2, ViewKept, Zenon
<1>3. ViewSame(relay, relay) /\ ViewSame(relay, unread(relay)) /\ ViewSame(relay, [relay EXCEPT !.mbx = Tail(@)])
  BY <1>1 DEF ViewSame, unread, RelaySet
<1> DEFINE r == [relay EXCEPT !.toDev = Tail(@)]
<1>4. ViewSame(relay, r)
  BY <1>1 DEF ViewSame, RelaySet
<1>5. CASE MailboxExpire \/ Connect \/ DrainPage \/ EndSession \/ Crash
  <2>1. \/ relay' = relay \/ relay' = unread(relay)
        \/ relay' = [relay EXCEPT !.mbx = Tail(@)]
    BY <1>5, Zenon DEF MailboxExpire, Connect, DrainPage, EndSession, Close, Crash
  <2> QED
    BY <1>3, <2>1
<1>6. CASE ReadAccept
  <2> DEFINE header == <<Frame("sess.header", 0, "P", <<dev.conn, Head(relay.toDev).keys[2]>>)>>
             x == header \o <<Frame("sess.confirm", dev.D2HLastSent + 1, "L", <<dev.conn, Head(relay.toDev).keys[2]>>)>>
  <2>1. dev \in DevSet /\ r \in RelaySet(host.sent, hist.d2hTop)
    BY <1>1, <1>6, ReadOK DEF Inv, TypeOK, ReadAccept
  <2>2. \/ relay' = write(r, dev.conn, x)
        \/ relay' = unread(write(relay, dev.conn, header))
        \/ relay' = unread(relay)
    BY <1>6, <2>1 DEF ReadAccept, sendEncrypted, DevSet
  <2> HIDE DEF r, header, x
  <2>3. ViewSame(r, write(r, dev.conn, x)) /\ ViewSame(relay, unread(write(relay, dev.conn, header)))
    BY <1>1, <2>1, WriteSame
  <2> QED
    BY <1>3, <1>4, <2>2, <2>3 DEF ViewSame
<1>7. CASE ReadConfirm \/ Recv
  <2>1. relay' = unread(relay) \/ relay' = r
    BY <1>7, Zenon DEF ReadConfirm, Recv, Close
  <2> HIDE DEF r
  <2> QED
    BY <1>3, <1>4, <2>1
<1>8. CASE SendRPC
  <2>1. relay' = relay \/ \E f : relay' = write(relay, dev.conn, f)
    BY <1>8 DEF SendRPC, sendEncrypted
  <2> QED
    BY <1>1, <1>3, <2>1, WriteSame
<1> QED
  BY <1>5, <1>6, <1>7, <1>8

LEMMA NextView == ASSUME Inv, ViewInv, [Next]_vars PROVE ViewInv'
<1>1. CASE UNCHANGED vars
  BY <1>1 DEF vars, ViewInv
<1>2. ASSUME NEW c \in Conn, DeviceFrame(c) \/ DeviceDetach(c) PROVE ViewInv'
  BY <1>2, DeviceFrameView, DeviceDetachView
<1> QED
  BY <1>1, <1>2, HostReadView, EmitView, AttachView, OtherView DEF Next

\* setDevAttached (presence.go:108): unless a full queue dropped a TEXT message, the host, once it
\* has read what is queued for it, believes the channel attached exactly while the
\* relay has a connection of it, in whatever order connections come and go.
THEOREM HostViewAgrees == Spec => []HostViewConverges
<1>1. Init => ViewInv
  <2>1. ASSUME Init PROVE ViewInv
    <3>1. relay.toHost = <<>> /\ relay.conns = {} /\ relay.attached = FALSE /\ host.attached = FALSE
      BY <2>1 DEF Init
    <3>2. View(<<>>, host.attached) = host.attached
      BY DEF View
    <3> QED
      BY <3>1, <3>2 DEF ViewInv, ViewOf
  <2> QED
    BY <2>1
<1>2. Inv /\ ViewInv /\ [Next]_vars => ViewInv'
  BY NextView
<1>3. Inv /\ ViewInv => HostViewConverges
  <2>1. ASSUME Inv, ViewInv PROVE HostViewConverges
    <3>1. relay.attached \in BOOLEAN
      BY <2>1 DEF Inv, TypeOK, RelaySet
    <3>2. relay.attached = (relay.conns # {})
      BY <2>1, <3>1 DEF ViewInv, ViewOf
    <3> QED
      BY <2>1, <3>2 DEF ViewInv, ViewOf, View, HostViewConverges
  <2> QED
    BY <2>1
<1> QED
  BY <1>1, <1>2, <1>3, InvAlways, PTL DEF Spec
=============================================================================
