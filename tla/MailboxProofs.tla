--------------------------- MODULE MailboxProofs ---------------------------
(***************************************************************************)
(* Proofs about Mailbox, for any policy (TTL and caps), any body lengths   *)
(* and page limit and any numbers of writers and readers.                  *)
(***************************************************************************)
EXTENDS Mailbox, WellFoundedInduction, TLAPS

-----------------------------------------------------------------------------
(* Induction on numbers and loops *)

LEMMA NatMin == ASSUME NEW T, T \subseteq Nat, T # {} PROVE \E x \in T : \A y \in T : x <= y
<1>1. PICK x \in T : \A y \in T : ~(<<y, x>> \in OpToRel(<, Nat))
  BY WFMin, NatLessThanWellFounded
<1>2. \A y \in T : ~(y < x)
  BY <1>1 DEF OpToRel
<1> QED
  BY <1>2

\* A set that has 0 and, up to n, the successor of each of its members.
LEMMA UpTo ==
  ASSUME NEW n \in Nat, NEW T, 0 \in T, \A i \in 1..n : i - 1 \in T => i \in T
  PROVE  0..n \subseteq T
<1> DEFINE U == {i \in 0..n : i \notin T}
<1> SUFFICES ASSUME U # {} PROVE FALSE
  OBVIOUS
<1>1. PICK m \in U : \A y \in U : m <= y
  <2>1. U \subseteq Nat
    OBVIOUS
  <2> HIDE DEF U
  <2> QED
    BY <2>1, NatMin
<1>2. m \in 1..n /\ m - 1 \in 0..n /\ m - 1 \notin U
  BY <1>1
<1> QED
  BY <1>1, <1>2

LEMMA ZeroOrMore == ASSUME NEW n \in Nat PROVE \A i \in 0..n : i = 0 \/ i \in 1..n
OBVIOUS

\* f is the run of a loop that starts with x0 and takes n steps inside X.
IsRun(f, X, x0, step, n) ==
  f \in [0..n -> X] /\ f[0] = x0 /\ \A i \in 1..n : f[i] = step[i][f[i - 1]]

LEMMA Loop ==
  ASSUME NEW X, NEW x0 \in X, NEW step \in [Nat -> [X -> X]], NEW n \in Nat
  PROVE  \E f : IsRun(f, X, x0, step, n)
<1> DEFINE P(m) == \E f \in [0..m -> X] : f[0] = x0 /\ \A i \in 1..m : f[i] = step[i][f[i - 1]]
           T == {m \in Nat : P(m)}
<1>1. P(0)
  <2> DEFINE f == [i \in 0..0 |-> x0]
  <2>1. f \in [0..0 -> X] /\ f[0] = x0 /\ 1..0 = {}
    OBVIOUS
  <2> QED
    BY <2>1
<1>2. ASSUME NEW m \in 1..n, P(m - 1) PROVE P(m)
  <2>1. m \in Nat /\ m - 1 \in Nat
    OBVIOUS
  <2>2. PICK f \in [0..(m-1) -> X] : f[0] = x0 /\ \A i \in 1..(m-1) : f[i] = step[i][f[i - 1]]
    BY <1>2
  <2> DEFINE g == [i \in 0..m |-> IF i = m THEN step[m][f[m - 1]] ELSE f[i]]
  <2>3. g \in [0..m -> X]
    BY <2>1, <2>2
  <2>4. g[0] = x0
    BY <2>1, <2>2
  <2>5. ASSUME NEW i \in 1..m PROVE g[i] = step[i][g[i - 1]]
    <3>1. i \in 0..m /\ i - 1 \in 0..m /\ i - 1 # m
      BY <2>1
    <3>2. g[i - 1] = f[i - 1]
      BY <3>1
    <3>3. CASE i = m
      BY <3>1, <3>2, <3>3
    <3>4. CASE i # m
      <4>1. i \in 1..(m - 1) /\ g[i] = f[i]
        BY <2>1, <3>1, <3>4
      <4> QED
        BY <2>2, <3>2, <4>1
    <3> QED
      BY <3>3, <3>4
  <2> HIDE DEF g
  <2> QED
    BY <2>3, <2>4, <2>5
<1>3. 0..n \subseteq T
  <2> HIDE DEF P
  <2>1. 0 \in T /\ \A i \in 1..n : i - 1 \in T => i \in T
    BY <1>1, <1>2
  <2> HIDE DEF T
  <2> QED
    BY <2>1, UpTo
<1> QED
  BY <1>3 DEF IsRun

LEMMA MaxIs ==
  ASSUME NEW n \in Nat, NEW T, T \subseteq 0..n, T # {}
  PROVE  Max(T) \in T /\ \A y \in T : y <= Max(T)
<1> DEFINE U == {n - y : y \in T}
<1>1. U \subseteq Nat /\ U # {}
  <2>1. \A y \in T : y \in 0..n
    OBVIOUS
  <2>2. \A y \in 0..n : n - y \in Nat
    OBVIOUS
  <2> QED
    BY <2>1, <2>2
<1>2. PICK u \in U : \A v \in U : u <= v
  <2> HIDE DEF U
  <2> QED
    BY <1>1, NatMin
<1>3. PICK x \in T : u = n - x
  BY <1>2
<1>4. \A y \in T : x >= y
  <2> SUFFICES ASSUME NEW y \in T PROVE x >= y
    OBVIOUS
  <2>1. n - y \in U /\ x \in 0..n /\ y \in 0..n
    BY <1>3
  <2> HIDE DEF U
  <2> QED
    BY <1>2, <1>3, <2>1
<1>5. Max(T) \in T /\ \A y \in T : Max(T) >= y
  BY <1>4 DEF Max
<1>6. \A y \in T : y \in 0..n
  OBVIOUS
<1> QED
  BY <1>5, <1>6

LEMMA MinIs ==
  ASSUME NEW T, T \subseteq Nat, T # {}
  PROVE  Min(T) \in T
<1>1. PICK x \in T : \A y \in T : x <= y
  BY NatMin
<1> QED
  BY <1>1 DEF Min

-----------------------------------------------------------------------------
(* Byte totals *)

ItemSet == [seq : Nat, len : Nat, at : Nat]

LEMMA ItemFields ==
  ASSUME NEW s \in Seq(ItemSet), NEW i \in 1..Len(s)
  PROVE  s[i] \in ItemSet /\ s[i].seq \in Nat /\ s[i].len \in Nat /\ s[i].at \in Nat
<1>1. s[i] \in ItemSet
  OBVIOUS
<1> QED
  BY <1>1 DEF ItemSet

\* f runs through the partial sums of the bodies of s.
IsSum(f, s) ==
  f \in [0..Len(s) -> Int] /\ f[0] = 0 /\ \A i \in 1..Len(s) : f[i] = f[i - 1] + s[i].len

LEMMA BytesIs ==
  ASSUME NEW s \in Seq(ItemSet), NEW f, IsSum(f, s)
  PROVE  BodyBytes(s) = f[Len(s)]
<1> DEFINE n == Len(s)
           sum == CHOOSE g : g = [i \in 0..n |-> IF i = 0 THEN 0 ELSE g[i - 1] + s[i].len]
<1>0. n \in Nat
  OBVIOUS
<1>1. BodyBytes(s) = sum[n]
  BY DEF BodyBytes
<1>2. f = [i \in 0..n |-> IF i = 0 THEN 0 ELSE f[i - 1] + s[i].len]
  <2>1. \A i \in 0..n : i = 0 \/ i \in 1..n
    BY <1>0, ZeroOrMore
  <2>2. f \in [0..n -> Int] /\ f[0] = 0 /\ \A i \in 1..n : f[i] = f[i - 1] + s[i].len
    BY DEF IsSum
  <2> HIDE DEF n
  <2> QED
    BY <2>1, <2>2
<1>3. sum = [i \in 0..n |-> IF i = 0 THEN 0 ELSE sum[i - 1] + s[i].len]
  <2> HIDE DEF n
  <2> QED
    BY <1>2, Zenon
<1> HIDE DEF sum
<1>4. sum[0] = 0 /\ \A i \in 1..n : sum[i] = sum[i - 1] + s[i].len
  <2>1. 0 \in 0..n /\ \A i \in 1..n : i \in 0..n /\ i # 0
    BY <1>0
  <2> HIDE DEF n
  <2> QED
    BY <1>3, <2>1
<1> DEFINE T == {i \in 0..n : sum[i] = f[i]}
<1>5. 0 \in T
  BY <1>0, <1>4 DEF IsSum
<1>6. ASSUME NEW i \in 1..n, i - 1 \in T PROVE i \in T
  <2>1. i \in 0..n
    BY <1>0
  <2> HIDE DEF n
  <2> QED
    BY <1>4, <1>6, <2>1 DEF IsSum, n
<1>7. n \in T
  <2> HIDE DEF T, n
  <2>1. 0..n \subseteq T
    BY <1>0, <1>5, <1>6, UpTo
  <2> QED
    BY <1>0, <2>1
<1> QED
  BY <1>1, <1>7

LEMMA BytesRun ==
  ASSUME NEW s \in Seq(ItemSet)
  PROVE  \E f : IsSum(f, s) /\ BodyBytes(s) = f[Len(s)]
<1> DEFINE n == Len(s)
           step == [i \in Nat |-> [x \in Int |-> IF i \in 1..n THEN x + s[i].len ELSE x]]
<1>1. n \in Nat /\ 0 \in Int /\ \A i \in 1..n : s[i].len \in Int
  BY ItemFields
<1>2. step \in [Nat -> [Int -> Int]]
  <2> HIDE DEF n
  <2> QED
    BY <1>1
<1>3. PICK f : IsRun(f, Int, 0, step, n)
  <2> HIDE DEF n, step
  <2> QED
    BY <1>1, <1>2, Loop
<1>4. IsSum(f, s)
  <2> SUFFICES ASSUME NEW i \in 1..n PROVE f[i] = f[i - 1] + s[i].len
    BY <1>3 DEF IsSum, IsRun
  <2>1. i \in Nat /\ i - 1 \in 0..n
    BY <1>1
  <2>2. f[i - 1] \in Int /\ f[i] = step[i][f[i - 1]]
    <3> HIDE DEF step, n
    <3> QED
      BY <1>3, <2>1 DEF IsRun
  <2>3. step[i][f[i - 1]] = f[i - 1] + s[i].len
    <3> HIDE DEF n
    <3> QED
      BY <2>1, <2>2
  <2> QED
    BY <2>2, <2>3
<1> QED
  BY <1>4, BytesIs

LEMMA BytesInt == ASSUME NEW s \in Seq(ItemSet) PROVE BodyBytes(s) \in Int
<1>1. PICK f : IsSum(f, s) /\ BodyBytes(s) = f[Len(s)]
  BY BytesRun
<1>2. Len(s) \in 0..Len(s)
  OBVIOUS
<1> QED
  BY <1>1, <1>2 DEF IsSum

LEMMA BytesEmpty == BodyBytes(<<>>) = 0
<1> DEFINE s == <<>>
           f == [i \in 0..0 |-> 0]
<1>1. s \in Seq(ItemSet) /\ Len(s) = 0
  OBVIOUS
<1>2. IsSum(f, s)
  <2>1. 1..0 = {}
    OBVIOUS
  <2> QED
    BY <1>1, <2>1 DEF IsSum
<1>3. f[0] = 0
  OBVIOUS
<1> HIDE DEF s, f
<1>4. BodyBytes(s) = f[Len(s)]
  BY <1>1, <1>2, BytesIs
<1> QED
  BY <1>1, <1>3, <1>4 DEF s

LEMMA BytesAppend ==
  ASSUME NEW s \in Seq(ItemSet), NEW it \in ItemSet
  PROVE  BodyBytes(Append(s, it)) = BodyBytes(s) + it.len
<1> DEFINE n == Len(s)
           t == Append(s, it)
<1>1. PICK f : IsSum(f, s) /\ BodyBytes(s) = f[n]
  BY BytesRun
<1>2. /\ n \in Nat /\ t \in Seq(ItemSet) /\ Len(t) = n + 1 /\ t[n + 1] = it
      /\ \A i \in 1..n : t[i] = s[i]
  OBVIOUS
<1>3. f \in [0..n -> Int] /\ f[0] = 0 /\ \A i \in 1..n : f[i] = f[i - 1] + s[i].len
  BY <1>1 DEF IsSum
<1>4. it.len \in Int
  BY DEF ItemSet
<1> HIDE DEF n, t
<1> DEFINE g == [i \in 0..(n + 1) |-> IF i = n + 1 THEN f[n] + it.len ELSE f[i]]
<1>5. g \in [0..(n + 1) -> Int] /\ g[0] = 0 /\ g[n + 1] = f[n] + it.len /\ \A i \in 0..n : g[i] = f[i]
  BY <1>2, <1>3, <1>4
<1> HIDE DEF g
<1>6. ASSUME NEW i \in 1..(n + 1) PROVE g[i] = g[i - 1] + t[i].len
  <2>1. CASE i = n + 1
    BY <1>2, <1>5, <2>1
  <2>2. CASE i \in 1..n
    <3>1. i \in 0..n /\ i - 1 \in 0..n
      BY <1>2, <2>2
    <3> QED
      BY <1>2, <1>3, <1>5, <2>2, <3>1
  <2> QED
    BY <1>2, <2>1, <2>2
<1>7. IsSum(g, t)
  BY <1>2, <1>5, <1>6 DEF IsSum
<1>8. BodyBytes(t) = g[n + 1]
  BY <1>2, <1>7, BytesIs
<1> QED
  BY <1>1, <1>5, <1>8 DEF t, n

\* Dropping a prefix takes its bodies off the total.
LEMMA BytesSplit ==
  ASSUME NEW s \in Seq(ItemSet), NEW n \in 0..Len(s)
  PROVE  /\ SubSeq(s, 1, n) \in Seq(ItemSet) /\ SubSeq(s, n + 1, Len(s)) \in Seq(ItemSet)
         /\ BodyBytes(SubSeq(s, n + 1, Len(s))) = BodyBytes(s) - BodyBytes(SubSeq(s, 1, n))
<1> DEFINE l == Len(s)
           a == SubSeq(s, 1, n)
           b == SubSeq(s, n + 1, l)
<1>1. PICK f : IsSum(f, s) /\ BodyBytes(s) = f[l]
  BY BytesRun
<1>2. /\ l \in Nat /\ n \in Nat /\ n <= l
      /\ a \in Seq(ItemSet) /\ Len(a) = n /\ \A i \in 1..n : a[i] = s[i]
  OBVIOUS
<1>3. b \in Seq(ItemSet) /\ Len(b) = l - n /\ \A i \in 1..(l - n) : b[i] = s[n + i]
  OBVIOUS
<1>4. f \in [0..l -> Int] /\ f[0] = 0 /\ \A i \in 1..l : f[i] = f[i - 1] + s[i].len
  BY <1>1 DEF IsSum
<1>5. \A i \in 1..l : s[i].len \in Int
  BY ItemFields DEF l
<1> HIDE DEF l, a, b
<1> DEFINE g == [i \in 0..n |-> f[i]]
           h == [i \in 0..(l - n) |-> f[n + i] - f[n]]
<1>6. IsSum(g, a) /\ g[n] = f[n]
  <2>1. g \in [0..n -> Int] /\ g[0] = 0 /\ g[n] = f[n]
    BY <1>2, <1>4
  <2>2. ASSUME NEW i \in 1..n PROVE g[i] = g[i - 1] + a[i].len
    <3>1. i \in 1..l /\ i \in 0..n /\ i - 1 \in 0..n
      BY <1>2, <2>2
    <3>2. g[i] = f[i] /\ g[i - 1] = f[i - 1]
      BY <3>1
    <3> HIDE DEF g
    <3> QED
      BY <1>2, <1>4, <3>1, <3>2
  <2> HIDE DEF g
  <2> QED
    BY <1>2, <2>1, <2>2 DEF IsSum
<1>7. IsSum(h, b) /\ h[l - n] = f[l] - f[n]
  <2>1. h \in [0..(l - n) -> Int] /\ h[0] = 0 /\ h[l - n] = f[l] - f[n]
    BY <1>2, <1>4
  <2>2. ASSUME NEW i \in 1..(l - n) PROVE h[i] = h[i - 1] + b[i].len
    <3>1. n + i \in 1..l /\ i - 1 \in 0..(l - n) /\ i \in 0..(l - n) /\ n + (i - 1) = (n + i) - 1
      BY <1>2, <2>2
    <3>2. h[i] = f[n + i] - f[n] /\ h[i - 1] = f[(n + i) - 1] - f[n]
      BY <3>1
    <3>3. f[n + i] = f[(n + i) - 1] + s[n + i].len /\ b[i] = s[n + i]
      BY <1>3, <1>4, <3>1
    <3>4. f[n + i] \in Int /\ f[(n + i) - 1] \in Int /\ f[n] \in Int /\ s[n + i].len \in Int
      BY <1>2, <1>4, <1>5, <3>1
    <3>5. f[n + i] - f[n] = (f[(n + i) - 1] - f[n]) + s[n + i].len
      BY <3>3, <3>4
    <3> HIDE DEF h
    <3> QED
      BY <3>2, <3>3, <3>5
  <2> HIDE DEF h
  <2> QED
    BY <1>3, <2>1, <2>2 DEF IsSum
<1> HIDE DEF g, h
<1>8. BodyBytes(a) = f[n] /\ BodyBytes(b) = f[l] - f[n]
  BY <1>2, <1>3, <1>6, <1>7, BytesIs
<1> QED
  BY <1>1, <1>2, <1>3, <1>8 DEF a, b, l

-----------------------------------------------------------------------------
(* Pruning and eviction *)

Mbox == [items : Seq(ItemSet), bytes : Int]

\* t is s without its k oldest items.
IsSuffix(t, s, k) ==
  /\ k \in 0..Len(s)
  /\ Len(t) = Len(s) - k
  /\ \A i \in 1..Len(t) : t[i] = s[k + i]

LEMMA Dropped ==
  ASSUME NEW m \in Mbox, NEW n \in 0..Len(m.items)
  PROVE  /\ DropOldest(m, n) \in Mbox
         /\ IsSuffix(DropOldest(m, n).items, m.items, n)
         /\ m.bytes = BodyBytes(m.items) => DropOldest(m, n).bytes = BodyBytes(DropOldest(m, n).items)
<1> DEFINE s == m.items
           d == DropOldest(m, n)
<1>1. s \in Seq(ItemSet) /\ m.bytes \in Int
  BY DEF Mbox
<1>2. d.items = SubSeq(s, n + 1, Len(s)) /\ d.bytes = m.bytes - BodyBytes(SubSeq(s, 1, n))
  BY DEF DropOldest
<1>3. d = [items |-> d.items, bytes |-> d.bytes]
  BY DEF DropOldest
<1> HIDE DEF d, s
<1>4. n \in 0..Len(s)
  BY DEF s
<1>5. /\ SubSeq(s, 1, n) \in Seq(ItemSet) /\ SubSeq(s, n + 1, Len(s)) \in Seq(ItemSet)
      /\ BodyBytes(SubSeq(s, n + 1, Len(s))) = BodyBytes(s) - BodyBytes(SubSeq(s, 1, n))
  BY <1>1, <1>4, BytesSplit
<1>6. BodyBytes(SubSeq(s, 1, n)) \in Int
  BY <1>5, BytesInt
<1>7. d.items \in Seq(ItemSet) /\ d.bytes \in Int
  BY <1>1, <1>2, <1>5, <1>6
<1>8. d \in Mbox
  BY <1>3, <1>7 DEF Mbox
<1>9. IsSuffix(d.items, s, n)
  BY <1>1, <1>2, <1>4 DEF IsSuffix
<1> QED
  BY <1>2, <1>5, <1>8, <1>9 DEF d, s

\* Prune drops expired items only, and leaves an item that has not expired in
\* front, or none.
LEMMA Pruned ==
  ASSUME NEW m \in Mbox, NEW now \in Nat
  PROVE  \E n \in 0..Len(m.items) :
           /\ Prune(m, now) = DropOldest(m, n)
           /\ \A i \in 1..n : Expired(m.items[i], now)
           /\ n < Len(m.items) => ~Expired(m.items[n + 1], now)
<1> DEFINE l == Len(m.items)
           E(i) == Expired(m.items[i], now)
           T == {n \in 0..l : \A i \in 1..n : E(i)}
<1>1. l \in Nat
  BY DEF Mbox
<1>2. T \subseteq 0..l /\ Prune(m, now) = DropOldest(m, Max(T))
  BY DEF Prune
<1> HIDE DEF l, E
<1>3. 0 \in T
  BY <1>1
<1>4. Max(T) \in T /\ \A y \in T : y <= Max(T)
  <2> HIDE DEF T
  <2> QED
    BY <1>1, <1>2, <1>3, MaxIs
<1> DEFINE n == Max(T)
<1>5. n \in 0..l /\ \A i \in 1..n : E(i)
  <2> HIDE DEF n
  <2> SUFFICES n \in T
    OBVIOUS
  <2> QED
    BY <1>4 DEF n
<1>6. \A y \in T : y <= n
  BY <1>4
<1> HIDE DEF n
<1>7. ASSUME n < l, E(n + 1) PROVE FALSE
  <2>1. n + 1 \in 0..l /\ \A i \in 1..(n + 1) : i \in 1..n \/ i = n + 1
    BY <1>1, <1>5, <1>7
  <2>2. n + 1 \in T
    BY <1>5, <1>7, <2>1
  <2> HIDE DEF T
  <2> QED
    BY <1>1, <1>5, <1>6, <2>2
<1> QED
  BY <1>2, <1>5, <1>7 DEF n, l, E

\* Append leaves a suffix of what it was given with the new item, within both
\* caps and with the right byte total.
LEMMA Appended ==
  ASSUME NEW m \in Mbox, NEW it \in ItemSet, m.bytes = BodyBytes(m.items)
  PROVE  /\ AppendItem(m, it) \in Mbox
         /\ AppendItem(m, it).bytes = BodyBytes(AppendItem(m, it).items)
         /\ WithinCaps(AppendItem(m, it))
         /\ \E k : IsSuffix(AppendItem(m, it).items, Append(m.items, it), k)
<1> DEFINE p == Prune(m, it.at)
           g == [items |-> Append(p.items, it), bytes |-> p.bytes + it.len]
           T == {n \in 0..Len(g.items) : n = Len(g.items) \/ WithinCaps(DropOldest(g, n))}
<1>0. it.at \in Nat /\ it.len \in Nat
  BY DEF ItemSet
<1>1. PICK n \in 0..Len(m.items) : p = DropOldest(m, n)
  BY <1>0, Pruned
<1>2. p \in Mbox /\ IsSuffix(p.items, m.items, n) /\ p.bytes = BodyBytes(p.items)
  BY <1>1, Dropped
<1>3. AppendItem(m, it) = DropOldest(g, Min(T))
  BY DEF AppendItem
<1> HIDE DEF p
<1>4. p.items \in Seq(ItemSet) /\ p.bytes \in Int
  BY <1>2 DEF Mbox
<1>5. g.items = Append(p.items, it) /\ g.bytes = p.bytes + it.len
  OBVIOUS
<1>6. g \in Mbox
  BY <1>0, <1>4 DEF Mbox
<1> HIDE DEF g
<1>7. g.items \in Seq(ItemSet) /\ g.bytes = BodyBytes(g.items) /\ Len(g.items) = Len(p.items) + 1
  BY <1>0, <1>2, <1>4, <1>5, BytesAppend
<1>8. Len(g.items) \in T /\ T \subseteq Nat
  BY <1>7
<1>9. Min(T) \in T
  <2> HIDE DEF T
  <2> QED
    BY <1>8, MinIs
<1> DEFINE k == Min(T)
           r == DropOldest(g, k)
<1>10. k \in 0..Len(g.items) /\ (k = Len(g.items) \/ WithinCaps(r))
  BY <1>9
<1> HIDE DEF T, k
<1>11. r \in Mbox /\ IsSuffix(r.items, g.items, k) /\ r.bytes = BodyBytes(r.items)
  BY <1>6, <1>7, <1>10, Dropped
<1> HIDE DEF r
<1>12. WithinCaps(r)
  <2> SUFFICES ASSUME k = Len(g.items) PROVE WithinCaps(r)
    BY <1>10
  <2>1. r.items \in Seq(ItemSet) /\ Len(r.items) = 0
    BY <1>7, <1>11 DEF Mbox, IsSuffix
  <2>2. r.items = <<>>
    BY <2>1
  <2>3. r.bytes = 0
    BY <1>11, <2>2, BytesEmpty
  <2> QED
    BY <2>1, <2>3, PolicyAssumption DEF WithinCaps
<1>13. IsSuffix(r.items, Append(m.items, it), n + k)
  <2> DEFINE a == Append(m.items, it)
             b == Append(p.items, it)
  <2>1. m.items \in Seq(ItemSet)
    BY DEF Mbox
  <2>2. /\ n \in Nat /\ Len(m.items) \in Nat /\ n <= Len(m.items)
        /\ Len(p.items) = Len(m.items) - n /\ \A i \in 1..Len(p.items) : p.items[i] = m.items[n + i]
    BY <1>2, <2>1 DEF IsSuffix
  <2>3. /\ Len(a) = Len(m.items) + 1 /\ a[Len(m.items) + 1] = it
        /\ \A i \in 1..Len(m.items) : a[i] = m.items[i]
    BY <2>1
  <2>4. /\ Len(b) = Len(p.items) + 1 /\ b[Len(p.items) + 1] = it
        /\ \A i \in 1..Len(p.items) : b[i] = p.items[i]
    BY <1>4
  <2>5. k \in 0..Len(b) /\ Len(r.items) = Len(b) - k /\ \A i \in 1..Len(r.items) : r.items[i] = b[k + i]
    BY <1>5, <1>11 DEF IsSuffix
  <2> HIDE DEF a, b
  <2>6. \A i \in 1..Len(b) : b[i] = a[n + i]
    <3> SUFFICES ASSUME NEW i \in 1..Len(b) PROVE b[i] = a[n + i]
      OBVIOUS
    <3>1. CASE i = Len(p.items) + 1
      <4>1. n + i = Len(m.items) + 1
        BY <2>2, <3>1
      <4> QED
        BY <2>3, <2>4, <3>1, <4>1
    <3>2. CASE i \in 1..Len(p.items)
      <4>1. n + i \in 1..Len(m.items)
        BY <2>2, <3>2
      <4> QED
        BY <2>2, <2>3, <2>4, <3>2, <4>1
    <3> QED
      BY <2>2, <2>4, <3>1, <3>2
  <2>7. n + k \in 0..Len(a) /\ Len(r.items) = Len(a) - (n + k)
    BY <2>2, <2>3, <2>4, <2>5
  <2>8. \A i \in 1..Len(r.items) : r.items[i] = a[(n + k) + i]
    <3> SUFFICES ASSUME NEW i \in 1..Len(r.items) PROVE r.items[i] = a[(n + k) + i]
      OBVIOUS
    <3>1. Len(b) \in Nat /\ k \in Nat /\ i \in Nat /\ 1 <= i /\ i <= Len(b) - k
      BY <2>2, <2>4, <2>5
    <3>2. k + i \in 1..Len(b) /\ n + (k + i) = (n + k) + i
      BY <2>2, <3>1
    <3> QED
      BY <2>5, <2>6, <3>2
  <2> QED
    BY <2>7, <2>8 DEF IsSuffix, a
<1> QED
  BY <1>3, <1>11, <1>12, <1>13 DEF r, k

-----------------------------------------------------------------------------
(* A page *)

PageSet == [items : Seq(ItemSet), next : Nat, truncated : BOOLEAN]

\* The three outcomes q of a round of fetch's loop on page and it.
Round(q, page, it, after) ==
  \/ (page.truncated \/ it.seq <= after) /\ q = page
  \/ ~page.truncated /\ q.items = page.items /\ q.next = page.next /\ q.truncated
  \/ /\ ~page.truncated /\ it.seq > after
     /\ q.items = Append(page.items, it) /\ q.next = it.seq /\ ~q.truncated

LEMMA Fetched ==
  ASSUME NEW page \in PageSet, NEW it \in ItemSet, NEW after \in Nat, NEW limit \in Nat
  PROVE  /\ FetchItem(page, it, after, limit) \in PageSet
         /\ Round(FetchItem(page, it, after, limit), page, it, after)
<1> DEFINE q == FetchItem(page, it, after, limit)
<1>0. it.seq \in Nat
  BY DEF ItemSet
<1>1. page.items \in Seq(ItemSet) /\ page.next \in Nat /\ page.truncated \in BOOLEAN
  BY DEF PageSet
<1>2. CASE page.truncated \/ it.seq <= after
  BY <1>2 DEF FetchItem, Round
<1>3. CASE ~(page.truncated \/ it.seq <= after) /\ Len(page.items) >= limit
  <2>1. q = [page EXCEPT !.truncated = TRUE]
    BY <1>3 DEF FetchItem
  <2> HIDE DEF q
  <2>2. q.items = page.items /\ q.next = page.next /\ q.truncated = TRUE /\ q \in PageSet
    BY <2>1 DEF PageSet
  <2> QED
    BY <1>3, <2>2 DEF q, Round
<1>4. CASE ~(page.truncated \/ it.seq <= after) /\ ~(Len(page.items) >= limit)
  <2>1. q = [page EXCEPT !.items = Append(@, it), !.next = it.seq]
    BY <1>4 DEF FetchItem
  <2>2. Append(page.items, it) \in Seq(ItemSet)
    BY <1>1
  <2> HIDE DEF q
  <2>3. q.items = Append(page.items, it) /\ q.next = it.seq /\ q.truncated = page.truncated
    BY <2>1 DEF PageSet
  <2> DEFINE a == Append(page.items, it)
  <2>4. q = [page EXCEPT !.items = a, !.next = it.seq] /\ a \in Seq(ItemSet)
    BY <2>1, <2>2
  <2> HIDE DEF a
  <2>5. q \in PageSet
    BY <1>0, <2>4 DEF PageSet
  <2>6. it.seq > after
    BY <1>0, <1>4
  <2> QED
    BY <1>4, <2>3, <2>5, <2>6 DEF q, Round
<1> QED
  BY <1>2, <1>3, <1>4

\* What a page holds comes from the mailbox and is above the cursor.  Up to the
\* item the new cursor comes from it holds everything above the old one, and all of
\* it when it is not truncated.
PageOf(page, s, i, after) ==
  /\ page \in PageSet
  /\ \A k \in 1..Len(page.items) : \E j \in 1..i : page.items[k] = s[j]
  /\ ~page.truncated => \A j \in 1..i : s[j].seq > after => \E k \in 1..Len(page.items) : page.items[k] = s[j]
  /\ \/ page.next = after
     \/ \E c \in 1..i :
          /\ s[c].seq = page.next
          /\ \E k \in 1..Len(page.items) : page.items[k] = s[c]
          /\ \A j \in 1..c : s[j].seq > after => \E k \in 1..Len(page.items) : page.items[k] = s[j]

LEMMA PageRound ==
  ASSUME NEW s \in Seq(ItemSet), NEW i \in 1..Len(s), NEW after \in Nat, NEW limit \in Nat,
         NEW page, PageOf(page, s, i - 1, after)
  PROVE  PageOf(FetchItem(page, s[i], after, limit), s, i, after)
<1> DEFINE q == FetchItem(page, s[i], after, limit)
           Has(p, j) == \E k \in 1..Len(p.items) : p.items[k] = s[j]
           Cursor(p, n) == \E c \in 1..n : /\ s[c].seq = p.next /\ Has(p, c)
                                           /\ \A j \in 1..c : s[j].seq > after => Has(p, j)
<1>1. page \in PageSet /\ page.items \in Seq(ItemSet)
  BY DEF PageOf, PageSet
<1>2. s[i] \in ItemSet /\ i \in Nat /\ i - 1 \in Nat /\ \A j \in 1..i : j \in 1..(i - 1) \/ j = i
  BY ItemFields
<1>3. \A j \in 1..(i - 1) : j \in 1..i
  BY <1>2
<1>4. /\ \A k \in 1..Len(page.items) : \E j \in 1..(i - 1) : page.items[k] = s[j]
      /\ ~page.truncated => \A j \in 1..(i - 1) : s[j].seq > after => Has(page, j)
      /\ page.next = after \/ Cursor(page, i - 1)
  BY DEF PageOf
<1>5. q \in PageSet /\ Round(q, page, s[i], after)
  BY <1>1, <1>2, Fetched
<1> HIDE DEF q
<1> SUFFICES /\ \A k \in 1..Len(q.items) : \E j \in 1..i : q.items[k] = s[j]
             /\ ~q.truncated => \A j \in 1..i : s[j].seq > after => Has(q, j)
             /\ q.next = after \/ Cursor(q, i)
  BY <1>5 DEF PageOf, q
<1>6. CASE /\ q.items = page.items /\ q.next = page.next
           /\ q.truncated \/ (~page.truncated /\ s[i].seq <= after)
  <2>1. \A k \in 1..Len(q.items) : \E j \in 1..i : q.items[k] = s[j]
    BY <1>3, <1>4, <1>6
  <2>2. q.next = after \/ Cursor(q, i)
    <3>1. \A j : Has(q, j) <=> Has(page, j)
      BY <1>6
    <3> SUFFICES ASSUME Cursor(page, i - 1) PROVE Cursor(q, i)
      BY <1>4, <1>6
    <3> HIDE DEF Has
    <3>2. PICK c \in 1..(i - 1) : /\ s[c].seq = page.next /\ Has(page, c)
                                  /\ \A j \in 1..c : s[j].seq > after => Has(page, j)
      OBVIOUS
    <3>3. c \in 1..i
      BY <1>3
    <3> QED
      BY <1>6, <3>1, <3>2, <3>3
  <2>3. ASSUME ~q.truncated, NEW j \in 1..i, s[j].seq > after PROVE Has(q, j)
    <3>1. j # i
      BY <1>2, <1>6, <2>3, ItemFields
    <3> QED
      BY <1>2, <1>4, <1>6, <2>3, <3>1
  <2> QED
    BY <2>1, <2>2, <2>3
<1>7. CASE /\ ~page.truncated /\ s[i].seq > after
           /\ q.items = Append(page.items, s[i]) /\ q.next = s[i].seq /\ ~q.truncated
  <2>1. /\ Len(q.items) = Len(page.items) + 1 /\ q.items[Len(q.items)] = s[i]
        /\ \A k \in 1..Len(page.items) : q.items[k] = page.items[k]
    BY <1>1, <1>2, <1>7
  <2>2. /\ Len(page.items) \in Nat
        /\ \A k \in 1..Len(page.items) : k \in 1..Len(q.items)
        /\ Len(q.items) \in 1..Len(q.items)
        /\ \A k \in 1..Len(q.items) : k \in 1..Len(page.items) \/ k = Len(q.items)
    <3>1. Len(page.items) \in Nat
      BY <1>1
    <3> DEFINE n == Len(page.items)
    <3> HIDE DEF n
    <3>2. n \in Nat /\ Len(q.items) = n + 1
      BY <2>1, <3>1 DEF n
    <3>3. /\ \A k \in 1..n : k \in 1..(n + 1)
          /\ n + 1 \in 1..(n + 1)
          /\ \A k \in 1..(n + 1) : k \in 1..n \/ k = n + 1
      BY <3>2
    <3> QED
      BY <3>2, <3>3 DEF n
  <2>3. Has(q, i) /\ \A j \in 1..(i - 1) : Has(page, j) => Has(q, j)
    BY <2>1, <2>2
  <2>4. \A j \in 1..i : s[j].seq > after => Has(q, j)
    BY <1>2, <1>4, <1>7, <2>3
  <2>5. ASSUME NEW k \in 1..Len(q.items) PROVE \E j \in 1..i : q.items[k] = s[j]
    <3>1. CASE k \in 1..Len(page.items)
      <4>1. PICK j \in 1..(i - 1) : page.items[k] = s[j]
        BY <1>4, <3>1
      <4> QED
        BY <1>3, <2>1, <3>1, <4>1
    <3>2. CASE k = Len(q.items)
      BY <1>2, <2>1, <3>2
    <3> QED
      BY <2>2, <3>1, <3>2
  <2>6. Cursor(q, i)
    <3>1. i \in 1..i
      BY <1>2
    <3> HIDE DEF Has
    <3> QED
      BY <1>7, <2>3, <2>4, <3>1
  <2> QED
    BY <2>4, <2>5, <2>6
<1> QED
  BY <1>5, <1>6, <1>7 DEF Round

LEMMA PageFacts ==
  ASSUME NEW m \in Mbox, NEW after \in Nat, NEW limit \in Nat
  PROVE  PageOf(Page(m, after, limit), m.items, Len(m.items), after)
<1> DEFINE s == m.items
           n == Len(s)
           x0 == [items |-> <<>>, next |-> after, truncated |-> FALSE]
           body(i, x) == FetchItem(x, s[i], after, limit)
           step == [i \in Nat |-> [x \in PageSet |-> IF i \in 1..n THEN body(i, x) ELSE x]]
           page == CHOOSE f : f = [i \in 0..n |-> IF i = 0 THEN x0 ELSE body(i, f[i - 1])]
<1>0. s \in Seq(ItemSet) /\ n \in Nat
  BY DEF Mbox
<1>1. Page(m, after, limit) = page[n]
  BY DEF Page
<1>2. x0 \in PageSet
  <2>1. <<>> \in Seq(ItemSet)
    OBVIOUS
  <2> QED
    BY <2>1 DEF PageSet
<1>3. \A i \in 1..n : \A x \in PageSet : body(i, x) \in PageSet
  <2> SUFFICES ASSUME NEW i \in 1..n, NEW x \in PageSet PROVE FetchItem(x, s[i], after, limit) \in PageSet
    OBVIOUS
  <2>1. s[i] \in ItemSet
    BY <1>0, ItemFields
  <2> HIDE DEF s
  <2> QED
    BY <2>1, Fetched
<1>4. step \in [Nat -> [PageSet -> PageSet]]
  <2> HIDE DEF body, n
  <2> QED
    BY <1>3
<1>5. PICK f : IsRun(f, PageSet, x0, step, n)
  <2> HIDE DEF x0, step, n
  <2> QED
    BY <1>0, <1>2, <1>4, Loop
<1>6. ASSUME NEW i \in 1..n PROVE f[i] = body(i, f[i - 1])
  <2>1. i \in Nat /\ i - 1 \in 0..n
    BY <1>0
  <2>2. f[i - 1] \in PageSet /\ f[i] = step[i][f[i - 1]]
    <3> HIDE DEF step, n
    <3> QED
      BY <1>5, <2>1 DEF IsRun
  <2>3. step[i][f[i - 1]] = body(i, f[i - 1])
    <3> HIDE DEF body, n
    <3> QED
      BY <2>1, <2>2
  <2> QED
    BY <2>2, <2>3
<1>7. f = [i \in 0..n |-> IF i = 0 THEN x0 ELSE body(i, f[i - 1])]
  <2> HIDE DEF body, step, x0
  <2>1. \A i \in 0..n : i = 0 \/ i \in 1..n
    BY <1>0, ZeroOrMore
  <2> HIDE DEF n
  <2> QED
    BY <1>5, <1>6, <2>1 DEF IsRun
<1>8. page = [i \in 0..n |-> IF i = 0 THEN x0 ELSE body(i, page[i - 1])]
  <2> HIDE DEF n, body, x0
  <2> QED
    BY <1>7, Zenon
<1> HIDE DEF page
<1>9. page[0] = x0 /\ \A i \in 1..n : page[i] = body(i, page[i - 1])
  <2>1. 0 \in 0..n /\ \A i \in 1..n : i \in 0..n /\ i # 0
    BY <1>0
  <2> HIDE DEF n, body, x0
  <2> QED
    BY <1>8, <2>1
<1> DEFINE T == {i \in 0..n : PageOf(page[i], s, i, after)}
<1>10. 0 \in T
  <2>1. PageOf(x0, s, 0, after)
    <3>1. x0.items = <<>> /\ x0.next = after /\ 1..0 = {} /\ Len(x0.items) = 0
      OBVIOUS
    <3> HIDE DEF x0, s
    <3> QED
      BY <1>2, <3>1 DEF PageOf
  <2> HIDE DEF n, x0, s
  <2> QED
    BY <1>0, <1>9, <2>1
<1>11. ASSUME NEW i \in 1..n, i - 1 \in T PROVE i \in T
  <2>1. i \in 0..n
    BY <1>0
  <2>2. PageOf(page[i - 1], s, i - 1, after)
    BY <1>11
  <2> HIDE DEF s
  <2>3. PageOf(FetchItem(page[i - 1], s[i], after, limit), s, i, after)
    BY <1>0, <2>2, PageRound
  <2> QED
    BY <1>9, <2>1, <2>3
<1>12. n \in T
  <2> HIDE DEF T, n
  <2>1. 0..n \subseteq T
    BY <1>0, <1>10, <1>11, UpTo
  <2> QED
    BY <1>0, <2>1
<1> QED
  BY <1>1, <1>12

-----------------------------------------------------------------------------
(* The invariant *)

ClientSet ==
  [pc : {"idle", "request", "fetch", "drained"}, after : Nat, now : Nat,
   page : Seq(ItemSet), got : SUBSET Nat, owed : SUBSET Nat]

\* The types; no reader's clock reading is ahead of the clock.
TypeInv ==
  /\ mbox \in Mbox
  /\ clock \in Nat
  /\ sent \subseteq Nat
  /\ writing \in [Writer -> SUBSET ItemSet]
  /\ reading \in [Reader -> ClientSet]
  /\ \A r \in Reader : reading[r].now <= clock

Distinct(s) == \A i, j \in 1..Len(s) : s[i].seq = s[j].seq => i = j

\* No two frames in the mailbox share a seq, nor does one that is still to be
\* appended with a frame of the mailbox, with another one to be appended or with
\* anything a client is owed.
SeqsApart ==
  /\ Distinct(mbox.items)
  /\ \A i \in 1..Len(mbox.items) : mbox.items[i].seq \in sent
  /\ \A r \in Reader : reading[r].owed \subseteq sent
  /\ \A w \in Writer : \A it \in writing[w] :
       /\ it.seq \in sent
       /\ \A i \in 1..Len(mbox.items) : mbox.items[i].seq # it.seq
       /\ \A r \in Reader : it.seq \notin reading[r].owed
       /\ \A v \in Writer : \A x \in writing[v] : x.seq = it.seq => v = w

\* What client c is owed of mailbox s has nothing higher in front of it, and what
\* c's cursor has passed, or all of it once c is done, c has got.
Served(c, s) ==
  /\ \A i, j \in 1..Len(s) : i < j /\ s[j].seq \in c.owed => s[i].seq <= s[j].seq
  /\ \A j \in 1..Len(s) :
       s[j].seq \in c.owed /\ (c.pc = "drained" \/ s[j].seq <= c.after) => s[j].seq \in c.got

\* Unless a frame was overtaken, nothing in front of it was stored later.
OldestFirst(s, over) ==
  \A i, j \in 1..Len(s) : i < j /\ s[j].seq \notin over => s[i].at <= s[j].at

\* NoExpiredPage for one client.
FreshPage(c, over) ==
  \A k \in 1..Len(c.page) : Expired(c.page[k], c.now) => c.page[k].seq \in over

Inv ==
  /\ TypeInv
  /\ CapsAndAccounting
  /\ SeqsApart
  /\ \A r \in Reader : Served(reading[r], mbox.items)
  /\ OldestFirst(mbox.items, overtaken)
  /\ \A r \in Reader : FreshPage(reading[r], overtaken)

LEMMA RangeOf == ASSUME NEW S, NEW s \in Seq(S) PROVE Range(s) = {s[i] : i \in 1..Len(s)}
<1>1. DOMAIN s = 1..Len(s)
  OBVIOUS
<1> QED
  BY <1>1, Zenon DEF Range

\* All of this outlives the loss of the oldest items.
LEMMA SuffixKeeps ==
  ASSUME NEW s \in Seq(ItemSet), NEW t \in Seq(ItemSet), NEW k, IsSuffix(t, s, k)
  PROVE  /\ \A i \in 1..Len(t) : \E j \in 1..Len(s) : t[i] = s[j]
         /\ Distinct(s) => Distinct(t)
         /\ \A c : Served(c, s) => Served(c, t)
         /\ \A over : OldestFirst(s, over) => OldestFirst(t, over)
<1>1. /\ k \in Nat /\ Len(s) \in Nat /\ Len(t) \in Nat /\ Len(t) = Len(s) - k
      /\ \A i \in 1..Len(t) : t[i] = s[k + i]
  BY DEF IsSuffix
<1>2. \A i \in 1..Len(t) : k + i \in 1..Len(s) /\ t[i] = s[k + i]
  BY <1>1
<1>3. \A i, j \in 1..Len(t) : (k + i = k + j => i = j) /\ (i < j => k + i < k + j)
  BY <1>1
<1>4. \A i \in 1..Len(t) : \E j \in 1..Len(s) : t[i] = s[j]
  BY <1>2
<1>5. Distinct(s) => Distinct(t)
  BY <1>2, <1>3 DEF Distinct
<1>6. ASSUME NEW c, Served(c, s) PROVE Served(c, t)
  <2>1. \A i, j \in 1..Len(t) : i < j /\ t[j].seq \in c.owed => t[i].seq <= t[j].seq
    BY <1>2, <1>3, <1>6 DEF Served
  <2>2. \A j \in 1..Len(t) :
          t[j].seq \in c.owed /\ (c.pc = "drained" \/ t[j].seq <= c.after) => t[j].seq \in c.got
    BY <1>2, <1>6 DEF Served
  <2> QED
    BY <2>1, <2>2 DEF Served
<1>7. ASSUME NEW over, OldestFirst(s, over) PROVE OldestFirst(t, over)
  BY <1>2, <1>3, <1>7 DEF OldestFirst
<1> QED
  BY <1>4, <1>5, <1>6, <1>7

\* And an append of a frame nobody has seen.
LEMMA AppendKeeps ==
  ASSUME NEW s \in Seq(ItemSet), NEW it \in ItemSet
  PROVE  /\ Append(s, it) \in Seq(ItemSet)
         /\ \A i \in 1..Len(Append(s, it)) :
              Append(s, it)[i] = it \/ \E j \in 1..Len(s) : Append(s, it)[i] = s[j]
         /\ Distinct(s) /\ (\A i \in 1..Len(s) : s[i].seq # it.seq) => Distinct(Append(s, it))
         /\ \A c : Served(c, s) /\ it.seq \notin c.owed => Served(c, Append(s, it))
         /\ \A over : OldestFirst(s, over) /\ (it.seq \in over \/ \A i \in 1..Len(s) : s[i].at <= it.at)
                        => OldestFirst(Append(s, it), over)
<1> DEFINE t == Append(s, it)
           n == Len(s)
<1>1. /\ n \in Nat /\ t \in Seq(ItemSet) /\ Len(t) = n + 1 /\ t[n + 1] = it
      /\ \A i \in 1..n : t[i] = s[i]
  OBVIOUS
<1> HIDE DEF t, n
<1>2. \A i \in 1..(n + 1) : i = n + 1 \/ i \in 1..n
  BY <1>1
<1>3. \A i, j \in 1..(n + 1) : i < j => i \in 1..n
  BY <1>1
<1>4. \A i \in 1..Len(t) : t[i] = it \/ \E j \in 1..n : t[i] = s[j]
  BY <1>1, <1>2
<1>5. ASSUME Distinct(s), \A i \in 1..n : s[i].seq # it.seq PROVE Distinct(t)
  <2>1. \A i, j \in 1..n : s[i].seq = s[j].seq => i = j
    BY <1>5 DEF Distinct, n
  <2> QED
    BY <1>1, <1>2, <1>5, <2>1 DEF Distinct
<1>6. ASSUME NEW c, Served(c, s), it.seq \notin c.owed PROVE Served(c, t)
  <2>1. /\ \A i, j \in 1..n : i < j /\ s[j].seq \in c.owed => s[i].seq <= s[j].seq
        /\ \A j \in 1..n :
             s[j].seq \in c.owed /\ (c.pc = "drained" \/ s[j].seq <= c.after) => s[j].seq \in c.got
    BY <1>6 DEF Served, n
  <2>2. \A i, j \in 1..(n + 1) : i < j /\ t[j].seq \in c.owed => t[i].seq <= t[j].seq
    BY <1>1, <1>2, <1>3, <1>6, <2>1
  <2>3. \A j \in 1..(n + 1) :
          t[j].seq \in c.owed /\ (c.pc = "drained" \/ t[j].seq <= c.after) => t[j].seq \in c.got
    BY <1>1, <1>2, <1>6, <2>1
  <2> QED
    BY <1>1, <2>2, <2>3 DEF Served
<1>7. ASSUME NEW over, OldestFirst(s, over), it.seq \in over \/ \A i \in 1..n : s[i].at <= it.at
      PROVE  OldestFirst(t, over)
  <2>1. \A i, j \in 1..n : i < j /\ s[j].seq \notin over => s[i].at <= s[j].at
    BY <1>7 DEF OldestFirst, n
  <2>2. ASSUME NEW i \in 1..(n + 1), NEW j \in 1..(n + 1), i < j, t[j].seq \notin over
        PROVE  t[i].at <= t[j].at
    <3>1. i \in 1..n /\ t[i] = s[i]
      BY <1>1, <1>3, <2>2
    <3>2. CASE j = n + 1
      BY <1>1, <1>7, <2>2, <3>1, <3>2
    <3>3. CASE j \in 1..n
      BY <1>1, <2>1, <2>2, <3>1, <3>3
    <3> QED
      BY <1>2, <3>2, <3>3
  <2> QED
    BY <1>1, <2>2 DEF OldestFirst
<1> QED
  BY <1>1, <1>4, <1>5, <1>6, <1>7 DEF t, n


-----------------------------------------------------------------------------
(* Each action keeps it *)

LEMMA BytesNat == ASSUME NEW s \in Seq(ItemSet) PROVE BodyBytes(s) >= 0
<1> DEFINE n == Len(s)
<1>1. PICK f : IsSum(f, s) /\ BodyBytes(s) = f[n]
  BY BytesRun
<1> DEFINE T == {i \in 0..n : f[i] >= 0}
<1>2. n \in Nat
  OBVIOUS
<1>3. 0 \in T
  BY <1>1, <1>2 DEF IsSum
<1>4. ASSUME NEW i \in 1..n, i - 1 \in T PROVE i \in T
  <2>1. i \in 0..n /\ i - 1 \in 0..n /\ f[i - 1] >= 0
    BY <1>2, <1>4
  <2>2. f[i] = f[i - 1] + s[i].len /\ f[i - 1] \in Int
    BY <1>1, <2>1 DEF IsSum
  <2>3. s[i].len \in Nat
    BY ItemFields
  <2> QED
    BY <2>1, <2>2, <2>3
<1>5. n \in T
  <2> HIDE DEF T, n
  <2>1. 0..n \subseteq T
    BY <1>2, <1>3, <1>4, UpTo
  <2> QED
    BY <1>2, <2>1
<1> QED
  BY <1>1, <1>5

\* Dropping items keeps a mailbox within its caps.
LEMMA DropWithinCaps ==
  ASSUME NEW m \in Mbox, WithinCaps(m), NEW n \in 0..Len(m.items)
  PROVE  WithinCaps(DropOldest(m, n))
<1> DEFINE d == DropOldest(m, n)
           b == BodyBytes(SubSeq(m.items, 1, n))
<1>1. m.items \in Seq(ItemSet) /\ m.bytes \in Int
  BY DEF Mbox
<1>2. SubSeq(m.items, 1, n) \in Seq(ItemSet)
  BY <1>1, BytesSplit
<1>3. b \in Int /\ b >= 0
  BY <1>2, BytesNat, BytesInt
<1>4. d.bytes = m.bytes - b
  BY DEF DropOldest
<1>5. IsSuffix(d.items, m.items, n)
  BY Dropped
<1> HIDE DEF d, b
<1>6. Len(m.items) \in Nat /\ Len(d.items) <= Len(m.items)
  BY <1>1, <1>5 DEF IsSuffix
<1>7. Len(d.items) \in Int
  BY <1>1, <1>5 DEF IsSuffix
<1> QED
  BY <1>1, <1>3, <1>4, <1>6, <1>7, PolicyAssumption DEF WithinCaps, d

LEMMA InitInv == Init => Inv
<1> SUFFICES ASSUME Init PROVE Inv
  OBVIOUS
<1>1. mbox.items = <<>> /\ mbox.bytes = 0 /\ mbox = [items |-> <<>>, bytes |-> 0]
  BY DEF Init, EmptyMailbox
<1>2. <<>> \in Seq(ItemSet) /\ Len(<<>>) = 0 /\ 1..0 = {}
  OBVIOUS
<1>3. mbox \in Mbox
  BY <1>1, <1>2 DEF Mbox
<1>4. NotReading \in ClientSet
  BY <1>2 DEF NotReading, ClientSet
<1>5. NotReading.now = 0 /\ NotReading.owed = {} /\ NotReading.page = <<>>
  BY DEF NotReading
<1>6. \A r \in Reader : reading[r] = NotReading
  BY DEF Init
<1>7. TypeInv
  <2>1. reading \in [Reader -> ClientSet]
    BY <1>4 DEF Init
  <2>2. clock \in Nat /\ sent \subseteq Nat /\ writing \in [Writer -> SUBSET ItemSet]
    BY DEF Init
  <2>3. \A r \in Reader : reading[r].now <= clock
    BY <1>5, <1>6 DEF Init
  <2> QED
    BY <1>3, <2>1, <2>2, <2>3 DEF TypeInv
<1>8. CapsAndAccounting
  BY <1>1, <1>2, BytesEmpty, PolicyAssumption DEF CapsAndAccounting, WithinCaps
<1>9. SeqsApart
  <2>1. \A w \in Writer : writing[w] = {}
    BY DEF Init
  <2>2. Len(mbox.items) = 0
    BY <1>1, <1>2
  <2> QED
    BY <1>2, <1>5, <1>6, <2>1, <2>2 DEF SeqsApart, Distinct
<1>10. \A r \in Reader : Served(reading[r], mbox.items)
  BY <1>1, <1>2 DEF Served
<1>11. OldestFirst(mbox.items, overtaken)
  BY <1>1, <1>2 DEF OldestFirst
<1>12. \A r \in Reader : FreshPage(reading[r], overtaken)
  BY <1>2, <1>5, <1>6 DEF FreshPage
<1> QED
  BY <1>7, <1>8, <1>9, <1>10, <1>11, <1>12 DEF Inv

\* A step of reader r: its record becomes c and the mailbox loses its k oldest.
LEMMA ReaderStep ==
  ASSUME Inv, NEW r \in Reader, NEW c \in ClientSet, NEW k,
         reading' = [reading EXCEPT ![r] = c],
         UNCHANGED <<clock, sent, writing, overtaken>>,
         mbox' \in Mbox, CapsAndAccounting', IsSuffix(mbox'.items, mbox.items, k),
         c.now <= clock, c.owed \subseteq sent,
         \A w \in Writer : \A it \in writing[w] : it.seq \notin c.owed,
         Served(c, mbox'.items), FreshPage(c, overtaken)
  PROVE  Inv'
<1> DEFINE s == mbox.items
           t == mbox'.items
<1>1. s \in Seq(ItemSet) /\ t \in Seq(ItemSet)
  BY DEF Inv, TypeInv, Mbox
<1>2. reading \in [Reader -> ClientSet]
  BY DEF Inv, TypeInv
<1>3. \A q \in Reader : reading'[q] = IF q = r THEN c ELSE reading[q]
  BY <1>2
<1>4. IsSuffix(t, s, k) /\ Served(c, t)
  OBVIOUS
<1>5. /\ SeqsApart /\ OldestFirst(s, overtaken)
      /\ \A q \in Reader : Served(reading[q], s) /\ FreshPage(reading[q], overtaken)
  BY DEF Inv
<1>6. TypeInv'
  <2>1. reading' \in [Reader -> ClientSet]
    BY <1>2
  <2>2. \A q \in Reader : reading'[q].now <= clock
    BY <1>3 DEF Inv, TypeInv
  <2> QED
    BY <2>1, <2>2 DEF Inv, TypeInv
<1> HIDE DEF s, t
<1>7. /\ \A i \in 1..Len(t) : \E j \in 1..Len(s) : t[i] = s[j]
      /\ Distinct(s) => Distinct(t)
      /\ \A d : Served(d, s) => Served(d, t)
      /\ \A over : OldestFirst(s, over) => OldestFirst(t, over)
  BY <1>1, <1>4, SuffixKeeps
<1>8. SeqsApart'
  <2>1. /\ Distinct(s) /\ \A i \in 1..Len(s) : s[i].seq \in sent
        /\ \A q \in Reader : reading[q].owed \subseteq sent
        /\ \A w \in Writer : \A it \in writing[w] :
             /\ it.seq \in sent /\ \A i \in 1..Len(s) : s[i].seq # it.seq
             /\ \A q \in Reader : it.seq \notin reading[q].owed
             /\ \A v \in Writer : \A x \in writing[v] : x.seq = it.seq => v = w
    BY <1>5 DEF SeqsApart, s
  <2>2. Distinct(t) /\ \A i \in 1..Len(t) : t[i].seq \in sent
    BY <1>7, <2>1
  <2>3. \A q \in Reader : reading'[q].owed \subseteq sent
    BY <1>3, <2>1
  <2>4. ASSUME NEW w \in Writer, NEW it \in writing[w]
        PROVE  /\ it.seq \in sent /\ \A i \in 1..Len(t) : t[i].seq # it.seq
               /\ \A q \in Reader : it.seq \notin reading'[q].owed
               /\ \A v \in Writer : \A x \in writing[v] : x.seq = it.seq => v = w
    BY <1>3, <1>7, <2>1
  <2> QED
    BY <2>2, <2>3, <2>4 DEF SeqsApart, t
<1>9. \A q \in Reader : Served(reading'[q], t) /\ FreshPage(reading'[q], overtaken)
  BY <1>3, <1>4, <1>5, <1>7
<1>10. OldestFirst(t, overtaken)
  BY <1>5, <1>7
<1> QED
  BY <1>6, <1>8, <1>9, <1>10 DEF Inv, t

\* A reader's step that leaves the mailbox alone.
LEMMA QuietStep ==
  ASSUME Inv, NEW r \in Reader, NEW c \in ClientSet,
         reading' = [reading EXCEPT ![r] = c],
         UNCHANGED <<mbox, clock, sent, writing, overtaken>>,
         c.now <= clock, c.owed \subseteq sent,
         \A w \in Writer : \A it \in writing[w] : it.seq \notin c.owed,
         Served(c, mbox.items), FreshPage(c, overtaken)
  PROVE  Inv'
<1>1. mbox' = mbox /\ mbox \in Mbox
  BY DEF Inv, TypeInv
<1>2. CapsAndAccounting'
  BY <1>1 DEF Inv, CapsAndAccounting
<1>3. mbox.items \in Seq(ItemSet)
  BY <1>1 DEF Mbox
<1>4. IsSuffix(mbox'.items, mbox.items, 0)
  BY <1>1, <1>3 DEF IsSuffix
<1>5. Served(c, mbox'.items)
  BY <1>1
<1> QED
  BY <1>1, <1>2, <1>4, <1>5, ReaderStep

LEMMA TickInv == ASSUME Inv, Tick PROVE Inv'
<1>1. UNCHANGED <<mbox, sent, writing, reading, overtaken>> /\ clock' = clock + 1
  BY DEF Tick
<1>2. clock \in Nat /\ \A r \in Reader : reading[r].now \in Nat /\ reading[r].now <= clock
  BY DEF Inv, TypeInv, ClientSet
<1>3. clock' \in Nat /\ \A r \in Reader : reading[r].now <= clock'
  BY <1>1, <1>2
<1>4. TypeInv'
  BY <1>1, <1>3 DEF Inv, TypeInv
<1>5. CapsAndAccounting' /\ SeqsApart'
  BY <1>1 DEF Inv, CapsAndAccounting, SeqsApart
<1> QED
  BY <1>1, <1>4, <1>5 DEF Inv

LEMMA StampInv == ASSUME Inv, NEW w \in Writer, StampItem(w) PROVE Inv'
<1>1. UNCHANGED <<mbox, clock, reading, overtaken>>
  BY DEF StampItem
<1>2. PICK seq \in (1..MaxSeq) \ sent, len \in BodyLen :
        sent' = sent \cup {seq} /\ writing' = [writing EXCEPT ![w] = {Item(seq, len, clock)}]
  BY DEF StampItem
<1> DEFINE new == Item(seq, len, clock)
<1>3. seq \in Nat /\ len \in Nat /\ seq \notin sent
  BY BoundAssumption
<1>4. clock \in Nat /\ sent \subseteq Nat /\ writing \in [Writer -> SUBSET ItemSet]
  BY DEF Inv, TypeInv
<1>5. new \in ItemSet /\ new.seq = seq
  BY <1>3, <1>4 DEF Item, ItemSet
<1>6. writing' = [writing EXCEPT ![w] = {new}]
  BY <1>2
<1> HIDE DEF new
<1>7. \A v \in Writer : writing'[v] = IF v = w THEN {new} ELSE writing[v]
  BY <1>4, <1>6
<1>8. TypeInv'
  <2>1. writing' \in [Writer -> SUBSET ItemSet] /\ sent' \subseteq Nat
    BY <1>2, <1>3, <1>4, <1>5, <1>6
  <2> QED
    BY <1>1, <2>1 DEF Inv, TypeInv
<1>9. CapsAndAccounting'
  BY <1>1 DEF Inv, CapsAndAccounting
<1>10. SeqsApart'
  <2> DEFINE s == mbox.items
  <2>1. /\ Distinct(s) /\ \A i \in 1..Len(s) : s[i].seq \in sent
        /\ \A q \in Reader : reading[q].owed \subseteq sent
        /\ \A v \in Writer : \A it \in writing[v] :
             /\ it.seq \in sent /\ \A i \in 1..Len(s) : s[i].seq # it.seq
             /\ \A q \in Reader : it.seq \notin reading[q].owed
             /\ \A u \in Writer : \A x \in writing[u] : x.seq = it.seq => u = v
    BY DEF Inv, SeqsApart
  <2> HIDE DEF s
  <2>2. /\ \A i \in 1..Len(s) : s[i].seq \in sent'
        /\ \A q \in Reader : reading[q].owed \subseteq sent'
    BY <1>2, <2>1
  <2>3. ASSUME NEW v \in Writer, NEW it \in writing'[v]
        PROVE  /\ it.seq \in sent' /\ \A i \in 1..Len(s) : s[i].seq # it.seq
               /\ \A q \in Reader : it.seq \notin reading[q].owed
               /\ \A u \in Writer : \A x \in writing'[u] : x.seq = it.seq => u = v
    <3>1. CASE v = w
      <4>1. it = new
        BY <1>7, <3>1
      <4> QED
        BY <1>2, <1>3, <1>5, <1>7, <2>1, <3>1, <4>1
    <3>2. CASE v # w
      <4>1. it \in writing[v]
        BY <1>7, <3>2
      <4> QED
        BY <1>2, <1>3, <1>5, <1>7, <2>1, <4>1
    <3> QED
      BY <3>1, <3>2
  <2> QED
    BY <1>1, <2>1, <2>2, <2>3 DEF SeqsApart, s
<1> QED
  BY <1>1, <1>8, <1>9, <1>10 DEF Inv

LEMMA AppendInv == ASSUME Inv, NEW w \in Writer, AppendMailbox(w) PROVE Inv'
<1> DEFINE s == mbox.items
           t == mbox'.items
<1>1. UNCHANGED <<clock, sent, reading>> /\ writing' = [writing EXCEPT ![w] = {}]
  BY DEF AppendMailbox
<1>2. PICK it \in writing[w] :
        /\ mbox' = AppendItem(mbox, it)
        /\ overtaken' = IF \E x \in Range(s) : x.at > it.at THEN overtaken \cup {it.seq} ELSE overtaken
  BY DEF AppendMailbox
<1>3. /\ mbox \in Mbox /\ writing \in [Writer -> SUBSET ItemSet] /\ mbox.bytes = BodyBytes(s)
      /\ clock \in Nat /\ sent \subseteq Nat /\ reading \in [Reader -> ClientSet]
      /\ \A q \in Reader : reading[q].now <= clock
  BY DEF Inv, TypeInv, CapsAndAccounting
<1>4. it \in ItemSet /\ it.seq \in Nat /\ it.at \in Nat
  <2>1. it \in ItemSet
    BY <1>3
  <2> QED
    BY <2>1 DEF ItemSet
<1>5. s \in Seq(ItemSet)
  BY <1>3 DEF Mbox
<1>6. /\ mbox' \in Mbox /\ mbox'.bytes = BodyBytes(t) /\ WithinCaps(mbox')
      /\ \E k : IsSuffix(t, Append(s, it), k)
  BY <1>2, <1>3, <1>4, Appended
<1>7. t \in Seq(ItemSet)
  BY <1>6 DEF Mbox
<1>8. /\ OldestFirst(s, overtaken)
      /\ \A q \in Reader : Served(reading[q], s) /\ FreshPage(reading[q], overtaken)
  BY DEF Inv
<1>9. /\ Distinct(s) /\ \A i \in 1..Len(s) : s[i].seq \in sent
      /\ \A q \in Reader : reading[q].owed \subseteq sent
      /\ \A v \in Writer : \A y \in writing[v] :
           /\ y.seq \in sent /\ \A i \in 1..Len(s) : s[i].seq # y.seq
           /\ \A q \in Reader : y.seq \notin reading[q].owed
           /\ \A u \in Writer : \A x \in writing[u] : x.seq = y.seq => u = v
  BY DEF Inv, SeqsApart
<1>10. CapsAndAccounting'
  BY <1>6 DEF CapsAndAccounting
<1>11. \A v \in Writer : writing'[v] = IF v = w THEN {} ELSE writing[v]
  BY <1>1, <1>3
<1>12. TypeInv'
  <2>1. writing' \in [Writer -> SUBSET ItemSet]
    BY <1>1, <1>3
  <2> HIDE DEF s, t
  <2> QED
    BY <1>1, <1>3, <1>6, <2>1 DEF TypeInv
<1>13. \A i \in 1..Len(s) : s[i] \in Range(s) /\ s[i].at \in Nat
  BY <1>5, RangeOf, ItemFields
<1> HIDE DEF s, t
<1>14. /\ overtaken \subseteq overtaken'
       /\ it.seq \in overtaken' \/ \A i \in 1..Len(s) : s[i].at <= it.at
  BY <1>2, <1>4, <1>13
<1>15. OldestFirst(s, overtaken') /\ \A q \in Reader : FreshPage(reading[q], overtaken')
  BY <1>8, <1>14 DEF OldestFirst, FreshPage
<1> DEFINE a == Append(s, it)
<1>16. /\ a \in Seq(ItemSet)
       /\ \A i \in 1..Len(a) : a[i] = it \/ \E j \in 1..Len(s) : a[i] = s[j]
       /\ Distinct(a) /\ OldestFirst(a, overtaken')
       /\ \A q \in Reader : Served(reading[q], a)
  <2>1. /\ Distinct(s) /\ \A i \in 1..Len(s) : s[i].seq # it.seq
        /\ \A q \in Reader : it.seq \notin reading[q].owed
    BY <1>9
  <2> QED
    BY <1>4, <1>5, <1>8, <1>14, <1>15, <2>1, AppendKeeps
<1>17. PICK k : IsSuffix(t, a, k)
  BY <1>6
<1> HIDE DEF a
<1>18. /\ \A i \in 1..Len(t) : \E j \in 1..Len(a) : t[i] = a[j]
       /\ Distinct(t) /\ OldestFirst(t, overtaken')
       /\ \A q \in Reader : Served(reading[q], t)
  BY <1>7, <1>16, <1>17, SuffixKeeps
<1>19. \A i \in 1..Len(t) : t[i] = it \/ \E j \in 1..Len(s) : t[i] = s[j]
  BY <1>16, <1>18
<1>20. SeqsApart'
  <2>1. \A i \in 1..Len(t) : t[i].seq \in sent
    BY <1>9, <1>19
  <2>2. ASSUME NEW v \in Writer, NEW y \in writing'[v]
        PROVE  /\ y.seq \in sent /\ \A i \in 1..Len(t) : t[i].seq # y.seq
               /\ \A q \in Reader : y.seq \notin reading[q].owed
               /\ \A u \in Writer : \A x \in writing'[u] : x.seq = y.seq => u = v
    <3>1. v # w /\ y \in writing[v]
      BY <1>11
    <3>2. y.seq # it.seq
      BY <1>9, <3>1
    <3>3. \A i \in 1..Len(t) : t[i].seq # y.seq
      BY <1>9, <1>19, <3>1, <3>2
    <3> QED
      BY <1>9, <1>11, <3>1, <3>3
  <2> QED
    BY <1>1, <1>9, <1>18, <2>1, <2>2 DEF SeqsApart, t
<1>21. \A q \in Reader : Served(reading'[q], t) /\ FreshPage(reading'[q], overtaken')
  BY <1>1, <1>15, <1>18
<1> QED
  BY <1>10, <1>12, <1>18, <1>20, <1>21, Zenon DEF Inv, t

LEMMA StartInv == ASSUME Inv, NEW r \in Reader, StartDrain(r) PROVE Inv'
<1> DEFINE s == mbox.items
<1>1. UNCHANGED <<mbox, clock, sent, writing, overtaken>>
  BY DEF StartDrain
<1>2. PICK after \in sent \cup {0} :
        reading' = [reading EXCEPT ![r] = [NotReading EXCEPT !.pc = "request", !.after = after,
                      !.owed = {n \in InOrder(s) : n > after}]]
  BY DEF StartDrain
<1> DEFINE owed == {n \in InOrder(s) : n > after}
           c == [NotReading EXCEPT !.pc = "request", !.after = after, !.owed = owed]
<1>3. /\ mbox \in Mbox /\ sent \subseteq Nat /\ clock \in Nat
  BY DEF Inv, TypeInv
<1>4. s \in Seq(ItemSet)
  BY <1>3 DEF Mbox
<1>5. after \in Nat
  BY <1>3
<1>6. /\ Distinct(s) /\ \A i \in 1..Len(s) : s[i].seq \in sent
      /\ \A v \in Writer : \A y \in writing[v] : \A i \in 1..Len(s) : s[i].seq # y.seq
  BY DEF Inv, SeqsApart
<1> HIDE DEF s
<1>7. \A n \in owed : \E j \in 1..Len(s) : n = s[j].seq /\ \A i \in 1..j : s[i].seq <= s[j].seq
  <2>1. DOMAIN s = 1..Len(s)
    BY <1>4
  <2> QED
    BY <2>1 DEF InOrder
<1>8. \A n \in owed : n > after
  OBVIOUS
<1> HIDE DEF owed
<1>9. owed \subseteq sent /\ \A v \in Writer : \A y \in writing[v] : y.seq \notin owed
  BY <1>6, <1>7
<1>10. c \in ClientSet
  <2>1. <<>> \in Seq(ItemSet)
    OBVIOUS
  <2>2. owed \in SUBSET Nat
    BY <1>3, <1>9
  <2> QED
    BY <1>5, <2>1, <2>2 DEF NotReading, ClientSet
<1>11. c.now = 0 /\ c.owed = owed /\ c.pc = "request" /\ c.after = after /\ c.page = <<>>
  BY DEF NotReading
<1>12. reading' = [reading EXCEPT ![r] = c]
  BY <1>2 DEF owed
<1> HIDE DEF c
<1>13. Served(c, s)
  <2>1. ASSUME NEW i \in 1..Len(s), NEW j \in 1..Len(s), i < j, s[j].seq \in owed
        PROVE  s[i].seq <= s[j].seq
    <3>1. PICK m \in 1..Len(s) : s[j].seq = s[m].seq /\ \A l \in 1..m : s[l].seq <= s[m].seq
      BY <1>7, <2>1
    <3>2. m = j
      BY <1>6, <3>1 DEF Distinct
    <3>3. i \in 1..j
      BY <1>4, <2>1
    <3> QED
      BY <3>1, <3>2, <3>3
  <2>2. ASSUME NEW j \in 1..Len(s), s[j].seq \in owed PROVE ~(s[j].seq <= after)
    <3>1. s[j].seq \in Nat /\ s[j].seq > after
      BY <1>4, <1>8, <2>2, ItemFields
    <3> QED
      BY <1>5, <3>1
  <2> QED
    BY <1>11, <2>1, <2>2 DEF Served
<1>14. FreshPage(c, overtaken)
  <2>1. Len(<<>>) = 0 /\ 1..0 = {}
    OBVIOUS
  <2> QED
    BY <1>11, <2>1 DEF FreshPage
<1>15. c.now <= clock
  BY <1>3, <1>11
<1> QED
  BY <1>1, <1>9, <1>10, <1>11, <1>12, <1>13, <1>14, <1>15, QuietStep DEF s

LEMMA RequestInv == ASSUME Inv, NEW r \in Reader, RequestPage(r) PROVE Inv'
<1> DEFINE b == reading[r]
           c == [b EXCEPT !.pc = "fetch", !.now = clock, !.page = <<>>]
<1>1. UNCHANGED <<mbox, clock, sent, writing, overtaken>> /\ b.pc = "request"
  BY DEF RequestPage
<1>2. b \in ClientSet /\ clock \in Nat
  BY DEF Inv, TypeInv
<1>3. reading' = [reading EXCEPT ![r] = c]
  BY DEF RequestPage, Inv, TypeInv
<1>4. /\ b.owed \subseteq sent /\ \A w \in Writer : \A it \in writing[w] : it.seq \notin b.owed
      /\ Served(b, mbox.items)
  BY DEF Inv, SeqsApart
<1> HIDE DEF b
<1>5. c \in ClientSet
  <2>1. <<>> \in Seq(ItemSet)
    OBVIOUS
  <2> QED
    BY <1>2, <2>1 DEF ClientSet
<1>6. /\ c.now = clock /\ c.owed = b.owed /\ c.pc = "fetch" /\ c.after = b.after
      /\ c.page = <<>> /\ c.got = b.got
  BY <1>2 DEF ClientSet
<1> HIDE DEF c
<1>7. Served(c, mbox.items)
  BY <1>4, <1>6 DEF Served
<1>8. FreshPage(c, overtaken)
  <2>1. Len(<<>>) = 0 /\ 1..0 = {}
    OBVIOUS
  <2> QED
    BY <1>6, <2>1 DEF FreshPage
<1>9. c.now <= clock
  BY <1>2, <1>6
<1> QED
  BY <1>1, <1>3, <1>4, <1>5, <1>6, <1>7, <1>8, <1>9, QuietStep

LEMMA EndInv == ASSUME Inv, NEW r \in Reader, EndDrain(r) PROVE Inv'
<1>1. UNCHANGED <<mbox, clock, sent, writing, overtaken>> /\ reading' = [reading EXCEPT ![r] = NotReading]
  BY DEF EndDrain
<1>2. clock \in Nat
  BY DEF Inv, TypeInv
<1>3. NotReading \in ClientSet
  <2>1. <<>> \in Seq(ItemSet)
    OBVIOUS
  <2> QED
    BY <2>1 DEF ClientSet, NotReading
<1>4. NotReading.now = 0 /\ NotReading.owed = {} /\ NotReading.page = <<>>
  BY DEF NotReading
<1>5. Served(NotReading, mbox.items)
  BY <1>4 DEF Served
<1>6. FreshPage(NotReading, overtaken)
  <2>1. Len(<<>>) = 0 /\ 1..0 = {}
    OBVIOUS
  <2> QED
    BY <1>4, <2>1 DEF FreshPage
<1>7. NotReading.now <= clock /\ NotReading.owed \subseteq sent
  BY <1>2, <1>4
<1> QED
  BY <1>1, <1>3, <1>4, <1>5, <1>6, <1>7, QuietStep

\* The page a client gets from what is left of the mailbox serves it: what the page
\* passes over is below the cursor, or above the item the next page starts at.
LEMMA PageServes ==
  ASSUME NEW b \in ClientSet, NEW m \in Mbox, NEW c \in ClientSet, NEW p,
         PageOf(p, m.items, Len(m.items), b.after), Served(b, m.items), b.pc # "drained",
         c.owed = b.owed, c.after = p.next, c.got = b.got \cup Seqs(p.items),
         c.pc = "drained" => ~p.truncated
  PROVE  Served(c, m.items)
<1> DEFINE s == m.items
           Has(j) == \E k \in 1..Len(p.items) : p.items[k] = s[j]
<1>1. s \in Seq(ItemSet) /\ p.items \in Seq(ItemSet) /\ p.next \in Nat /\ b.after \in Nat
  BY DEF Mbox, PageOf, PageSet, ClientSet
<1>2. \A k \in 1..Len(p.items) : p.items[k].seq \in Seqs(p.items)
  BY <1>1, RangeOf DEF Seqs
<1>3. \A j \in 1..Len(s) : Has(j) => s[j].seq \in c.got
  BY <1>2
<1>4. /\ ~p.truncated => \A j \in 1..Len(s) : s[j].seq > b.after => Has(j)
      /\ \/ p.next = b.after
         \/ \E i \in 1..Len(s) : /\ s[i].seq = p.next /\ Has(i)
                                 /\ \A j \in 1..i : s[j].seq > b.after => Has(j)
  BY DEF PageOf
<1> HIDE DEF Has
<1>5. /\ \A i, j \in 1..Len(s) : i < j /\ s[j].seq \in c.owed => s[i].seq <= s[j].seq
      /\ \A j \in 1..Len(s) : s[j].seq \in c.owed /\ s[j].seq <= b.after => s[j].seq \in c.got
  BY DEF Served
<1> HIDE DEF s
<1>6. ASSUME NEW j \in 1..Len(s), s[j].seq \in c.owed, c.pc = "drained" \/ s[j].seq <= c.after
      PROVE  s[j].seq \in c.got
  <2>1. s[j].seq \in Nat
    BY <1>1, ItemFields
  <2>2. CASE s[j].seq <= b.after
    BY <1>5, <1>6, <2>2
  <2>3. CASE s[j].seq > b.after
    <3>1. CASE c.pc = "drained"
      BY <1>3, <1>4, <2>3, <3>1
    <3>2. CASE s[j].seq <= p.next
      <4>1. p.next # b.after
        BY <1>1, <2>1, <2>3, <3>2
      <4>2. PICK i \in 1..Len(s) : /\ s[i].seq = p.next /\ Has(i)
                                   /\ \A l \in 1..i : s[l].seq > b.after => Has(l)
        BY <1>4, <4>1
      <4>3. CASE i < j
        <5>1. s[i].seq <= s[j].seq
          BY <1>5, <1>6, <4>3
        <5>2. s[j].seq = s[i].seq
          BY <1>1, <2>1, <3>2, <4>2, <5>1
        <5> QED
          BY <1>3, <4>2, <5>2
      <4>4. CASE j <= i
        <5>1. j \in 1..i
          BY <1>1, <4>4
        <5> QED
          BY <1>3, <2>3, <4>2, <5>1
      <4> QED
        BY <1>1, <4>3, <4>4
    <3> QED
      BY <1>6, <3>1, <3>2
  <2> QED
    BY <1>1, <2>1, <2>2, <2>3
<1> QED
  BY <1>5, <1>6 DEF Served, s

\* What is behind an item that has not expired has not expired either, or was
\* overtaken.
LEMMA StillFresh ==
  ASSUME NEW s \in Seq(ItemSet), NEW over, OldestFirst(s, over), NEW now \in Nat,
         Len(s) > 0 => ~Expired(s[1], now), NEW j \in 1..Len(s), Expired(s[j], now)
  PROVE  s[j].seq \in over
<1> SUFFICES ASSUME s[j].seq \notin over PROVE FALSE
  OBVIOUS
<1>1. Len(s) \in Nat /\ Len(s) > 0 /\ 1 \in 1..Len(s) /\ (1 < j \/ j = 1)
  OBVIOUS
<1>2. s[1].at \in Nat /\ s[j].at \in Nat
  BY <1>1, ItemFields
<1>3. CASE 1 < j
  <2>1. s[1].at <= s[j].at
    BY <1>1, <1>3 DEF OldestFirst
  <2>2. now - s[j].at >= TTL /\ ~(now - s[1].at >= TTL)
    BY <1>1 DEF Expired
  <2> QED
    BY <1>2, <2>1, <2>2, PolicyAssumption
<1> QED
  BY <1>1, <1>3

LEMMA FetchInv == ASSUME Inv, NEW r \in Reader, FetchMailbox(r) PROVE Inv'
<1> DEFINE b == reading[r]
           m == mbox'
           t == mbox'.items
           p == Page(m, b.after, PageLimit)
           c == Received(b, p)
<1>1. UNCHANGED <<clock, sent, writing, overtaken>> /\ b.pc = "fetch" /\ m = Prune(mbox, b.now)
  BY DEF FetchMailbox
<1>2. b \in ClientSet /\ mbox \in Mbox /\ reading \in [Reader -> ClientSet]
  BY DEF Inv, TypeInv
<1>3. reading' = [reading EXCEPT ![r] = c]
  BY <1>2 DEF FetchMailbox
<1>4. /\ b.owed \subseteq sent /\ \A w \in Writer : \A it \in writing[w] : it.seq \notin b.owed
      /\ Served(b, mbox.items) /\ OldestFirst(mbox.items, overtaken)
      /\ b.now <= clock /\ mbox.bytes = BodyBytes(mbox.items) /\ WithinCaps(mbox)
  BY DEF Inv, TypeInv, SeqsApart, CapsAndAccounting
<1>5. b.now \in Nat /\ b.after \in Nat /\ b.got \subseteq Nat /\ PageLimit \in Nat
  BY <1>2, BoundAssumption DEF ClientSet
<1> HIDE DEF b
<1>6. PICK n \in 0..Len(mbox.items) :
        /\ m = DropOldest(mbox, n)
        /\ n < Len(mbox.items) => ~Expired(mbox.items[n + 1], b.now)
  BY <1>1, <1>2, <1>5, Pruned
<1>7. m \in Mbox /\ IsSuffix(t, mbox.items, n) /\ m.bytes = BodyBytes(t) /\ WithinCaps(m)
  BY <1>2, <1>4, <1>6, Dropped, DropWithinCaps
<1>8. CapsAndAccounting'
  BY <1>7 DEF CapsAndAccounting
<1>9. mbox.items \in Seq(ItemSet) /\ t \in Seq(ItemSet)
  BY <1>2, <1>7 DEF Mbox
<1>10. Served(b, t) /\ OldestFirst(t, overtaken)
  BY <1>4, <1>7, <1>9, SuffixKeeps
<1>11. PageOf(p, t, Len(t), b.after)
  BY <1>5, <1>7, PageFacts
<1> HIDE DEF p
<1>12. /\ p.items \in Seq(ItemSet) /\ p.next \in Nat /\ p.truncated \in BOOLEAN
       /\ \A k \in 1..Len(p.items) : \E j \in 1..Len(t) : p.items[k] = t[j]
  BY <1>11 DEF PageOf, PageSet
<1> DEFINE pc == IF p.truncated THEN "request" ELSE "drained"
           got == b.got \cup Seqs(p.items)
<1>13. c = [b EXCEPT !.pc = pc, !.after = p.next, !.page = p.items, !.got = got]
  BY <1>2 DEF Received, ClientSet
<1>14. got \in SUBSET Nat
  <2>1. \A k \in 1..Len(p.items) : p.items[k].seq \in Nat
    BY <1>12, ItemFields
  <2>2. Seqs(p.items) \subseteq Nat
    BY <1>12, <2>1, RangeOf DEF Seqs
  <2> QED
    BY <1>5, <2>2
<1>15. pc \in {"request", "drained"} /\ (pc = "drained" => ~p.truncated)
  BY <1>12
<1> HIDE DEF c, pc
<1>16. c.now = b.now /\ c.owed = b.owed /\ c.pc = pc /\ c.after = p.next /\ c.page = p.items /\ c.got = got
  <2> HIDE DEF got
  <2> QED
    BY <1>2, <1>13 DEF ClientSet
<1>17. c \in ClientSet
  <2> HIDE DEF got
  <2> QED
    BY <1>2, <1>12, <1>13, <1>14, <1>15 DEF ClientSet
<1>18. Served(c, t)
  BY <1>1, <1>2, <1>7, <1>10, <1>11, <1>15, <1>16, <1>17, PageServes
<1>19. Len(t) > 0 => ~Expired(t[1], b.now)
  <2> SUFFICES ASSUME Len(t) > 0 PROVE ~Expired(t[1], b.now)
    OBVIOUS
  <2>1. 1 \in 1..Len(t) /\ n < Len(mbox.items)
    BY <1>7, <1>9 DEF IsSuffix
  <2>2. t[1] = mbox.items[n + 1]
    BY <1>7, <2>1 DEF IsSuffix
  <2> QED
    BY <1>6, <2>1, <2>2
<1>20. FreshPage(c, overtaken)
  <2> SUFFICES ASSUME NEW k \in 1..Len(p.items), Expired(p.items[k], b.now)
               PROVE  p.items[k].seq \in overtaken
    BY <1>16 DEF FreshPage
  <2>1. PICK j \in 1..Len(t) : p.items[k] = t[j]
    BY <1>12
  <2>2. Expired(t[j], b.now)
    BY <2>1
  <2>3. t[j].seq \in overtaken
    BY <1>5, <1>9, <1>10, <1>19, <2>2, StillFresh
  <2> QED
    BY <2>1, <2>3
<1>21. c.now <= clock /\ c.owed \subseteq sent
  BY <1>4, <1>16
<1>22. \A w \in Writer : \A it \in writing[w] : it.seq \notin c.owed
  BY <1>4, <1>16
<1> QED
  BY <1>1, <1>3, <1>7, <1>8, <1>17, <1>18, <1>20, <1>21, <1>22, ReaderStep

LEMMA NextInv == Inv /\ [Next]_vars => Inv'
<1> SUFFICES ASSUME Inv, [Next]_vars PROVE Inv'
  OBVIOUS
<1>1. CASE Tick
  BY <1>1, TickInv
<1>2. ASSUME NEW w \in Writer, StampItem(w) PROVE Inv'
  BY <1>2, StampInv
<1>3. ASSUME NEW w \in Writer, AppendMailbox(w) PROVE Inv'
  BY <1>3, AppendInv
<1>4. ASSUME NEW r \in Reader, StartDrain(r) PROVE Inv'
  BY <1>4, StartInv
<1>5. ASSUME NEW r \in Reader, RequestPage(r) PROVE Inv'
  BY <1>5, RequestInv
<1>6. ASSUME NEW r \in Reader, FetchMailbox(r) PROVE Inv'
  BY <1>6, FetchInv
<1>7. ASSUME NEW r \in Reader, EndDrain(r) PROVE Inv'
  BY <1>7, EndInv
<1>8. CASE UNCHANGED vars
  BY <1>8 DEF vars, Inv, TypeInv, CapsAndAccounting, SeqsApart
<1> QED
  BY <1>1, <1>2, <1>3, <1>4, <1>5, <1>6, <1>7, <1>8, Zenon DEF Next

LEMMA InvHolds == Spec => []Inv
BY InitInv, NextInv, PTL DEF Spec

-----------------------------------------------------------------------------
(* Theorems *)

\* For every TTL and every pair of caps: the byte total that append, prune and
\* eviction keep up to date is the sum of the bodies in the mailbox, which is within
\* MaxFrames and MaxBytes after every step.
THEOREM MailboxWithinCaps == Spec => []CapsAndAccounting
BY InvHolds, PTL DEF Inv

\* For every page limit and any number of clients and writers: a client that has
\* paged to the end has every frame it was owed that is still in the mailbox.  The
\* cursor of a truncated page never passes over one.
THEOREM DrainsAreComplete == Spec => []DrainComplete
<1>1. Inv => DrainComplete
  <2> SUFFICES ASSUME Inv, NEW r \in Reader, reading[r].pc = "drained",
                      NEW n \in reading[r].owed, n \in Seqs(mbox.items)
               PROVE  n \in reading[r].got
    BY DEF DrainComplete
  <2>1. mbox.items \in Seq(ItemSet)
    BY DEF Inv, TypeInv, Mbox
  <2>2. PICK j \in 1..Len(mbox.items) : n = mbox.items[j].seq
    BY <2>1, RangeOf DEF Seqs
  <2>3. Served(reading[r], mbox.items)
    BY DEF Inv
  <2> QED
    BY <2>2, <2>3 DEF Served
<1> QED
  BY <1>1, InvHolds, PTL

\* For every TTL: a page holds an expired frame only when a frame stamped later was
\* appended in front of it, where the prune of FetchMailbox stops.
THEOREM PagesAreFresh == Spec => []NoExpiredPage
<1>1. Inv => NoExpiredPage
  <2> SUFFICES ASSUME Inv, NEW r \in Reader, NEW it \in Range(reading[r].page), Expired(it, reading[r].now)
               PROVE  it.seq \in overtaken
    BY DEF NoExpiredPage
  <2>1. reading[r].page \in Seq(ItemSet)
    BY DEF Inv, TypeInv, ClientSet
  <2>2. PICK k \in 1..Len(reading[r].page) : it = reading[r].page[k]
    BY <2>1, RangeOf
  <2>3. FreshPage(reading[r], overtaken)
    BY DEF Inv
  <2> QED
    BY <2>2, <2>3 DEF FreshPage
<1> QED
  BY <1>1, InvHolds, PTL

\* A fetch, like every other step in which nothing is appended, removes an item only
\* when its TTL has run out: two clients of a device read the same frames.
THEOREM ReadsKeepItems == Spec => NonDestructiveReads
<1> DEFINE Kept == writing' = writing =>
             \A it \in Range(mbox.items) : it \in Range(mbox'.items) \/ Expired(it, clock)
<1>1. ASSUME Inv, Next, writing' = writing, NEW it \in Range(mbox.items)
      PROVE  it \in Range(mbox'.items) \/ Expired(it, clock)
  <2>1. mbox \in Mbox /\ mbox.items \in Seq(ItemSet) /\ clock \in Nat
    BY <1>1 DEF Inv, TypeInv, Mbox
  <2>2. CASE mbox' = mbox
    BY <1>1, <2>2
  <2>3. ASSUME NEW w \in Writer, AppendMailbox(w) PROVE FALSE
    <3>1. writing[w] # {} /\ writing' = [writing EXCEPT ![w] = {}] /\ writing \in [Writer -> SUBSET ItemSet]
      BY <1>1, <2>3 DEF AppendMailbox, Inv, TypeInv
    <3>2. writing'[w] = {}
      BY <3>1
    <3> QED
      BY <1>1, <3>1, <3>2
  <2>4. ASSUME NEW r \in Reader, FetchMailbox(r)
        PROVE  it \in Range(mbox'.items) \/ Expired(it, clock)
    <3> DEFINE now == reading[r].now
               t == mbox'.items
    <3>1. mbox' = Prune(mbox, now)
      BY <2>4 DEF FetchMailbox
    <3>2. now \in Nat /\ now <= clock
      BY <1>1 DEF Inv, TypeInv, ClientSet
    <3> HIDE DEF now
    <3>3. PICK n \in 0..Len(mbox.items) :
            mbox' = DropOldest(mbox, n) /\ \A i \in 1..n : Expired(mbox.items[i], now)
      BY <2>1, <3>1, <3>2, Pruned
    <3>4. mbox' \in Mbox /\ IsSuffix(t, mbox.items, n)
      BY <2>1, <3>3, Dropped
    <3>5. t \in Seq(ItemSet)
      BY <3>4 DEF Mbox
    <3>6. PICK j \in 1..Len(mbox.items) : it = mbox.items[j]
      BY <1>1, <2>1, RangeOf
    <3>7. it.at \in Nat
      BY <2>1, <3>6, ItemFields
    <3>8. CASE j \in 1..n
      <4>1. now - it.at >= TTL
        BY <3>3, <3>6, <3>8 DEF Expired
      <4>2. clock - it.at >= TTL
        <5>1. now \in Int /\ clock \in Int /\ it.at \in Int /\ TTL \in Int
          BY <2>1, <3>2, <3>7, PolicyAssumption
        <5> QED
          BY <3>2, <4>1, <5>1
      <4> QED
        BY <4>2 DEF Expired
    <3>9. CASE j > n
      <4>1. j - n \in 1..Len(t) /\ n + (j - n) = j
        <5>1. Len(t) = Len(mbox.items) - n /\ n \in Int /\ j \in Int /\ Len(mbox.items) \in Int
          BY <2>1, <3>4 DEF IsSuffix
        <5> QED
          BY <3>9, <5>1
      <4>2. t[j - n] = it
        BY <3>4, <3>6, <4>1 DEF IsSuffix
      <4> QED
        BY <3>5, <4>1, <4>2, RangeOf
    <3> QED
      BY <2>1, <3>8, <3>9
  <2>5. \/ mbox' = mbox
        \/ \E w \in Writer : AppendMailbox(w)
        \/ \E r \in Reader : FetchMailbox(r)
    BY <1>1 DEF Next, Tick, StampItem, StartDrain, RequestPage, EndDrain
  <2> QED
    BY <2>2, <2>3, <2>4, <2>5
<1>2. Inv /\ [Next]_vars => [Kept]_vars
  BY <1>1
<1> QED
  BY <1>2, InvHolds, PTL DEF Spec, NonDestructiveReads
=============================================================================
