--------------------------- MODULE BddBlocks_proofs ---------------------------
(***************************************************************************)
(* The allocator of BddBlocks: the counters agree with the lists, no block *)
(* is lost, a collection and get_node_block always find the block they     *)
(* count on, scan_newhalf scans each copy once, and a computation is       *)
(* abandoned only when every cell is in use.                               *)
(***************************************************************************)
EXTENDS BddBlocks, TLAPS, SequenceTheorems, FiniteSetTheorems

-----------------------------------------------------------------------------
(* The inductive invariant.                                                *)

\* l lists the blocks 1 .. n, each once.
Arranges(l, n) ==
    /\ Len(l) = n
    /\ \A i \in 1 .. n : l[i] \in 1 .. n
    /\ \A i, j \in 1 .. n : l[i] = l[j] => i = j
    /\ \A k \in 1 .. n : \E i \in 1 .. n : l[i] = k

Blocks(h) == list[h].inuse \o list[h].free

ListInv == \A h \in {0, 1} : Arranges(Blocks(h), stats.blocks)

\* The pointer is in the last block in use, behind the cells in use.
PointerInv ==
    /\ inuse = <<>> => pointer.block = NIL /\ stats.used = 0
    /\ inuse /= <<>> =>
         /\ pointer.block = inuse[Len(inuse)]
         /\ pointer.index >= 1
         /\ stats.used = (Len(inuse) - 1) * BlockSize + pointer.index

CountInv ==
    /\ stats.used + stats.unused = stats.total
    /\ stats.total = stats.blocks * BlockSize

\* What get_node_block and the collector know at each pc.
ControlInv ==
    /\ pc = "init" =>
         /\ inuse = <<>>
         /\ request \/ added > 0 => free /= <<>>
         /\ ~request => free = <<>>
    /\ pc = "grow" =>
         /\ inuse /= <<>>
         /\ request => pointer.index < BlockSize \/ free /= <<>>
         /\ ~request => stats.unused = 0
    /\ pc = "take" => ~NeedsBlock \/ free /= <<>>
    /\ pc \in {"one", "roots", "scan"} => prev <= stats.total
    /\ pc \in {"one", "roots", "scan", "swept"} <=> caller /= "none"
    /\ pc \in {"roots", "scan", "swept"} => inuse /= <<>>

\* The cell at place k and index j of the lists is behind the one at <<m, i>>.
Before(k, j, m, i) == k < m \/ (k = m /\ j < i)

\* The cells of the list l of blocks before index i of the block at place m.
CellsBefore(l, m, i) ==
    {<<l[q[1]], q[2]>> : q \in {r \in (1 .. Len(l)) \X (0 .. BlockSize - 1) :
                                   Before(r[1], r[2], m, i)}}

CursorInv ==
    /\ pc = "roots" => scanned = {}
    /\ pc = "scan" =>
         /\ cursor.place \in 1 .. Len(inuse)
         /\ cursor.i \in 0 .. BlockSize - 1
         /\ cursor.place = Len(inuse) => cursor.i < pointer.index
         /\ scanned = CellsBefore(inuse, cursor.place, cursor.i)
    /\ pc = "one" => scanned = {} /\ inuse = <<>>
    /\ pc = "swept" => scanned = CellsBefore(inuse, Len(inuse), pointer.index)

IInv ==
    /\ TypeOK
    /\ ListInv
    /\ PointerInv
    /\ CountInv
    /\ ControlInv
    /\ CursorInv

-----------------------------------------------------------------------------
(* Lemmas about numbers, lists and cells.                                  *)

LEMMA Products ==
    ASSUME NEW m \in Nat, NEW n \in Nat
    PROVE  /\ m * BlockSize \in Nat
           /\ (m + 1) * BlockSize = m * BlockSize + BlockSize
           /\ m <= n => m * BlockSize <= n * BlockSize
           /\ m < n => m * BlockSize + BlockSize <= n * BlockSize
           /\ 0 * BlockSize = 0
<1>1. BlockSize \in Nat \ {0}  BY BlocksAssumption
<1>2. \A a, b \in Nat : (a + b) * BlockSize = a * BlockSize + b * BlockSize  BY <1>1
<1>3. \A a \in Nat : a * BlockSize \in Nat  BY <1>1
<1>4. 1 * BlockSize = BlockSize /\ 0 * BlockSize = 0  BY <1>1
<1>5. (m + 1) * BlockSize = m * BlockSize + BlockSize  BY <1>2, <1>4
<1>6. m <= n => m * BlockSize <= n * BlockSize
  <2>1. SUFFICES ASSUME m <= n  PROVE m * BlockSize <= n * BlockSize  OBVIOUS
  <2>2. n - m \in Nat /\ n = m + (n - m)  BY <2>1
  <2>3. n * BlockSize = m * BlockSize + (n - m) * BlockSize  BY <1>2, <2>2
  <2>. QED  BY <1>3, <2>2, <2>3
<1>7. m < n => m * BlockSize + BlockSize <= n * BlockSize
  <2>1. SUFFICES ASSUME m < n  PROVE m * BlockSize + BlockSize <= n * BlockSize  OBVIOUS
  <2>2. n - (m + 1) \in Nat /\ n = (m + 1) + (n - (m + 1))  BY <2>1
  <2>3. n * BlockSize = (m + 1) * BlockSize + (n - (m + 1)) * BlockSize  BY <1>2, <2>2
  <2>. QED  BY <1>1, <1>3, <1>5, <2>2, <2>3
<1>. QED  BY <1>3, <1>4, <1>5, <1>6, <1>7

LEMMA TakeArrangement ==
    ASSUME NEW u \in Seq(Nat), NEW f \in Seq(Nat), f /= <<>>
    PROVE  /\ Append(u, Head(f)) \in Seq(Nat) /\ Tail(f) \in Seq(Nat)
           /\ Head(f) \in Nat
           /\ Len(Append(u, Head(f))) = Len(u) + 1
           /\ Append(u, Head(f))[Len(u) + 1] = Head(f)
           /\ \A k \in 1 .. Len(u) : Append(u, Head(f))[k] = u[k]
           /\ Append(u, Head(f)) \o Tail(f) = u \o f
<1>1. /\ Head(f) \in Nat /\ Tail(f) \in Seq(Nat)
      /\ Len(Tail(f)) = Len(f) - 1 /\ \A i \in 1 .. Len(Tail(f)) : Tail(f)[i] = f[i + 1]
  BY HeadTailProperties
<1>2. Head(f) = f[1]  OBVIOUS
<1>3. /\ Append(u, Head(f)) \in Seq(Nat)
      /\ Len(Append(u, Head(f))) = Len(u) + 1
      /\ Append(u, Head(f))[Len(u) + 1] = Head(f)
      /\ \A k \in 1 .. Len(u) : Append(u, Head(f))[k] = u[k]
  BY <1>1, AppendProperties
<1>. DEFINE a == Append(u, Head(f)) \o Tail(f)
            b == u \o f
<1>4. Len(u) \in Nat /\ Len(f) \in Nat \ {0}  BY LenProperties, EmptySeq
<1>5. /\ a \in Seq(Nat) /\ Len(a) = Len(u) + Len(f)
      /\ \A i \in 1 .. Len(u) + Len(f) : a[i] =
            IF i <= Len(u) + 1 THEN Append(u, Head(f))[i] ELSE Tail(f)[i - (Len(u) + 1)]
  BY <1>1, <1>3, <1>4, ConcatProperties
<1>6. /\ b \in Seq(Nat) /\ Len(b) = Len(u) + Len(f)
      /\ \A i \in 1 .. Len(u) + Len(f) : b[i] = IF i <= Len(u) THEN u[i] ELSE f[i - Len(u)]
  BY ConcatProperties
<1>7. ASSUME NEW i \in 1 .. Len(u) + Len(f)  PROVE a[i] = b[i]
  <2>1. CASE i <= Len(u)  BY <1>3, <1>4, <1>5, <1>6, <2>1
  <2>2. CASE i = Len(u) + 1  BY <1>2, <1>3, <1>4, <1>5, <1>6, <2>2
  <2>3. CASE i > Len(u) + 1
    <3>1. i - (Len(u) + 1) \in 1 .. Len(Tail(f))  BY <1>1, <1>4, <2>3
    <3>2. Tail(f)[i - (Len(u) + 1)] = f[i - Len(u)]  BY <1>1, <1>4, <3>1
    <3>. QED  BY <1>4, <1>5, <1>6, <2>3, <3>2
  <2>. QED  BY <1>4, <2>1, <2>2, <2>3, SMTT(60)
<1>8. a = b
  <2>. HIDE DEF a, b
  <2>. QED  BY <1>5, <1>6, <1>7, SeqEqual
<1>. QED  BY <1>1, <1>3, <1>8

LEMMA AddArrangement ==
    ASSUME NEW n \in Nat, NEW u \in Seq(Nat), NEW f \in Seq(Nat), Arranges(u \o f, n)
    PROVE  /\ <<n + 1>> \o f \in Seq(Nat) /\ <<n + 1>> \o f /= <<>>
           /\ Arranges(u \o (<<n + 1>> \o f), n + 1)
<1>. DEFINE g == <<n + 1>> \o f
            a == u \o f
            b == u \o g
            m == Len(u)
<1>1. <<n + 1>> \in Seq(Nat) /\ Len(<<n + 1>>) = 1 /\ <<n + 1>>[1] = n + 1  OBVIOUS
<1>2. m \in Nat /\ Len(f) \in Nat  BY LenProperties
<1>3. /\ g \in Seq(Nat) /\ Len(g) = 1 + Len(f)
      /\ \A i \in 1 .. 1 + Len(f) : g[i] = IF i <= 1 THEN <<n + 1>>[i] ELSE f[i - 1]
  BY <1>1, ConcatProperties
<1>4. g /= <<>>  BY <1>2, <1>3, EmptySeq
<1>5. /\ Len(a) = m + Len(f)
      /\ \A i \in 1 .. m + Len(f) : a[i] = IF i <= m THEN u[i] ELSE f[i - m]
  BY ConcatProperties
<1>6. /\ Len(b) = m + Len(g)
      /\ \A i \in 1 .. m + Len(g) : b[i] = IF i <= m THEN u[i] ELSE g[i - m]
  <2>. HIDE DEF g
  <2>. QED  BY <1>3, ConcatProperties
<1>7. n = m + Len(f) /\ Len(b) = n + 1  BY <1>2, <1>3, <1>5, <1>6 DEF Arranges
<1>. HIDE DEF g, a, b
<1>8. /\ \A i \in 1 .. m : b[i] = a[i]
      /\ b[m + 1] = n + 1
      /\ \A i \in m + 2 .. n + 1 : b[i] = a[i - 1]
  <2>1. ASSUME NEW i \in 1 .. m  PROVE b[i] = a[i]  BY <1>2, <1>3, <1>5, <1>6, <1>7, SMTT(60)
  <2>2. b[m + 1] = n + 1  BY <1>1, <1>2, <1>3, <1>6, <1>7
  <2>3. ASSUME NEW i \in m + 2 .. n + 1  PROVE b[i] = a[i - 1]
    <3>1. b[i] = g[i - m] /\ i - m \in 2 .. 1 + Len(f)  BY <1>2, <1>3, <1>6, <1>7
    <3>2. \A k \in 2 .. 1 + Len(f) : g[k] = f[k - 1]  BY <1>2, <1>3, SMTT(60)
    <3>3. a[i - 1] = f[i - 1 - m]  BY <1>2, <1>5, <1>7, SMTT(60)
    <3>4. (i - m) - 1 = i - 1 - m  BY <1>2
    <3>. QED  BY <3>1, <3>2, <3>3, <3>4
  <2>. QED  BY <2>1, <2>2, <2>3
<1>9. /\ \A i \in 1 .. n : a[i] \in 1 .. n
      /\ \A i, j \in 1 .. n : a[i] = a[j] => i = j
      /\ \A k \in 1 .. n : \E i \in 1 .. n : a[i] = k
  BY DEF a, Arranges
<1>. DEFINE o == [k \in 1 .. n + 1 |-> IF k <= m THEN k ELSE k - 1]
<1>10. ASSUME NEW k \in 1 .. n + 1, k /= m + 1
       PROVE  o[k] \in 1 .. n /\ b[k] = a[o[k]] /\ b[k] \in 1 .. n
  <2>1. CASE k <= m
    <3>1. k \in 1 .. m /\ o[k] = k /\ k \in 1 .. n  BY <1>2, <1>7, <2>1
    <3>2. b[k] = a[k]  BY <1>8, <3>1
    <3>3. a[k] \in 1 .. n  BY <1>9, <3>1
    <3>. HIDE DEF o
    <3>. QED  BY <3>1, <3>2, <3>3
  <2>2. CASE k > m
    <3>1. k \in m + 2 .. n + 1 /\ o[k] = k - 1 /\ k - 1 \in 1 .. n
      BY <1>2, <1>10, <2>2
    <3>2. b[k] = a[k - 1]  BY <1>8, <3>1
    <3>3. a[k - 1] \in 1 .. n  BY <1>9, <3>1
    <3>. HIDE DEF o
    <3>. QED  BY <3>1, <3>2, <3>3
  <2>. QED  BY <1>2, <2>1, <2>2
<1>11. ASSUME NEW i \in 1 .. n + 1, NEW j \in 1 .. n + 1, b[i] = b[j]  PROVE i = j
  <2>1. CASE i = m + 1 \/ j = m + 1  BY <1>2, <1>8, <1>10, <1>11, <2>1
  <2>2. CASE i /= m + 1 /\ j /= m + 1
    <3>1. o[i] = o[j]
      <4>1. a[o[i]] = a[o[j]] /\ o[i] \in 1 .. n /\ o[j] \in 1 .. n  BY <1>10, <1>11, <2>2
      <4>. HIDE DEF o
      <4>. QED  BY <1>9, <4>1, ZenonT(60)
    <3>. QED  BY <1>2, <2>2, <3>1
  <2>. QED  BY <2>1, <2>2
<1>12. ASSUME NEW k \in 1 .. n + 1  PROVE \E i \in 1 .. n + 1 : b[i] = k
  <2>1. CASE k = n + 1  BY <1>2, <1>7, <1>8, <2>1
  <2>2. CASE k <= n
    <3>0. k \in 1 .. n  BY <2>2
    <3>1. PICK i \in 1 .. n : a[i] = k  BY <1>9, <3>0
    <3>2. CASE i <= m
      <4>1. i \in 1 .. m /\ i \in 1 .. n + 1  BY <1>2, <3>2
      <4>. QED  BY <1>8, <3>1, <4>1
    <3>3. CASE i > m
      <4>1. i + 1 \in m + 2 .. n + 1 /\ i + 1 \in 1 .. n + 1 /\ (i + 1) - 1 = i  BY <1>2, <3>3
      <4>. QED  BY <1>8, <3>1, <4>1
    <3>. QED  BY <1>2, <3>2, <3>3
  <2>. QED  BY <2>1, <2>2
<1>13. \A k \in 1 .. n + 1 : b[k] \in 1 .. n + 1
  <2>. TAKE k \in 1 .. n + 1
  <2>1. CASE k = m + 1  BY <1>8, <2>1
  <2>2. CASE k /= m + 1
    <3>1. b[k] \in 1 .. n  BY <1>10, <2>2
    <3>. QED  BY <3>1
  <2>. QED  BY <2>1, <2>2
<1>14. Arranges(b, n + 1)  BY <1>7, <1>11, <1>12, <1>13 DEF Arranges
<1>. QED  BY <1>3, <1>4, <1>14 DEF b, g

\* The blocks in use are listed once, so that a place is known by its block.
LEMMA UsedOnce ==
    ASSUME NEW n \in Nat, NEW u \in Seq(Nat), NEW f \in Seq(Nat), Arranges(u \o f, n),
           NEW k \in 1 .. Len(u), NEW m \in 1 .. Len(u), u[k] = u[m]
    PROVE  k = m
<1>1. Len(u) \in Nat /\ Len(f) \in Nat /\ Len(u \o f) = Len(u) + Len(f)
  BY LenProperties, ConcatProperties
<1>2. \A j \in 1 .. Len(u) : (u \o f)[j] = u[j]  BY <1>1, ConcatProperties
<1>3. Len(u \o f) = n /\ \A i, j \in 1 .. n : (u \o f)[i] = (u \o f)[j] => i = j
  BY DEF Arranges
<1>4. k \in 1 .. n /\ m \in 1 .. n  BY <1>1, <1>3
<1>. QED  BY <1>2, <1>3, <1>4

LEMMA CellsKept ==
    ASSUME NEW u \in Seq(Nat), NEW w \in Seq(Nat), NEW m \in 1 .. Len(u), NEW i \in Nat,
           Len(u) <= Len(w), \A k \in 1 .. Len(u) : w[k] = u[k]
    PROVE  CellsBefore(w, m, i) = CellsBefore(u, m, i)
<1>1. Len(u) \in Nat /\ Len(w) \in Nat  BY LenProperties
<1>. DEFINE Q(l) == {r \in (1 .. Len(l)) \X (0 .. BlockSize - 1) : Before(r[1], r[2], m, i)}
<1>2. Q(w) = Q(u)
  <2>1. ASSUME NEW r \in (1 .. Len(w)) \X (0 .. BlockSize - 1), Before(r[1], r[2], m, i)
        PROVE  r \in (1 .. Len(u)) \X (0 .. BlockSize - 1)
    <3>1. r = <<r[1], r[2]>> /\ r[1] \in 1 .. Len(w) /\ r[2] \in 0 .. BlockSize - 1  OBVIOUS
    <3>2. r[1] \in 1 .. Len(u)  BY <1>1, <2>1, <3>1 DEF Before
    <3>. QED  BY <3>1, <3>2
  <2>2. (1 .. Len(u)) \X (0 .. BlockSize - 1) \subseteq (1 .. Len(w)) \X (0 .. BlockSize - 1)
    <3>1. 1 .. Len(u) \subseteq 1 .. Len(w)  BY <1>1
    <3>. QED  BY <3>1
  <2>. QED  BY <2>1, <2>2
<1>3. \A q \in Q(u) : q[1] \in 1 .. Len(u)  OBVIOUS
<1>4. \A q \in Q(u) : <<w[q[1]], q[2]>> = <<u[q[1]], q[2]>>  BY <1>3
<1>5. CellsBefore(w, m, i) = {<<w[q[1]], q[2]>> : q \in Q(u)}  BY <1>2 DEF CellsBefore
<1>6. CellsBefore(u, m, i) = {<<u[q[1]], q[2]>> : q \in Q(u)}  BY DEF CellsBefore
<1>. HIDE DEF Q
<1>. QED  BY <1>4, <1>5, <1>6, ZenonT(60)

\* What is in CellsBefore, as a predicate.
LEMMA CellsMember ==
    ASSUME NEW u \in Seq(Nat), NEW m \in Nat, NEW i \in Nat, NEW c
    PROVE  c \in CellsBefore(u, m, i) <=>
             \E k \in 1 .. Len(u), j \in 0 .. BlockSize - 1 :
                 Before(k, j, m, i) /\ c = <<u[k], j>>
<1>1. ASSUME c \in CellsBefore(u, m, i)
      PROVE  \E k \in 1 .. Len(u), j \in 0 .. BlockSize - 1 :
                 Before(k, j, m, i) /\ c = <<u[k], j>>
  <2>1. PICK q \in (1 .. Len(u)) \X (0 .. BlockSize - 1) :
               Before(q[1], q[2], m, i) /\ c = <<u[q[1]], q[2]>>
    BY <1>1 DEF CellsBefore
  <2>2. q[1] \in 1 .. Len(u) /\ q[2] \in 0 .. BlockSize - 1  OBVIOUS
  <2>. QED  BY <2>1, <2>2
<1>2. ASSUME NEW k \in 1 .. Len(u), NEW j \in 0 .. BlockSize - 1,
             Before(k, j, m, i), c = <<u[k], j>>
      PROVE  c \in CellsBefore(u, m, i)
  <2>. DEFINE q == <<k, j>>
  <2>1. /\ q \in (1 .. Len(u)) \X (0 .. BlockSize - 1) /\ q[1] = k /\ q[2] = j
        /\ Before(q[1], q[2], m, i) /\ c = <<u[q[1]], q[2]>>
    BY <1>2
  <2>. HIDE DEF q
  <2>. QED  BY <2>1 DEF CellsBefore
<1>. QED  BY <1>1, <1>2

LEMMA CellsNext ==
    ASSUME NEW u \in Seq(Nat), NEW m \in 1 .. Len(u), NEW i \in 0 .. BlockSize - 1
    PROVE  /\ CellsBefore(u, m, i + 1) = CellsBefore(u, m, i) \union {<<u[m], i>>}
           /\ i + 1 = BlockSize => CellsBefore(u, m, i + 1) = CellsBefore(u, m + 1, 0)
<1>1. Len(u) \in Nat /\ BlockSize \in Nat  BY LenProperties, BlocksAssumption
<1>2. i \in Nat /\ i + 1 \in Nat /\ m \in Nat /\ m + 1 \in Nat  BY <1>1
<1>3. ASSUME NEW k \in 1 .. Len(u), NEW j \in 0 .. BlockSize - 1
      PROVE  /\ Before(k, j, m, i + 1) <=> Before(k, j, m, i) \/ (k = m /\ j = i)
             /\ i + 1 = BlockSize => (Before(k, j, m, i + 1) <=> Before(k, j, m + 1, 0))
  BY <1>1 DEF Before
<1>4. ASSUME NEW c
      PROVE  c \in CellsBefore(u, m, i + 1) <=> c \in CellsBefore(u, m, i) \union {<<u[m], i>>}
  BY <1>2, <1>3, CellsMember
<1>5. ASSUME NEW c, i + 1 = BlockSize
      PROVE  c \in CellsBefore(u, m, i + 1) <=> c \in CellsBefore(u, m + 1, 0)
  BY <1>2, <1>3, <1>5, CellsMember
<1>. QED  BY <1>4, <1>5

-----------------------------------------------------------------------------
(* What the invariant says of the half in use.                             *)

HeapInv == TypeOK /\ ListInv /\ PointerInv /\ CountInv

LEMMA HalfFacts ==
    ASSUME HeapInv
    PROVE  /\ inuse \in Seq(Nat) /\ free \in Seq(Nat)
           /\ Len(inuse) \in Nat /\ Len(free) \in Nat
           /\ inuse = <<>> <=> Len(inuse) = 0
           /\ free = <<>> <=> Len(free) = 0
           /\ stats.blocks = Len(inuse) + Len(free)
           /\ ~NeedsBlock => inuse /= <<>>
<1>1. list \in [{0, 1} -> HalfList] /\ half \in {0, 1}  BY DEF HeapInv, TypeOK
<1>2. inuse \in Seq(Nat) /\ free \in Seq(Nat)  BY <1>1 DEF inuse, free, HalfList
<1>3. Len(inuse) \in Nat /\ Len(free) \in Nat  BY <1>2, LenProperties
<1>4. (inuse = <<>> <=> Len(inuse) = 0) /\ (free = <<>> <=> Len(free) = 0)
  BY <1>2, EmptySeq
<1>5. stats.blocks = Len(inuse \o free)
  BY <1>1 DEF HeapInv, ListInv, Arranges, Blocks, inuse, free
<1>6. Len(inuse \o free) = Len(inuse) + Len(free)  BY <1>2, ConcatProperties
<1>7. ~NeedsBlock => inuse /= <<>>  BY DEF HeapInv, PointerInv, NeedsBlock
<1>. QED  BY <1>2, <1>3, <1>4, <1>5, <1>6, <1>7

\* How full the half is.
LEMMA Fullness ==
    ASSUME HeapInv
    PROVE  /\ stats.used <= Len(inuse) * BlockSize
           /\ NeedsBlock => stats.used = Len(inuse) * BlockSize
           /\ stats.used <= stats.total
           /\ stats.used < stats.total <=> (~NeedsBlock \/ free /= <<>>)
           /\ stats.unused = 0 <=> (NeedsBlock /\ free = <<>>)
           /\ inuse /= <<>> => stats.used > 0
<1>. DEFINE n == Len(inuse)
<1>1. /\ n \in Nat /\ Len(free) \in Nat /\ stats.blocks = n + Len(free)
      /\ (inuse = <<>> <=> n = 0) /\ (free = <<>> <=> Len(free) = 0)
      /\ ~NeedsBlock => inuse /= <<>>
  BY HalfFacts
<1>2. BlockSize \in Nat \ {0} /\ NIL \notin Nat  BY BlocksAssumption
<1>3. /\ stats.used \in Nat /\ stats.unused \in Nat /\ stats.total \in Nat
      /\ pointer.index \in 0 .. BlockSize
  BY DEF HeapInv, TypeOK
<1>4. stats.used + stats.unused = stats.total /\ stats.total = stats.blocks * BlockSize
  BY DEF HeapInv, CountInv
<1>. HIDE DEF n
<1>5. stats.total = n * BlockSize + Len(free) * BlockSize
  BY <1>1, <1>2, <1>4
<1>6. /\ n * BlockSize \in Nat /\ Len(free) * BlockSize \in Nat /\ 0 * BlockSize = 0
      /\ Len(free) > 0 => Len(free) * BlockSize > 0
  <2>1. Len(free) > 0 => 0 * BlockSize + BlockSize <= Len(free) * BlockSize
    BY <1>1, Products
  <2>. QED  BY <1>1, <1>2, <2>1, Products
<1>7. CASE inuse = <<>>
  <2>1. n = 0 /\ stats.used = 0 /\ NeedsBlock
    BY <1>1, <1>7 DEF HeapInv, PointerInv, NeedsBlock
  <2>. QED  BY <1>1, <1>3, <1>4, <1>5, <1>6, <1>7, <2>1 DEF n
<1>8. CASE inuse /= <<>>
  <2>1. n - 1 \in Nat /\ (n - 1) + 1 = n  BY <1>1, <1>8
  <2>2. n * BlockSize = (n - 1) * BlockSize + BlockSize /\ (n - 1) * BlockSize \in Nat
    <3>1. ((n - 1) + 1) * BlockSize = (n - 1) * BlockSize + BlockSize  BY <2>1, Products
    <3>. QED  BY <2>1, <3>1, Products
  <2>3. /\ stats.used = (n - 1) * BlockSize + pointer.index /\ pointer.index >= 1
        /\ pointer.block = inuse[n]
    BY <1>8 DEF HeapInv, PointerInv, n
  <2>4. pointer.block /= NIL
    <3>1. inuse \in Seq(Nat) /\ n \in 1 .. Len(inuse)  BY <1>1, <1>8, HalfFacts DEF n
    <3>. QED  BY <1>2, <2>3, <3>1, ElementOfSeq
  <2>5. NeedsBlock <=> pointer.index = BlockSize  BY <1>2, <1>3, <2>4 DEF NeedsBlock
  <2>. DEFINE X == n * BlockSize
              Y == Len(free) * BlockSize
              Z == (n - 1) * BlockSize
  <2>6. /\ X \in Nat /\ Y \in Nat /\ Z \in Nat /\ X = Z + BlockSize
        /\ stats.used = Z + pointer.index /\ stats.total = X + Y
        /\ free = <<>> <=> Y = 0
    BY <1>1, <1>5, <1>6, <2>2, <2>3
  <2>. HIDE DEF X, Y, Z
  <2>7. /\ stats.used <= X
        /\ NeedsBlock => stats.used = X
        /\ stats.used <= stats.total
        /\ stats.used < stats.total <=> (~NeedsBlock \/ Y /= 0)
        /\ stats.unused = 0 <=> (NeedsBlock /\ Y = 0)
        /\ stats.used > 0
    <3>1. /\ stats.used \in Nat /\ pointer.index \in Nat /\ 1 <= pointer.index
          /\ pointer.index <= BlockSize /\ BlockSize \in Nat
          /\ NeedsBlock <=> pointer.index = BlockSize
      BY <1>2, <1>3, <2>3, <2>5, BlocksAssumption
    <3>2. X \in Nat /\ Y \in Nat /\ Z \in Nat /\ X = Z + BlockSize /\ stats.used = Z + pointer.index
      BY <2>6
    <3>3. stats.used <= X /\ (stats.used = X <=> NeedsBlock) /\ stats.used > 0
      BY ONLY <3>1, <3>2
    <3>4. stats.total = X + Y
      BY <2>6
    <3>5. /\ stats.used <= stats.total
          /\ stats.used < stats.total <=> (~NeedsBlock \/ Y /= 0)
          /\ stats.total - stats.used = 0 <=> (NeedsBlock /\ Y = 0)
      BY ONLY <3>1, <3>2, <3>3, <3>4
    <3>6. stats.unused = 0 <=> stats.total - stats.used = 0
      BY <1>3, <1>4
    <3>. QED  BY <3>2, <3>3, <3>5, <3>6
  <2>. QED  BY <2>6, <2>7 DEF X, n
<1>. QED  BY <1>7, <1>8

-----------------------------------------------------------------------------
(* What the steps do to the lists.                                         *)

\* The rest of bdd_new_node: the half fills by one cell, and no cell moves.
LEMMA AllocateStep ==
    ASSUME HeapInv, AllocateNode, half' = half
    PROVE  /\ list' \in [{0, 1} -> HalfList]
           /\ pointer' \in [block: Nat \union {NIL}, index: 0 .. BlockSize]
           /\ stats' \in [used: Nat, unused: Nat, total: Nat, blocks: Nat]
           /\ ListInv' /\ PointerInv' /\ CountInv'
           /\ inuse' \in Seq(Nat) /\ inuse' /= <<>>
           /\ Len(inuse') >= Len(inuse)
           /\ \A k \in 1 .. Len(inuse) : inuse'[k] = inuse[k]
           /\ stats'.total = stats.total
           /\ \/ /\ inuse' = inuse /\ inuse /= <<>>
                 /\ pointer'.index = pointer.index + 1
              \/ /\ Len(inuse') = Len(inuse) + 1 /\ pointer'.index = 1
                 /\ inuse /= <<>> => pointer.index = BlockSize
<1>1. /\ inuse \in Seq(Nat) /\ free \in Seq(Nat)
      /\ Len(inuse) \in Nat /\ Len(free) \in Nat
      /\ inuse = <<>> <=> Len(inuse) = 0
      /\ free = <<>> <=> Len(free) = 0
      /\ stats.blocks = Len(inuse) + Len(free)
      /\ ~NeedsBlock => inuse /= <<>>
  BY HalfFacts
<1>2. BlockSize \in Nat \ {0} /\ NIL \notin Nat  BY BlocksAssumption
<1>3. /\ list \in [{0, 1} -> HalfList] /\ half \in {0, 1}
      /\ pointer \in [block: Nat \union {NIL}, index: 0 .. BlockSize]
      /\ stats \in [used: Nat, unused: Nat, total: Nat, blocks: Nat]
      /\ ListInv /\ PointerInv /\ CountInv
  BY DEF HeapInv, TypeOK
<1>4. stats' = [stats EXCEPT !.used = stats.used + 1, !.unused = stats.unused - 1]
  BY DEF AllocateNode
<1>5. stats.unused > 0
  <2>1. stats.unused /= 0  BY Fullness DEF AllocateNode
  <2>. QED  BY <1>3, <2>1
<1>6. /\ stats' \in [used: Nat, unused: Nat, total: Nat, blocks: Nat]
      /\ stats'.total = stats.total /\ stats'.blocks = stats.blocks
      /\ stats'.used = stats.used + 1
      /\ CountInv'
  <2>1. /\ stats.used \in Nat /\ stats.unused \in Nat /\ stats.total \in Nat
        /\ stats.blocks \in Nat
    BY <1>3
  <2>2. stats' = [used |-> stats.used + 1, unused |-> stats.unused - 1,
                  total |-> stats.total, blocks |-> stats.blocks]
    BY <1>3, <1>4
  <2>3. stats.unused - 1 \in Nat  BY <1>5, <2>1
  <2>. QED  BY <1>3, <2>1, <2>2, <2>3 DEF CountInv
<1>7. CASE /\ ~NeedsBlock
           /\ pointer' = [pointer EXCEPT !.index = pointer.index + 1]
           /\ UNCHANGED list
  <2>1. inuse' = inuse /\ free' = free  BY <1>7 DEF inuse, free
  <2>2. /\ pointer.index < BlockSize
        /\ pointer' \in [block: Nat \union {NIL}, index: 0 .. BlockSize]
        /\ pointer'.index = pointer.index + 1 /\ pointer'.block = pointer.block
    BY <1>2, <1>3, <1>7 DEF NeedsBlock
  <2>3. PointerInv'
    <3>1. (Len(inuse) - 1) * BlockSize \in Int  BY <1>1, <1>2
    <3>2. /\ stats.used = (Len(inuse) - 1) * BlockSize + pointer.index
          /\ pointer.block = inuse[Len(inuse)] /\ pointer.index >= 1
      BY <1>1, <1>3, <1>7 DEF PointerInv
    <3>3. stats'.used = (Len(inuse) - 1) * BlockSize + pointer'.index
      BY <1>3, <1>6, <2>2, <3>1, <3>2
    <3>. QED  BY <1>1, <1>3, <1>7, <2>1, <2>2, <3>2, <3>3 DEF PointerInv
  <2>4. ListInv'  BY <1>3, <1>6, <1>7 DEF ListInv, Blocks
  <2>. QED  BY <1>1, <1>3, <1>6, <1>7, <2>1, <2>2, <2>3, <2>4
<1>8. CASE /\ NeedsBlock /\ free /= <<>>
           /\ list' = [list EXCEPT ![half] = TakenBlock(list[half])]
           /\ pointer' = [block |-> Head(free), index |-> 1]
  <2>1. /\ inuse' = Append(inuse, Head(free)) /\ free' = Tail(free)
        /\ list'[half] = [inuse |-> Append(inuse, Head(free)), free |-> Tail(free)]
        /\ list'[1 - half] = list[1 - half]
    <3>1. list'[half] = TakenBlock(list[half]) /\ list'[1 - half] = list[1 - half]
      BY <1>3, <1>8
    <3>. QED  BY <3>1 DEF inuse, free, TakenBlock
  <2>2. /\ inuse' \in Seq(Nat) /\ free' \in Seq(Nat) /\ Head(free) \in Nat
        /\ Len(inuse') = Len(inuse) + 1
        /\ inuse'[Len(inuse) + 1] = Head(free)
        /\ \A k \in 1 .. Len(inuse) : inuse'[k] = inuse[k]
        /\ inuse' \o free' = inuse \o free
    BY <1>1, <1>8, <2>1, TakeArrangement
  <2>3. list' \in [{0, 1} -> HalfList]
    <3>1. TakenBlock(list[half]) \in HalfList
      BY <2>1, <2>2 DEF TakenBlock, HalfList, inuse, free
    <3>. QED  BY <1>3, <1>8, <3>1
  <2>4. /\ pointer' \in [block: Nat \union {NIL}, index: 0 .. BlockSize]
        /\ pointer'.index = 1 /\ pointer'.block = Head(free)
    BY <1>2, <1>8, <2>2
  <2>5. inuse' /= <<>>  BY <1>1, <2>2, EmptySeq
  <2>6. PointerInv'
    <3>1. stats.used = Len(inuse) * BlockSize  BY <1>8, Fullness
    <3>2. Len(inuse') - 1 = Len(inuse)  BY <1>1, <2>2
    <3>3. stats'.used = (Len(inuse') - 1) * BlockSize + 1  BY <1>6, <3>1, <3>2, SMTT(60)
    <3>. QED  BY <2>2, <2>4, <2>5, <3>2, <3>3 DEF PointerInv
  <2>7. ListInv'
    <3>1. Blocks(half)' = Blocks(half)
      BY <1>3, <2>1, <2>2 DEF Blocks, inuse, free
    <3>2. Blocks(1 - half)' = Blocks(1 - half)
      BY <1>3, <2>1 DEF Blocks
    <3>3. \A h \in {0, 1} : h = half \/ h = 1 - half  BY <1>3
    <3>4. \A h \in {0, 1} : Blocks(h)' = Blocks(h)  BY <3>1, <3>2, <3>3
    <3>. QED  BY <1>3, <1>6, <3>4 DEF ListInv
  <2>8. inuse /= <<>> => pointer.index = BlockSize
    <3>1. ASSUME inuse /= <<>>  PROVE pointer.block /= NIL
      <4>1. pointer.block = inuse[Len(inuse)]  BY <1>3, <3>1 DEF PointerInv
      <4>2. Len(inuse) \in 1 .. Len(inuse)  BY <1>1, <3>1
      <4>. QED  BY <1>1, <1>2, <4>1, <4>2, ElementOfSeq
    <3>. QED  BY <1>2, <1>3, <1>8, <3>1 DEF NeedsBlock
  <2>. QED  BY <1>1, <1>6, <2>2, <2>3, <2>4, <2>5, <2>6, <2>7, <2>8, SMTT(60)
<1>. QED  BY <1>7, <1>8 DEF AllocateNode

\* add_block_to_free_list: each half gets one of the pair.
LEMMA AddStep ==
    ASSUME HeapInv, AddBlock, UNCHANGED <<half, pointer>>
    PROVE  /\ list' \in [{0, 1} -> HalfList]
           /\ stats' \in [used: Nat, unused: Nat, total: Nat, blocks: Nat]
           /\ ListInv' /\ PointerInv' /\ CountInv'
           /\ inuse' = inuse /\ free' /= <<>>
<1>. DEFINE n == stats.blocks
            more(h) == <<n + 1>> \o list[h].free
<1>1. /\ list \in [{0, 1} -> HalfList] /\ half \in {0, 1}
      /\ stats \in [used: Nat, unused: Nat, total: Nat, blocks: Nat]
      /\ ListInv /\ PointerInv /\ CountInv
  BY DEF HeapInv, TypeOK
<1>2. BlockSize \in Nat \ {0}  BY BlocksAssumption
<1>3. \A h \in {0, 1} : list[h].inuse \in Seq(Nat) /\ list[h].free \in Seq(Nat)
  BY <1>1 DEF HalfList
<1>4. \A h \in {0, 1} : list'[h] = [list[h] EXCEPT !.free = more(h)]
  BY DEF AddBlock, PairAdded
<1>5. \A h \in {0, 1} : list'[h].inuse = list[h].inuse /\ list'[h].free = more(h)
  BY <1>1, <1>4 DEF HalfList
<1>6. ASSUME NEW h \in {0, 1}
      PROVE  more(h) \in Seq(Nat) /\ more(h) /= <<>> /\ Arranges(list[h].inuse \o more(h), n + 1)
  <2>1. Arranges(list[h].inuse \o list[h].free, n) /\ n \in Nat
    BY <1>1 DEF ListInv, Blocks
  <2>. QED  BY <1>3, <2>1, AddArrangement
<1>. HIDE DEF more
<1>7. stats' = [stats EXCEPT !.unused = stats.unused + BlockSize,
                             !.total = stats.total + BlockSize, !.blocks = n + 1]
  BY DEF AddBlock
<1>8. /\ stats' \in [used: Nat, unused: Nat, total: Nat, blocks: Nat]
      /\ stats'.used = stats.used /\ stats'.blocks = n + 1
      /\ stats'.unused = stats.unused + BlockSize /\ stats'.total = stats.total + BlockSize
  <2>1. /\ stats.used \in Nat /\ stats.unused \in Nat /\ stats.total \in Nat
        /\ stats.blocks \in Nat
    BY <1>1
  <2>2. stats' = [used |-> stats.used, unused |-> stats.unused + BlockSize,
                  total |-> stats.total + BlockSize, blocks |-> n + 1]
    BY <1>1, <1>7
  <2>. QED  BY <1>2, <2>1, <2>2
<1>9. list' \in [{0, 1} -> HalfList]
  <2>1. \A h \in {0, 1} : list'[h] \in HalfList
    BY <1>1, <1>3, <1>4, <1>6, ZenonT(60) DEF HalfList
  <2>2. list' = [h \in {0, 1} |-> list'[h]]  BY DEF AddBlock, PairAdded
  <2>. QED  BY <2>1, <2>2
<1>10. ListInv'  BY <1>5, <1>6, <1>8 DEF ListInv, Blocks
<1>11. inuse' = inuse /\ free' /= <<>>  BY <1>1, <1>5, <1>6 DEF inuse, free
<1>12. PointerInv'  BY <1>1, <1>8, <1>11 DEF PointerInv
<1>13. CountInv'
  <2>1. n \in Nat /\ (n + 1) * BlockSize = n * BlockSize + BlockSize  BY <1>1, Products
  <2>. QED  BY <1>1, <1>2, <1>8, <2>1 DEF CountInv
<1>. QED  BY <1>8, <1>9, <1>10, <1>11, <1>12, <1>13

\* flip_spaces: the other half is empty, and all its blocks are free.
LEMMA FlipStep ==
    ASSUME HeapInv, half' = 1 - half,
           list' = [list EXCEPT ![1 - half] = Flipped(list[1 - half])],
           pointer' = [block |-> NIL, index |-> 0],
           stats' = [stats EXCEPT !.used = 0, !.unused = stats.total]
    PROVE  /\ list' \in [{0, 1} -> HalfList] /\ half' \in {0, 1}
           /\ pointer' \in [block: Nat \union {NIL}, index: 0 .. BlockSize]
           /\ stats' \in [used: Nat, unused: Nat, total: Nat, blocks: Nat]
           /\ stats'.total = stats.total
           /\ ListInv' /\ PointerInv' /\ CountInv'
           /\ inuse' = <<>>
<1>1. /\ list \in [{0, 1} -> HalfList] /\ half \in {0, 1}
      /\ stats \in [used: Nat, unused: Nat, total: Nat, blocks: Nat]
      /\ ListInv /\ CountInv
  BY DEF HeapInv, TypeOK
<1>. DEFINE o == 1 - half
            both == list[o].inuse \o list[o].free
<1>2. o \in {0, 1} /\ half' = o /\ \A h \in {0, 1} : h = half \/ h = o  BY <1>1
<1>. HIDE DEF o
<1>3. list[o].inuse \in Seq(Nat) /\ list[o].free \in Seq(Nat)
  BY <1>1, <1>2 DEF HalfList
<1>4. both \in Seq(Nat)  BY <1>3, ConcatProperties
<1>5. Flipped(list[o]) = [inuse |-> <<>>, free |-> both]  BY DEF Flipped
<1>6. list'[o] = [inuse |-> <<>>, free |-> both] /\ o /= half /\ list'[half] = list[half]
  <2>1. list' = [list EXCEPT ![o] = Flipped(list[o])]  BY DEF o
  <2>2. o /= half  BY <1>1 DEF o
  <2>. QED  BY <1>1, <1>2, <1>5, <2>1, <2>2
<1>7. list' \in [{0, 1} -> HalfList]
  <2>1. Flipped(list[1 - half]) \in HalfList
    <3>1. Flipped(list[1 - half]) = [inuse |-> <<>>, free |-> both]  BY DEF Flipped, o
    <3>2. <<>> \in Seq(Nat)  BY EmptySeq
    <3>. HIDE DEF both
    <3>. QED  BY <1>4, <3>1, <3>2 DEF HalfList
  <2>. QED  BY <1>1, <1>2, <2>1 DEF o
<1>8. /\ stats' \in [used: Nat, unused: Nat, total: Nat, blocks: Nat]
      /\ stats'.used = 0 /\ stats'.total = stats.total /\ stats'.blocks = stats.blocks
      /\ stats'.unused = stats.total
  BY <1>1
<1>9. inuse' = <<>>  BY <1>2, <1>6 DEF inuse
<1>10. ListInv'
  <2>1. ASSUME NEW h \in {0, 1}, h = o  PROVE Blocks(h)' = Blocks(h)
    <3>0. list'[h].inuse = <<>> /\ list'[h].free = both
      <4>. HIDE DEF both
      <4>. QED  BY <1>6, <2>1
    <3>1. Blocks(h)' = <<>> \o both
      <4>. HIDE DEF both
      <4>. QED  BY <3>0 DEF Blocks
    <3>. QED  BY <1>4, <2>1, <3>1, ConcatEmptySeq DEF Blocks
  <2>2. ASSUME NEW h \in {0, 1}, h = half  PROVE Blocks(h)' = Blocks(h)
    BY <1>6, <2>2 DEF Blocks
  <2>3. \A h \in {0, 1} : Blocks(h)' = Blocks(h)  BY <1>2, <2>1, <2>2
  <2>. QED  BY <1>1, <1>8, <2>3 DEF ListInv
<1>11. PointerInv'  BY <1>8, <1>9 DEF PointerInv
<1>12. CountInv'  BY <1>1, <1>8 DEF CountInv
<1>. QED  BY <1>1, <1>2, <1>7, <1>8, <1>9, <1>10, <1>11, <1>12, BlocksAssumption

\* Steps that leave the lists alone.
LEMMA SameHeap ==
    ASSUME HeapInv, UNCHANGED <<list, half, pointer, stats>>
    PROVE  ListInv' /\ PointerInv' /\ CountInv' /\ inuse' = inuse /\ free' = free
BY DEF HeapInv, ListInv, Blocks, PointerInv, CountInv, inuse, free

-----------------------------------------------------------------------------
(* Every step keeps the invariant.                                         *)

LEMMA InitIInv == Init => IInv
<1>. SUFFICES ASSUME Init  PROVE IInv  OBVIOUS
<1>. USE DEF Init
<1>1. inuse = <<>>  BY DEF inuse
<1>2. TypeOK
  <2>1. [inuse |-> <<>>, free |-> <<>>] \in HalfList
    BY EmptySeq DEF HalfList
  <2>2. list \in [{0, 1} -> HalfList]  BY <2>1
  <2>3. pointer \in [block: Nat \union {NIL}, index: 0 .. BlockSize]
    BY BlocksAssumption
  <2>4. stats \in [used: Nat, unused: Nat, total: Nat, blocks: Nat]  OBVIOUS
  <2>5. gc \in [on: BOOLEAN, generators: 0 .. MaxGens]
    <3>1. 0 \in 0 .. MaxGens  BY BlocksAssumption
    <3>. QED  BY <3>1
  <2>6. other \in 0 .. MaxOther /\ added \in 0 .. InitBlocks /\ limit \in MemLimits
    BY BlocksAssumption
  <2>7. cursor \in [place: Nat, i: 0 .. BlockSize, branch: {"T", "E"}]
    BY BlocksAssumption
  <2>8. scanned \subseteq Nat \X (0 .. BlockSize)  OBVIOUS
  <2>. HIDE DEF Init
  <2>9. half \in {0, 1} /\ pc = "idle" /\ caller = "none" /\ request = FALSE /\ prev = 0
    BY DEF Init
  <2>. QED  BY <2>2, <2>3, <2>4, <2>5, <2>6, <2>7, <2>8, <2>9 DEF TypeOK
<1>3. ListInv
  <2>1. <<>> \o <<>> = <<>>  BY ConcatEmptySeq, EmptySeq
  <2>2. \A h \in {0, 1} : Blocks(h) = <<>>  BY <2>1 DEF Blocks
  <2>3. Arranges(<<>>, 0)  BY DEF Arranges
  <2>. QED  BY <2>2, <2>3 DEF ListInv
<1>4. PointerInv  BY <1>1 DEF PointerInv
<1>5. CountInv  BY BlocksAssumption DEF CountInv
<1>6. ControlInv  BY DEF ControlInv
<1>7. CursorInv  BY DEF CursorInv
<1>. QED  BY <1>2, <1>3, <1>4, <1>5, <1>6, <1>7 DEF IInv

\* bdd_garbage_collect, called by get_node_block or on its way to the daemon.
LEMMA CollectStep ==
    ASSUME IInv, NEW who \in {"full", "limit"}, GarbageCollect(who),
           pc \in {"idle", "init", "grow"}, who = "full" => inuse /= <<>>,
           UNCHANGED setting, added' \in 0 .. InitBlocks
    PROVE  IInv'
<1>1. HeapInv /\ TypeOK  BY DEF IInv, HeapInv
<1>2. caller = "none"  BY DEF IInv, ControlInv
<1>3. gc' = gc /\ limit' = limit /\ other' = other  BY DEF setting
<1>4. CASE GcSkipped(who)
  <2>1. UNCHANGED <<list, half, pointer, stats, prev, cursor, scanned>>
    BY <1>4 DEF GcSkipped
  <2>2. ListInv' /\ PointerInv' /\ CountInv' /\ inuse' = inuse /\ free' = free
    BY <1>1, <2>1, SameHeap
  <2>3. /\ pc' = IF who = "full" THEN "grow" ELSE "daemon"
        /\ request' = IF who = "full" THEN RequestAfter(list[half], pointer) ELSE request
        /\ caller' = "none"
    BY <1>4 DEF GcSkipped, Return
  <2>4. TypeOK'  BY <1>1, <1>3, <2>1, <2>3 DEF TypeOK, RequestAfter
  <2>5. ControlInv'
    <3>1. who = "full" =>
            /\ request' <=> ~(pointer.index >= BlockSize /\ free = <<>>)
            /\ (pointer.index >= BlockSize /\ free = <<>>) => stats.unused = 0
      BY <1>1, <2>3, Fullness DEF RequestAfter, free, NeedsBlock
    <3>2. pointer.index \in 0 .. BlockSize /\ BlockSize \in Nat
      BY <1>1, BlocksAssumption DEF TypeOK
    <3>. QED  BY <2>1, <2>2, <2>3, <3>1, <3>2 DEF ControlInv
  <2>6. CursorInv'  BY <2>3 DEF CursorInv
  <2>. QED  BY <2>2, <2>4, <2>5, <2>6 DEF IInv
<1>5. CASE (GcFails \/ GcCrashes) /\ UNCHANGED half
  <2>1. /\ UNCHANGED <<list, half, pointer, stats, caller, request, prev, cursor, scanned>>
        /\ pc' \in {"failed", "crashed"}
    BY <1>5 DEF GcFails, GcCrashes
  <2>2. ListInv' /\ PointerInv' /\ CountInv'
    BY <1>1, <2>1, SameHeap
  <2>3. TypeOK'  BY <1>1, <1>3, <2>1 DEF TypeOK
  <2>4. ControlInv' /\ CursorInv'  BY <1>2, <2>1 DEF ControlInv, CursorInv
  <2>. QED  BY <2>2, <2>3, <2>4 DEF IInv
<1>6. CASE Flip_spaces(who)
  <2>1. /\ half' = 1 - half
        /\ list' = [list EXCEPT ![1 - half] = Flipped(list[1 - half])]
        /\ pointer' = [block |-> NIL, index |-> 0]
        /\ stats' = [stats EXCEPT !.used = 0, !.unused = stats.total]
        /\ pc' = "one" /\ caller' = who /\ prev' = stats.used /\ scanned' = {}
        /\ request' = request /\ cursor' = cursor
    BY <1>6 DEF Flip_spaces
  <2>2. /\ list' \in [{0, 1} -> HalfList] /\ half' \in {0, 1}
        /\ pointer' \in [block: Nat \union {NIL}, index: 0 .. BlockSize]
        /\ stats' \in [used: Nat, unused: Nat, total: Nat, blocks: Nat]
        /\ stats'.total = stats.total
        /\ ListInv' /\ PointerInv' /\ CountInv' /\ inuse' = <<>>
    BY <1>1, <2>1, FlipStep
  <2>3. stats.used \in Nat  BY <1>1 DEF TypeOK
  <2>4. TypeOK'
    BY <1>1, <1>3, <2>1, <2>2, <2>3 DEF TypeOK
  <2>5. ControlInv'
    <3>1. stats.used <= stats.total  BY <1>1, Fullness
    <3>. QED  BY <2>1, <2>2, <3>1 DEF ControlInv
  <2>6. CursorInv'  BY <2>1, <2>2 DEF CursorInv
  <2>. QED  BY <2>2, <2>4, <2>5, <2>6 DEF IInv
<1>. QED  BY <1>4, <1>5, <1>6 DEF GarbageCollect

\* The callers of the manager, while no call is under way, and bdd_new_node.
LEMMA OutsideStep == IInv /\ Outside => IInv'
<1>. SUFFICES ASSUME IInv, Outside  PROVE IInv'  OBVIOUS
<1>1. HeapInv /\ TypeOK  BY DEF IInv, HeapInv
<1>2. CASE SetGcMode \/ OpenGenerator \/ FreeGenerator \/ OtherMemory
  <2>1. UNCHANGED <<list, half, pointer, stats, limit, pc, request, added,
                    caller, prev, cursor, scanned>>
    BY <1>2 DEF SetGcMode, OpenGenerator, FreeGenerator, OtherMemory, collecting
  <2>2. ListInv' /\ PointerInv' /\ CountInv' /\ inuse' = inuse /\ free' = free
    BY <1>1, <2>1, SameHeap
  <2>3. gc' \in [on: BOOLEAN, generators: 0 .. MaxGens] /\ other' \in 0 .. MaxOther
    <3>1. MaxGens \in Nat /\ MaxOther \in Nat  BY BlocksAssumption
    <3>2. gc \in [on: BOOLEAN, generators: 0 .. MaxGens] /\ other \in 0 .. MaxOther
      BY <1>1 DEF TypeOK
    <3>3. CASE SetGcMode  BY <3>2, <3>3 DEF SetGcMode
    <3>4. CASE OpenGenerator  BY <3>1, <3>2, <3>4 DEF OpenGenerator
    <3>5. CASE FreeGenerator  BY <3>1, <3>2, <3>5 DEF FreeGenerator
    <3>6. CASE OtherMemory  BY <3>2, <3>6 DEF OtherMemory
    <3>. QED  BY <1>2, <3>3, <3>4, <3>5, <3>6
  <2>4. TypeOK'  BY <1>1, <2>1, <2>3 DEF TypeOK
  <2>5. ControlInv' /\ CursorInv'
    BY <2>1, <2>2 DEF IInv, ControlInv, CursorInv, CellsBefore, NeedsBlock
  <2>. QED  BY <2>2, <2>4, <2>5 DEF IInv
<1>3. CASE NewNode
  <2>1. /\ pc = "idle" /\ AllocateNode
        /\ UNCHANGED <<half, gc, limit, other, pc, request, added, caller, prev, cursor, scanned>>
    BY <1>3 DEF NewNode, setting, collecting
  <2>2. /\ list' \in [{0, 1} -> HalfList]
        /\ pointer' \in [block: Nat \union {NIL}, index: 0 .. BlockSize]
        /\ stats' \in [used: Nat, unused: Nat, total: Nat, blocks: Nat]
        /\ ListInv' /\ PointerInv' /\ CountInv'
    BY <1>1, <2>1, AllocateStep
  <2>3. TypeOK'  BY <1>1, <2>1, <2>2 DEF TypeOK
  <2>4. ControlInv' /\ CursorInv'  BY <2>1 DEF IInv, ControlInv, CursorInv
  <2>. QED  BY <2>2, <2>3, <2>4 DEF IInv
<1>4. CASE NewNodeInit
  <2>1. /\ pc = "idle" /\ free = <<>> /\ inuse = <<>>
        /\ pc' = "init" /\ added' = 0 /\ request' = FALSE
        /\ UNCHANGED <<list, half, pointer, stats, gc, limit, other, caller, prev, cursor, scanned>>
    BY <1>4 DEF NewNodeInit, setting, collecting
  <2>2. ListInv' /\ PointerInv' /\ CountInv' /\ inuse' = inuse /\ free' = free
    BY <1>1, <2>1, SameHeap
  <2>3. TypeOK'
    <3>1. added' \in 0 .. InitBlocks  BY <2>1, BlocksAssumption
    <3>. QED  BY <1>1, <2>1, <3>1 DEF TypeOK
  <2>4. ControlInv' /\ CursorInv'  BY <2>1, <2>2 DEF IInv, ControlInv, CursorInv
  <2>. QED  BY <2>2, <2>3, <2>4 DEF IInv
<1>5. CASE NewNodeFull
  <2>1. /\ pc = "idle" /\ inuse /= <<>> /\ GarbageCollect("full")
        /\ UNCHANGED <<setting, added>>
    BY <1>5 DEF NewNodeFull
  <2>2. added' \in 0 .. InitBlocks  BY <1>1, <2>1 DEF TypeOK
  <2>. QED  BY <2>1, <2>2, CollectStep
<1>. QED  BY <1>2, <1>3, <1>4, <1>5 DEF Outside

\* get_node_block, and the daemon.
LEMMA GetNodeBlockStep == IInv /\ GetNodeBlock => IInv'
<1>. SUFFICES ASSUME IInv, GetNodeBlock  PROVE IInv'  OBVIOUS
<1>1. HeapInv /\ TypeOK /\ ControlInv  BY DEF IInv, HeapInv
<1>2. CASE InitAdd \/ GrowAdd
  <2>1. /\ AddBlock /\ request' = TRUE /\ pc \in {"init", "grow"}
        /\ UNCHANGED <<half, pointer, gc, limit, other, pc, caller, prev, cursor, scanned>>
    BY <1>2 DEF InitAdd, GrowAdd, setting, collecting
  <2>2. added' \in 0 .. InitBlocks
    <3>1. added \in 0 .. InitBlocks /\ InitBlocks \in Nat  BY <1>1, BlocksAssumption DEF TypeOK
    <3>. QED  BY <1>2, <3>1 DEF InitAdd, GrowAdd
  <2>3. /\ list' \in [{0, 1} -> HalfList]
        /\ stats' \in [used: Nat, unused: Nat, total: Nat, blocks: Nat]
        /\ ListInv' /\ PointerInv' /\ CountInv'
        /\ inuse' = inuse /\ free' /= <<>>
    BY <1>1, <2>1, AddStep
  <2>4. TypeOK'
    <3>1. /\ UNCHANGED <<half, pointer, gc, limit, other, pc, caller, prev, cursor, scanned>>
          /\ request' \in BOOLEAN
      BY <2>1
    <3>. QED  BY <1>1, <2>2, <2>3, <3>1 DEF TypeOK
  <2>5. ControlInv' /\ CursorInv'  BY <1>1, <2>1, <2>3 DEF ControlInv, CursorInv
  <2>. QED  BY <2>3, <2>4, <2>5 DEF IInv
<1>3. CASE StopAdding
  <2>1. /\ pc \in {"init", "grow"} /\ (Wanting => request)
        /\ pc' = "take" /\ added' = 0
        /\ UNCHANGED <<list, half, pointer, stats, gc, limit, other, request,
                       caller, prev, cursor, scanned>>
    BY <1>3 DEF StopAdding, setting, collecting
  <2>2. ListInv' /\ PointerInv' /\ CountInv' /\ inuse' = inuse /\ free' = free
    BY <1>1, <2>1, SameHeap
  <2>3. TypeOK'  BY <1>1, <2>1, BlocksAssumption DEF TypeOK
  <2>4. ~NeedsBlock \/ free /= <<>>
    <3>1. CASE pc = "init"
      <4>1. Wanting \/ added >= InitBlocks  BY <1>1, <3>1, BlocksAssumption DEF Wanting, TypeOK
      <4>2. InitBlocks > 0  BY BlocksAssumption
      <4>3. added \in Nat /\ InitBlocks \in Nat  BY <1>1, BlocksAssumption DEF TypeOK
      <4>4. request \/ added > 0  BY <2>1, <4>1, <4>2, <4>3
      <4>. QED  BY <1>1, <3>1, <4>4 DEF ControlInv
    <3>2. CASE pc = "grow"
      <4>1. ~request => Wanting
        <5>1. SUFFICES ASSUME ~request  PROVE GrowthWanted  BY <3>2 DEF Wanting
        <5>2. stats.unused = 0 /\ inuse /= <<>>  BY <1>1, <3>2, <5>1 DEF ControlInv
        <5>3. stats.used > 0  BY <1>1, <5>2, Fullness
        <5>4. 0 * NodeRatio = 0  BY BlocksAssumption
        <5>. QED  BY <5>2, <5>3, <5>4 DEF GrowthWanted
      <4>2. request  BY <2>1, <4>1
      <4>3. inuse /= <<>> /\ (pointer.index < BlockSize \/ free /= <<>>)
        BY <1>1, <3>2, <4>2 DEF ControlInv
      <4>4. pointer.block /= NIL
        <5>1. pointer.block = inuse[Len(inuse)]  BY <1>1, <4>3 DEF HeapInv, PointerInv
        <5>2. inuse \in Seq(Nat) /\ Len(inuse) \in 1 .. Len(inuse)  BY <1>1, <4>3, HalfFacts
        <5>. QED  BY <5>1, <5>2, ElementOfSeq, BlocksAssumption
      <4>5. pointer.index \in Nat /\ BlockSize \in Nat
        BY <1>1, BlocksAssumption DEF TypeOK
      <4>. QED  BY <4>3, <4>4, <4>5 DEF NeedsBlock
    <3>. QED  BY <2>1, <3>1, <3>2
  <2>5. caller = "none"  BY <1>1, <2>1 DEF ControlInv
  <2>6. ControlInv'  BY <2>1, <2>2, <2>4, <2>5 DEF ControlInv, NeedsBlock
  <2>7. CursorInv'  BY <2>1 DEF CursorInv
  <2>. QED  BY <2>2, <2>3, <2>6, <2>7 DEF IInv
<1>4. CASE QuitComputation
  <2>1. /\ pc \in {"init", "grow"} /\ GarbageCollect("limit")
        /\ added' = 0 /\ UNCHANGED setting
    BY <1>4 DEF QuitComputation, Wanting
  <2>2. added' \in 0 .. InitBlocks  BY <2>1, BlocksAssumption
  <2>. QED  BY <2>1, <2>2, CollectStep
<1>5. CASE CallDaemon
  <2>1. /\ pc = "daemon" /\ pc' = "idle" /\ request' = FALSE
        /\ UNCHANGED <<list, half, pointer, stats, gc, limit, other, added,
                       caller, prev, cursor, scanned>>
    BY <1>5 DEF CallDaemon, setting, collecting
  <2>2. ListInv' /\ PointerInv' /\ CountInv'  BY <1>1, <2>1, SameHeap
  <2>3. TypeOK'  BY <1>1, <2>1 DEF TypeOK
  <2>4. ControlInv' /\ CursorInv'  BY <1>1, <2>1 DEF ControlInv, CursorInv
  <2>. QED  BY <2>2, <2>3, <2>4 DEF IInv
<1>6. CASE TakeBlock
  <2>1. /\ pc = "take" /\ AllocateNode /\ pc' = "idle" /\ request' = FALSE
        /\ UNCHANGED <<half, gc, limit, other, added, caller, prev, cursor, scanned>>
    BY <1>6 DEF TakeBlock, setting, collecting
  <2>2. /\ list' \in [{0, 1} -> HalfList]
        /\ pointer' \in [block: Nat \union {NIL}, index: 0 .. BlockSize]
        /\ stats' \in [used: Nat, unused: Nat, total: Nat, blocks: Nat]
        /\ ListInv' /\ PointerInv' /\ CountInv'
    BY <1>1, <2>1, AllocateStep
  <2>3. TypeOK'  BY <1>1, <2>1, <2>2 DEF TypeOK
  <2>4. ControlInv' /\ CursorInv'  BY <1>1, <2>1 DEF ControlInv, CursorInv
  <2>. QED  BY <2>2, <2>3, <2>4 DEF IInv
<1>. QED  BY <1>2, <1>3, <1>4, <1>5, <1>6 DEF GetNodeBlock

\* The cells relocate leaves alone are those before the copies it adds.
LEMMA CursorFacts ==
    ASSUME IInv, pc = "scan"
    PROVE  /\ cursor.place \in 1 .. Len(inuse)
           /\ cursor.i \in 0 .. BlockSize - 1
           /\ cursor.place = Len(inuse) => cursor.i < pointer.index
           /\ Cursor = <<inuse[cursor.place], cursor.i>>
           /\ inuse[cursor.place] \in Nat
           /\ scanned = CellsBefore(inuse, cursor.place, cursor.i)
<1>1. /\ cursor.place \in 1 .. Len(inuse)
      /\ cursor.i \in 0 .. BlockSize - 1
      /\ cursor.place = Len(inuse) => cursor.i < pointer.index
      /\ scanned = CellsBefore(inuse, cursor.place, cursor.i)
  BY DEF IInv, CursorInv
<1>2. inuse \in Seq(Nat)  BY HalfFacts DEF IInv, HeapInv
<1>. QED  BY <1>1, <1>2, ElementOfSeq DEF Cursor

\* relocate, called by scan_newhalf: what it copies goes behind the cursor.
LEMMA RelocateStep ==
    ASSUME IInv, pc = "scan", half' = half,
           (RelocateCopies \/ RelocateForwards)
    PROVE  /\ list' \in [{0, 1} -> HalfList]
           /\ pointer' \in [block: Nat \union {NIL}, index: 0 .. BlockSize]
           /\ stats' \in [used: Nat, unused: Nat, total: Nat, blocks: Nat]
           /\ ListInv' /\ PointerInv' /\ CountInv'
           /\ stats'.total = stats.total
           /\ inuse' \in Seq(Nat) /\ inuse' /= <<>>
           /\ cursor.place \in 1 .. Len(inuse')
           /\ cursor.place = Len(inuse') => cursor.i < pointer'.index
           /\ inuse'[cursor.place] = inuse[cursor.place]
           /\ \A i \in Nat : CellsBefore(inuse', cursor.place, i) = CellsBefore(inuse, cursor.place, i)
<1>1. HeapInv /\ TypeOK /\ inuse /= <<>>  BY DEF IInv, HeapInv, ControlInv
<1>2. /\ inuse \in Seq(Nat) /\ Len(inuse) \in Nat
      /\ cursor.place \in 1 .. Len(inuse) /\ cursor.i \in 0 .. BlockSize - 1
      /\ cursor.place = Len(inuse) => cursor.i < pointer.index
  BY <1>1, HalfFacts, CursorFacts
<1>3. CASE RelocateForwards
  <2>1. UNCHANGED <<list, half, pointer, stats>>  BY <1>3 DEF RelocateForwards
  <2>2. ListInv' /\ PointerInv' /\ CountInv' /\ inuse' = inuse /\ free' = free
    BY <1>1, <2>1, SameHeap
  <2>. QED  BY <1>1, <1>2, <2>1, <2>2 DEF TypeOK
<1>4. CASE RelocateCopies
  <2>1. /\ list' \in [{0, 1} -> HalfList]
        /\ pointer' \in [block: Nat \union {NIL}, index: 0 .. BlockSize]
        /\ stats' \in [used: Nat, unused: Nat, total: Nat, blocks: Nat]
        /\ ListInv' /\ PointerInv' /\ CountInv'
        /\ inuse' \in Seq(Nat) /\ inuse' /= <<>>
        /\ Len(inuse') >= Len(inuse)
        /\ \A k \in 1 .. Len(inuse) : inuse'[k] = inuse[k]
        /\ stats'.total = stats.total
        /\ \/ /\ inuse' = inuse /\ inuse /= <<>>
              /\ pointer'.index = pointer.index + 1
           \/ /\ Len(inuse') = Len(inuse) + 1 /\ pointer'.index = 1
              /\ inuse /= <<>> => pointer.index = BlockSize
    BY <1>1, <1>4, AllocateStep DEF RelocateCopies
  <2>2. Len(inuse') \in Nat  BY <2>1, LenProperties
  <2>3. pointer.index \in Nat /\ cursor.i \in Nat /\ BlockSize \in Nat
    BY <1>1, <1>2, BlocksAssumption DEF TypeOK
  <2>4. cursor.place \in 1 .. Len(inuse')  BY <1>2, <2>1, <2>2
  <2>5. cursor.place = Len(inuse') => cursor.i < pointer'.index
    BY <1>2, <2>1, <2>2, <2>3, SMTT(60)
  <2>6. \A i \in Nat : CellsBefore(inuse', cursor.place, i) = CellsBefore(inuse, cursor.place, i)
    BY <1>2, <2>1, CellsKept, SMTT(60)
  <2>. QED  BY <1>2, <2>1, <2>4, <2>5, <2>6
<1>. QED  BY <1>3, <1>4

\* scan_newhalf goes on to the next copy, or finds that this was the last.
LEMMA ScanEStep == IInv /\ ScanE => IInv'
<1>. SUFFICES ASSUME IInv, ScanE  PROVE IInv'  OBVIOUS
<1>. DEFINE m == cursor.place
            i == cursor.i
            last == m = Len(inuse')
            past == IF last THEN pointer'.index ELSE BlockSize
<1>1. HeapInv /\ TypeOK /\ ControlInv  BY DEF IInv, HeapInv
<1>2. /\ pc = "scan" /\ (RelocateCopies \/ RelocateForwards)
      /\ Advance(list'[half], pointer')
      /\ scanned' = scanned \union {Cursor}
      /\ UNCHANGED <<half, gc, limit, other, request, added, caller, prev>>
  BY DEF ScanE, setting
<1>3. /\ list' \in [{0, 1} -> HalfList]
      /\ pointer' \in [block: Nat \union {NIL}, index: 0 .. BlockSize]
      /\ stats' \in [used: Nat, unused: Nat, total: Nat, blocks: Nat]
      /\ ListInv' /\ PointerInv' /\ CountInv'
      /\ stats'.total = stats.total
      /\ inuse' \in Seq(Nat) /\ inuse' /= <<>>
      /\ m \in 1 .. Len(inuse')
      /\ m = Len(inuse') => i < pointer'.index
      /\ inuse'[m] = inuse[m]
      /\ \A k \in Nat : CellsBefore(inuse', m, k) = CellsBefore(inuse, m, k)
  BY <1>2, RelocateStep
<1>4. /\ i \in 0 .. BlockSize - 1 /\ inuse[m] \in Nat
      /\ Cursor = <<inuse[m], i>> /\ scanned = CellsBefore(inuse, m, i)
  BY <1>2, CursorFacts
<1>5. /\ Len(inuse') \in Nat /\ BlockSize \in Nat \ {0}
      /\ pointer'.index \in 1 .. BlockSize /\ pointer'.block = inuse'[Len(inuse')]
  <2>1. pointer'.index >= 1 /\ pointer'.block = inuse'[Len(inuse')]  BY <1>3 DEF PointerInv
  <2>2. pointer'.index \in 0 .. BlockSize  BY <1>3
  <2>. QED  BY <1>3, <2>1, <2>2, BlocksAssumption, LenProperties
<1>6. (inuse'[m] = pointer'.block) <=> last
  <2>1. half' \in {0, 1}  BY <1>1, <1>2 DEF TypeOK
  <2>2. Arranges(inuse' \o free', stats'.blocks) /\ stats'.blocks \in Nat
    BY <1>3, <2>1 DEF ListInv, Blocks, inuse, free
  <2>3. free' \in Seq(Nat)  BY <1>3, <2>1 DEF free, HalfList
  <2>4. Len(inuse') \in 1 .. Len(inuse')  BY <1>3, <1>5
  <2>. QED  BY <1>3, <1>5, <2>2, <2>3, <2>4, UsedOnce
<1>7. /\ i + 1 < past =>
           /\ cursor' = [cursor EXCEPT !.i = i + 1, !.branch = "T"] /\ pc' = pc
      /\ ~(i + 1 < past) /\ last => pc' = "swept" /\ UNCHANGED cursor
      /\ ~(i + 1 < past) /\ ~last =>
           /\ cursor' = [place |-> m + 1, i |-> 0, branch |-> "T"] /\ pc' = pc
  <2>1. list'[half].inuse = inuse'  BY <1>2 DEF inuse
  <2>. QED  BY <1>2, <1>6, <2>1 DEF Advance
<1>8. cursor \in [place: Nat, i: 0 .. BlockSize, branch: {"T", "E"}]  BY <1>1 DEF TypeOK
<1>9. i \in Nat /\ i + 1 \in Nat /\ m \in Nat /\ m + 1 \in Nat  BY <1>4, <1>8
<1>10. scanned' = CellsBefore(inuse', m, i + 1)
  <2>1. CellsBefore(inuse', m, i + 1) = CellsBefore(inuse', m, i) \union {<<inuse'[m], i>>}
    BY <1>3, <1>4, CellsNext, SMTT(60)
  <2>. QED  BY <1>2, <1>3, <1>4, <1>9, <2>1
<1>11. scanned' \subseteq Nat \X (0 .. BlockSize)
  <2>1. scanned \subseteq Nat \X (0 .. BlockSize)  BY <1>1 DEF TypeOK
  <2>2. Cursor \in Nat \X (0 .. BlockSize)
    <3>1. i \in 0 .. BlockSize  BY <1>4, <1>5
    <3>. QED  BY <1>4, <3>1
  <2>. QED  BY <1>2, <2>1, <2>2
<1>12. ASSUME cursor' \in [place: Nat, i: 0 .. BlockSize, branch: {"T", "E"}],
              pc' \in {"scan", "swept"}
       PROVE  TypeOK'
  BY <1>1, <1>2, <1>3, <1>11, <1>12 DEF TypeOK
<1>13. ASSUME pc' \in {"scan", "swept"}  PROVE ControlInv'
  BY <1>1, <1>2, <1>3, <1>13 DEF ControlInv
<1>14. CASE i + 1 < past
  <2>1. i + 1 \in 0 .. BlockSize - 1 /\ (last => i + 1 < pointer'.index)
    BY <1>4, <1>5, <1>14
  <2>2. /\ cursor' = [cursor EXCEPT !.i = i + 1, !.branch = "T"] /\ pc' = "scan"
    BY <1>2, <1>7, <1>14
  <2>3. /\ cursor'.place = m /\ cursor'.i = i + 1
        /\ cursor' \in [place: Nat, i: 0 .. BlockSize, branch: {"T", "E"}]
    <3>1. i + 1 \in 0 .. BlockSize  BY <1>5, <2>1
    <3>. QED  BY <1>8, <2>2, <3>1
  <2>4. TypeOK' /\ ControlInv'  BY <1>12, <1>13, <2>2, <2>3
  <2>5. CursorInv'
    <3>. HIDE DEF past
    <3>. QED  BY <1>3, <1>10, <2>1, <2>2, <2>3 DEF CursorInv
  <2>. QED  BY <1>3, <2>4, <2>5 DEF IInv
<1>15. CASE ~(i + 1 < past) /\ last
  <2>1. pc' = "swept" /\ cursor' = cursor  BY <1>7, <1>15
  <2>2. i + 1 = pointer'.index
    BY <1>3, <1>5, <1>9, <1>15
  <2>3. TypeOK' /\ ControlInv'  BY <1>8, <1>12, <1>13, <2>1
  <2>4. CursorInv'  BY <1>10, <1>15, <2>1, <2>2 DEF CursorInv
  <2>. QED  BY <1>3, <2>3, <2>4 DEF IInv
<1>16. CASE ~(i + 1 < past) /\ ~last
  <2>1. cursor' = [place |-> m + 1, i |-> 0, branch |-> "T"] /\ pc' = "scan"
    BY <1>2, <1>7, <1>16
  <2>2. i + 1 = BlockSize  BY <1>4, <1>5, <1>16
  <2>3. scanned' = CellsBefore(inuse', m + 1, 0)
    BY <1>3, <1>4, <1>10, <2>2, CellsNext, SMTT(60)
  <2>4. m + 1 \in 1 .. Len(inuse') /\ 0 \in 0 .. BlockSize - 1 /\ 0 \in 0 .. BlockSize
        /\ 0 < pointer'.index
    BY <1>3, <1>5, <1>16, SMTT(60)
  <2>5. cursor' \in [place: Nat, i: 0 .. BlockSize, branch: {"T", "E"}]
    BY <1>9, <2>1, <2>4
  <2>6. TypeOK' /\ ControlInv'  BY <1>12, <1>13, <2>1, <2>5
  <2>7. CursorInv'  BY <2>1, <2>3, <2>4 DEF CursorInv
  <2>. QED  BY <1>3, <2>6, <2>7 DEF IInv
<1>. QED  BY <1>14, <1>15, <1>16

\* The collector.
LEMMA CollectorStep == IInv /\ Collector => IInv'
<1>. SUFFICES ASSUME IInv, Collector  PROVE IInv'  OBVIOUS
<1>1. HeapInv /\ TypeOK /\ ControlInv /\ CursorInv  BY DEF IInv, HeapInv
<1>2. CASE RelocateOne \/ RelocateRoot
  <2>1. /\ pc \in {"one", "roots"} /\ RelocateCopies /\ pc' = "roots"
        /\ UNCHANGED <<half, gc, limit, other, request, added, caller, prev, cursor, scanned>>
    BY <1>2 DEF RelocateOne, RelocateRoot, setting, collecting
  <2>2. /\ list' \in [{0, 1} -> HalfList]
        /\ pointer' \in [block: Nat \union {NIL}, index: 0 .. BlockSize]
        /\ stats' \in [used: Nat, unused: Nat, total: Nat, blocks: Nat]
        /\ ListInv' /\ PointerInv' /\ CountInv'
        /\ inuse' /= <<>> /\ stats'.total = stats.total
    BY <1>1, <2>1, AllocateStep DEF RelocateCopies
  <2>3. TypeOK'
    <3>1. pc' \in {"one", "roots"} /\ UNCHANGED <<half, gc, limit, other, request, added,
                                                 caller, prev, cursor, scanned>>
      BY <2>1
    <3>. QED  BY <1>1, <2>2, <3>1 DEF TypeOK
  <2>4. ControlInv' /\ CursorInv'  BY <1>1, <2>1, <2>2 DEF ControlInv, CursorInv
  <2>. QED  BY <2>2, <2>3, <2>4 DEF IInv
<1>3. CASE EndRoots
  <2>1. /\ pc = "roots" /\ pc' = "scan"
        /\ cursor' = [place |-> 1, i |-> 0, branch |-> "T"]
        /\ UNCHANGED <<list, half, pointer, stats, gc, limit, other, request, added,
                       caller, prev, scanned>>
    BY <1>3 DEF EndRoots, setting
  <2>2. ListInv' /\ PointerInv' /\ CountInv' /\ inuse' = inuse /\ free' = free
    BY <1>1, <2>1, SameHeap
  <2>3. BlockSize \in Nat \ {0}  BY BlocksAssumption
  <2>4. TypeOK'
    <3>1. cursor' \in [place: Nat, i: 0 .. BlockSize, branch: {"T", "E"}]  BY <2>1, <2>3
    <3>. QED  BY <1>1, <2>1, <3>1 DEF TypeOK
  <2>5. ControlInv'  BY <1>1, <2>1, <2>2 DEF ControlInv
  <2>6. inuse \in Seq(Nat) /\ inuse /= <<>> /\ Len(inuse) \in Nat \ {0}
    BY <1>1, <2>1, HalfFacts DEF ControlInv
  <2>7. pointer.index >= 1  BY <1>1, <2>6 DEF HeapInv, PointerInv
  <2>8. CellsBefore(inuse, 1, 0) = {}
    <3>1. ASSUME NEW c \in CellsBefore(inuse, 1, 0)  PROVE FALSE
      <4>1. PICK k \in 1 .. Len(inuse), j \in 0 .. BlockSize - 1 : Before(k, j, 1, 0)
        BY <2>6, <3>1, CellsMember
      <4>. QED  BY <2>3, <2>6, <4>1 DEF Before
    <3>. QED  BY <3>1
  <2>9. CursorInv'
    <3>1. scanned = {}  BY <1>1, <2>1 DEF CursorInv
    <3>2. 1 \in 1 .. Len(inuse) /\ 0 \in 0 .. BlockSize - 1 /\ 0 < pointer.index
      <4>1. pointer.index \in 0 .. BlockSize  BY <1>1 DEF TypeOK
      <4>. QED  BY <2>3, <2>6, <2>7, <4>1
    <3>3. pc' = "scan" /\ cursor'.place = 1 /\ cursor'.i = 0 /\ scanned' = {} /\ pointer' = pointer
      BY <2>1, <3>1
    <3>. QED  BY <2>2, <2>8, <3>2, <3>3 DEF CursorInv
  <2>. QED  BY <2>2, <2>4, <2>5, <2>9 DEF IInv
<1>4. CASE ScanT
  <2>1. /\ pc = "scan" /\ (RelocateCopies \/ RelocateForwards)
        /\ cursor' = [cursor EXCEPT !.branch = "E"]
        /\ UNCHANGED <<half, gc, limit, other, pc, request, added, caller, prev, scanned>>
    BY <1>4 DEF ScanT, setting
  <2>2. /\ list' \in [{0, 1} -> HalfList]
        /\ pointer' \in [block: Nat \union {NIL}, index: 0 .. BlockSize]
        /\ stats' \in [used: Nat, unused: Nat, total: Nat, blocks: Nat]
        /\ ListInv' /\ PointerInv' /\ CountInv'
        /\ stats'.total = stats.total /\ inuse' /= <<>>
        /\ cursor.place \in 1 .. Len(inuse')
        /\ cursor.place = Len(inuse') => cursor.i < pointer'.index
        /\ \A i \in Nat : CellsBefore(inuse', cursor.place, i) = CellsBefore(inuse, cursor.place, i)
    BY <2>1, RelocateStep
  <2>3. /\ cursor' \in [place: Nat, i: 0 .. BlockSize, branch: {"T", "E"}]
        /\ cursor'.place = cursor.place /\ cursor'.i = cursor.i /\ cursor.i \in Nat
    <3>1. cursor \in [place: Nat, i: 0 .. BlockSize, branch: {"T", "E"}]  BY <1>1 DEF TypeOK
    <3>. QED  BY <2>1, <3>1, BlocksAssumption
  <2>4. TypeOK'
    <3>1. UNCHANGED <<half, gc, limit, other, pc, request, added, caller, prev, scanned>>
      BY <2>1
    <3>. QED  BY <1>1, <2>2, <2>3, <3>1 DEF TypeOK
  <2>5. ControlInv'  BY <1>1, <2>1, <2>2 DEF ControlInv
  <2>6. CursorInv'
    <3>1. cursor.i \in 0 .. BlockSize - 1 /\ scanned = CellsBefore(inuse, cursor.place, cursor.i)
      BY <2>1, CursorFacts
    <3>2. scanned' = CellsBefore(inuse', cursor'.place, cursor'.i)  BY <2>1, <2>2, <2>3, <3>1
    <3>3. pc' = "scan"  BY <2>1
    <3>. QED  BY <2>2, <2>3, <3>1, <3>2, <3>3 DEF CursorInv
  <2>. QED  BY <2>2, <2>4, <2>5, <2>6 DEF IInv
<1>5. CASE ScanE  BY <1>5, ScanEStep
<1>6. CASE EndGc
  <2>1. /\ pc = "swept" /\ Return(caller) /\ scanned' = {} /\ prev' = 0
        /\ cursor' = [place |-> 0, i |-> 0, branch |-> "T"]
        /\ UNCHANGED <<list, half, pointer, stats, gc, limit, other, added>>
    BY <1>6 DEF EndGc, setting
  <2>2. ListInv' /\ PointerInv' /\ CountInv' /\ inuse' = inuse /\ free' = free
    BY <1>1, <2>1, SameHeap
  <2>3. /\ pc' = IF caller = "full" THEN "grow" ELSE "daemon"
        /\ request' = IF caller = "full" THEN RequestAfter(list[half], pointer) ELSE request
        /\ caller' = "none"
    BY <2>1 DEF Return
  <2>4. TypeOK'
    <3>1. cursor' \in [place: Nat, i: 0 .. BlockSize, branch: {"T", "E"}]
      BY <2>1, BlocksAssumption
    <3>2. request' \in BOOLEAN /\ pc' \in {"grow", "daemon"} /\ prev' = 0 /\ caller' = "none"
      BY <1>1, <2>1, <2>3 DEF TypeOK, RequestAfter
    <3>. QED  BY <1>1, <2>1, <3>1, <3>2 DEF TypeOK
  <2>5. ControlInv'
    <3>1. caller = "full" =>
            /\ request' <=> ~(pointer.index >= BlockSize /\ free = <<>>)
            /\ (pointer.index >= BlockSize /\ free = <<>>) => stats.unused = 0
      BY <1>1, <2>3, Fullness DEF RequestAfter, free, NeedsBlock
    <3>2. pointer.index \in 0 .. BlockSize /\ BlockSize \in Nat
      BY <1>1, BlocksAssumption DEF TypeOK
    <3>3. inuse /= <<>>  BY <1>1, <2>1 DEF ControlInv
    <3>. QED  BY <2>1, <2>2, <2>3, <3>1, <3>2, <3>3 DEF ControlInv
  <2>6. CursorInv'  BY <2>3 DEF CursorInv
  <2>. QED  BY <2>2, <2>4, <2>5, <2>6 DEF IInv
<1>. QED  BY <1>2, <1>3, <1>4, <1>5, <1>6 DEF Collector

LEMMA Stuttering == IInv /\ UNCHANGED vars => IInv'
BY SMTT(60) DEF IInv, vars, TypeOK, ListInv, Blocks, PointerInv, CountInv, ControlInv, CursorInv,
       CellsBefore, NeedsBlock, inuse, free

THEOREM IInvHolds == Spec => []IInv
<1>1. IInv /\ [Next]_vars => IInv'
  BY OutsideStep, CollectorStep, GetNodeBlockStep, Stuttering DEF Next, Stopped
<1>. QED  BY InitIInv, <1>1, PTL DEF Spec

-----------------------------------------------------------------------------
(* What the runs check, for every value of the constants.                  *)

(* The types of the state.                                                 *)
THEOREM TypeCorrect == Spec => []TypeOK
<1>1. IInv => TypeOK  BY DEF IInv
<1>. QED  BY <1>1, IInvHolds, PTL

LEMMA FirstNumbers ==
    ASSUME NEW n \in Nat
    PROVE  IsFiniteSet(0 .. n - 1) /\ Cardinality(0 .. n - 1) = n
<1>1. 0 \in Int /\ n - 1 \in Int /\ (0 > n - 1 <=> n = 0) /\ (n - 1) - 0 + 1 = n  OBVIOUS
<1>2. /\ IsFiniteSet(0 .. n - 1)
      /\ Cardinality(0 .. n - 1) = IF 0 > n - 1 THEN 0 ELSE (n - 1) - 0 + 1
  BY <1>1, FS_Interval
<1>. QED  BY <1>1, <1>2

LEMMA FilledIs ==
    ASSUME HeapInv
    PROVE  Filled = CellsBefore(inuse, Len(inuse), pointer.index)
<1>1. /\ inuse \in Seq(Nat) /\ free \in Seq(Nat) /\ Len(inuse) \in Nat
      /\ half \in {0, 1} /\ DOMAIN inuse = 1 .. Len(inuse)
      /\ pointer.index \in 0 .. BlockSize /\ BlockSize \in Nat /\ stats.blocks \in Nat
      /\ inuse = <<>> <=> Len(inuse) = 0
  BY HalfFacts, LenProperties, BlocksAssumption DEF HeapInv, TypeOK
<1>2. Arranges(inuse \o free, stats.blocks)
  BY <1>1 DEF HeapInv, ListInv, Blocks, inuse, free
<1>. DEFINE n == Len(inuse)
<1>3. ASSUME NEW k \in 1 .. n  PROVE inuse[k] = pointer.block <=> k = n
  <2>1. pointer.block = inuse[n]  BY <1>1, <1>3 DEF HeapInv, PointerInv
  <2>2. n \in 1 .. n  BY <1>1, <1>3
  <2>. QED  BY <1>1, <1>2, <2>1, <2>2, UsedOnce
<1>4. ASSUME NEW c
      PROVE  c \in Filled <=> \E k \in 1 .. n, j \in 0 .. BlockSize - 1 :
                                  Before(k, j, n, pointer.index) /\ c = <<inuse[k], j>>
  <2>1. ASSUME c \in Filled
        PROVE  \E k \in 1 .. n, j \in 0 .. BlockSize - 1 :
                   Before(k, j, n, pointer.index) /\ c = <<inuse[k], j>>
    <3>1. /\ c[1] \in {inuse[k] : k \in DOMAIN inuse} /\ c[2] \in 0 .. BlockSize - 1
          /\ c = <<c[1], c[2]>> /\ (c[1] = pointer.block => c[2] < pointer.index)
      BY <2>1 DEF Filled
    <3>2. PICK k \in 1 .. n : c[1] = inuse[k]  BY <1>1, <3>1
    <3>3. Before(k, c[2], n, pointer.index)  BY <1>1, <1>3, <3>1, <3>2 DEF Before
    <3>. QED  BY <3>1, <3>2, <3>3
  <2>2. ASSUME NEW k \in 1 .. n, NEW j \in 0 .. BlockSize - 1,
               Before(k, j, n, pointer.index), c = <<inuse[k], j>>
        PROVE  c \in Filled
    <3>1. c[1] = inuse[k] /\ c[2] = j /\ inuse[k] \in {inuse[i] : i \in DOMAIN inuse}
      BY <1>1, <2>2
    <3>2. c \in {inuse[i] : i \in DOMAIN inuse} \X (0 .. BlockSize - 1)  BY <2>2, <3>1
    <3>3. c[1] = pointer.block => c[2] < pointer.index
      <4>. SUFFICES ASSUME c[1] = pointer.block  PROVE j < pointer.index  BY <3>1
      <4>1. k = n  BY <1>3, <3>1
      <4>. QED  BY <1>1, <2>2, <4>1 DEF Before
    <3>. QED  BY <3>2, <3>3 DEF Filled
  <2>. QED  BY <2>1, <2>2
<1>5. \A c : c \in Filled <=> c \in CellsBefore(inuse, n, pointer.index)
  BY <1>1, <1>4, CellsMember
<1>. QED  BY <1>5

LEMMA FilledCount ==
    ASSUME HeapInv
    PROVE  Cardinality(Filled) = stats.used
<1>1. /\ inuse \in Seq(Nat) /\ free \in Seq(Nat) /\ Len(inuse) \in Nat
      /\ half \in {0, 1} /\ stats.blocks \in Nat
      /\ pointer.index \in 0 .. BlockSize /\ BlockSize \in Nat \ {0}
      /\ inuse = <<>> <=> Len(inuse) = 0
  BY HalfFacts, BlocksAssumption DEF HeapInv, TypeOK
<1>2. Arranges(inuse \o free, stats.blocks)
  BY <1>1 DEF HeapInv, ListInv, Blocks, inuse, free
<1>. DEFINE n == Len(inuse)
            front == {inuse[k] : k \in 1 .. n - 1}
            A == front \X (0 .. BlockSize - 1)
            B == {inuse[n]} \X (0 .. pointer.index - 1)
<1>3. CASE inuse = <<>>
  <2>1. Filled = {}
    <3>1. ASSUME NEW c \in Filled  PROVE FALSE
      <4>1. c \in CellsBefore(inuse, n, pointer.index)  BY FilledIs
      <4>2. n \in Nat /\ pointer.index \in Nat  BY <1>1
      <4>3. PICK k \in 1 .. n : TRUE  BY <1>1, <4>1, <4>2, CellsMember
      <4>. QED  BY <1>1, <1>3, <4>3
    <3>. QED  BY <3>1
  <2>2. stats.used = 0  BY <1>3 DEF HeapInv, PointerInv
  <2>. QED  BY <2>1, <2>2, FS_EmptySet
<1>4. CASE inuse /= <<>>
  <2>1. /\ n \in Nat \ {0} /\ n - 1 \in Nat /\ n \in 1 .. n
        /\ \A k \in 1 .. n - 1 : k \in 1 .. n /\ k /= n
    BY <1>1, <1>4
  <2>2. stats.used = (n - 1) * BlockSize + pointer.index  BY <1>4 DEF HeapInv, PointerInv
  <2>3. IsFiniteSet(front) /\ Cardinality(front) = n - 1
    <3>. DEFINE f == [k \in 1 .. n - 1 |-> inuse[k]]
    <3>1. f \in [1 .. n - 1 -> front]  OBVIOUS
    <3>2. \A j, k \in 1 .. n - 1 : f[j] = f[k] => j = k  BY <1>1, <1>2, <2>1, UsedOnce
    <3>3. \A c \in front : \E k \in 1 .. n - 1 : f[k] = c  OBVIOUS
    <3>. HIDE DEF f
    <3>4. ExistsBijection(1 .. n - 1, front)
      BY <3>1, <3>2, <3>3 DEF ExistsBijection, Bijection, Injection, Surjection, IsInjective
    <3>5. IsFiniteSet(1 .. n - 1) /\ Cardinality(1 .. n - 1) = n - 1
      <4>. HIDE DEF n
      <4>. QED  BY <2>1, FS_Interval
    <3>. HIDE DEF front
    <3>. QED  BY <3>4, <3>5, FS_Bijection
  <2>4. IsFiniteSet(A) /\ Cardinality(A) = (n - 1) * BlockSize
    <3>1. IsFiniteSet(0 .. BlockSize - 1) /\ Cardinality(0 .. BlockSize - 1) = BlockSize
      BY <1>1, FirstNumbers
    <3>. HIDE DEF front
    <3>. QED  BY <2>3, <3>1, FS_Product, ZenonT(60)
  <2>5. IsFiniteSet(B) /\ Cardinality(B) = pointer.index
    <3>1. IsFiniteSet(0 .. pointer.index - 1) /\ Cardinality(0 .. pointer.index - 1) = pointer.index
      <4>1. pointer.index \in Nat  BY <1>1
      <4>. QED  BY <4>1, FirstNumbers
    <3>2. IsFiniteSet({inuse[n]}) /\ Cardinality({inuse[n]}) = 1  BY FS_Singleton
    <3>3. Cardinality(B) = 1 * pointer.index /\ IsFiniteSet(B)
      <4>. DEFINE S == {inuse[n]}
                  T == 0 .. pointer.index - 1
      <4>1. IsFiniteSet(S) /\ IsFiniteSet(T) /\ Cardinality(S) = 1 /\ Cardinality(T) = pointer.index
        BY <3>1, <3>2
      <4>2. B = S \X T  OBVIOUS
      <4>. HIDE DEF S, T, B
      <4>. QED  BY <4>1, <4>2, FS_Product
    <3>. QED  BY <1>1, <3>3
  <2>6. A \cap B = {}
    <3>1. inuse[n] \notin front
      <4>1. ASSUME NEW k \in 1 .. n - 1, inuse[k] = inuse[n]  PROVE FALSE
        BY <1>1, <1>2, <2>1, <4>1, UsedOnce
      <4>. QED  BY <4>1
    <3>. QED  BY <3>1
  <2>7. Filled = A \union B
    <3>1. ASSUME NEW c, c \in Filled  PROVE c \in A \union B
      <4>1. PICK k \in 1 .. n, j \in 0 .. BlockSize - 1 :
                   Before(k, j, n, pointer.index) /\ c = <<inuse[k], j>>
        BY <1>1, <3>1, FilledIs, CellsMember
      <4>2. CASE k < n
        <5>1. k \in 1 .. n - 1  BY <2>1, <4>2
        <5>2. inuse[k] \in front  BY <5>1
        <5>. QED  BY <4>1, <5>2
      <4>3. CASE k = n /\ j < pointer.index
        <5>1. j \in 0 .. pointer.index - 1  BY <1>1, <4>3
        <5>. QED  BY <4>1, <4>3, <5>1
      <4>. QED  BY <4>1, <4>2, <4>3 DEF Before
    <3>2. ASSUME NEW c, c \in A  PROVE c \in Filled
      <4>1. PICK k \in 1 .. n - 1, j \in 0 .. BlockSize - 1 : c = <<inuse[k], j>>
        BY <3>2
      <4>2. k \in 1 .. n /\ Before(k, j, n, pointer.index)  BY <2>1, <4>1 DEF Before
      <4>. QED  BY <1>1, <4>1, <4>2, FilledIs, CellsMember, SMTT(60)
    <3>3. ASSUME NEW c, c \in B  PROVE c \in Filled
      <4>1. PICK j \in 0 .. pointer.index - 1 : c = <<inuse[n], j>>  BY <3>3
      <4>2. j \in 0 .. BlockSize - 1 /\ Before(n, j, n, pointer.index)
        BY <1>1, <4>1 DEF Before
      <4>3. n \in Nat /\ pointer.index \in Nat /\ n \in 1 .. Len(inuse)  BY <1>1, <2>1
      <4>4. c \in CellsBefore(inuse, n, pointer.index)
        BY <1>1, <4>1, <4>2, <4>3, CellsMember, ZenonT(60)
      <4>. QED  BY <4>4, FilledIs
    <3>. QED  BY <3>1, <3>2, <3>3
  <2>8. Cardinality(A \union B) = Cardinality(A) + Cardinality(B)
    <3>. HIDE DEF A, B
    <3>1. Cardinality(A \cap B) = 0  BY <2>6, FS_EmptySet
    <3>2. Cardinality(A) \in Nat /\ Cardinality(B) \in Nat
      BY <2>4, <2>5, FS_CardinalityType
    <3>3. Cardinality(A \union B) = Cardinality(A) + Cardinality(B) - Cardinality(A \cap B)
      BY <2>4, <2>5, FS_Union
    <3>. QED  BY <3>1, <3>2, <3>3
  <2>. HIDE DEF A, B
  <2>. QED  BY <2>2, <2>4, <2>5, <2>7, <2>8
<1>. QED  BY <1>3, <1>4

(* The counters the growth policy and the memory limit go by agree with    *)
(* the lists (get_node_block, add_block_to_free_list and flip_spaces).     *)
THEOREM CountersAreRight == Spec => []CountersAgree
<1>1. IInv => CountersAgree
  <2>. SUFFICES ASSUME IInv  PROVE CountersAgree  OBVIOUS
  <2>1. HeapInv  BY DEF IInv, HeapInv
  <2>. QED  BY <2>1, FilledCount, HalfFacts DEF CountersAgree, HeapInv, CountInv
<1>. QED  BY <1>1, IInvHolds, PTL

(* No block is lost or listed twice, in either half space.                 *)
THEOREM BlocksAreKept == Spec => []NoBlockLost
<1>1. IInv => NoBlockLost
  <2>. SUFFICES ASSUME IInv, NEW h \in {0, 1}
                PROVE  /\ Len(Blocks(h)) = stats.blocks
                       /\ \A k \in 1 .. stats.blocks : \E j \in DOMAIN Blocks(h) : Blocks(h)[j] = k
    BY DEF NoBlockLost, Blocks
  <2>1. Arranges(Blocks(h), stats.blocks)  BY DEF IInv, ListInv
  <2>2. DOMAIN Blocks(h) = 1 .. Len(Blocks(h))
    <3>1. list[h].inuse \in Seq(Nat) /\ list[h].free \in Seq(Nat)
      BY DEF IInv, TypeOK, HalfList
    <3>. QED  BY <3>1, ConcatProperties, LenProperties DEF Blocks
  <2>. QED  BY <2>1, <2>2 DEF Arranges
<1>. QED  BY <1>1, IInvHolds, PTL

(* "It should never occur that we are during gc and the free list is empty"*)
(* (new_node.c:63).                                                        *)
THEOREM CollectorHasRoom == Spec => []GcHasRoom
<1>1. IInv => GcHasRoom
  <2>. SUFFICES ASSUME IInv, pc \in {"one", "roots", "scan"}, stats.used < prev
                PROVE  ~NeedsBlock \/ free /= <<>>
    BY DEF GcHasRoom
  <2>1. HeapInv /\ prev <= stats.total  BY DEF IInv, HeapInv, ControlInv
  <2>2. stats.used \in Nat /\ stats.total \in Nat /\ prev \in Nat  BY DEF IInv, TypeOK
  <2>3. stats.used < stats.total  BY <2>1, <2>2
  <2>. QED  BY <2>1, <2>3, Fullness
<1>. QED  BY <1>1, IInvHolds, PTL

(* "we are guaranteed to have at least one block on the free list"         *)
(* (new_node.c:206).                                                       *)
THEOREM BlockIsAtHand == Spec => []BlockAtHand
<1>1. IInv => BlockAtHand  BY DEF IInv, ControlInv, BlockAtHand
<1>. QED  BY <1>1, IInvHolds, PTL

(* scan_newhalf goes over every copy once, though relocate adds copies     *)
(* behind the cursor while it goes.                                        *)
THEOREM ScannedOnce == Spec => []EachScannedOnce
<1>1. IInv => EachScannedOnce
  <2>. SUFFICES ASSUME IInv
                PROVE  /\ pc = "scan" => Cursor \in Filled \ scanned
                       /\ pc = "swept" => scanned = Filled
    BY DEF EachScannedOnce
  <2>1. HeapInv  BY DEF IInv, HeapInv
  <2>2. /\ inuse \in Seq(Nat) /\ free \in Seq(Nat) /\ Len(inuse) \in Nat
        /\ half \in {0, 1} /\ stats.blocks \in Nat /\ pointer.index \in Nat
    BY <2>1, HalfFacts DEF HeapInv, TypeOK
  <2>3. Arranges(inuse \o free, stats.blocks)
    BY <2>1, <2>2 DEF HeapInv, ListInv, Blocks, inuse, free
  <2>4. ASSUME pc = "scan"  PROVE Cursor \in Filled \ scanned
    <3>. DEFINE m == cursor.place
                i == cursor.i
    <3>1. /\ m \in 1 .. Len(inuse) /\ i \in 0 .. BlockSize - 1
          /\ m = Len(inuse) => i < pointer.index
          /\ Cursor = <<inuse[m], i>> /\ scanned = CellsBefore(inuse, m, i)
      BY <2>4, CursorFacts
    <3>2. Cursor \in Filled
      <4>1. Before(m, i, Len(inuse), pointer.index)  BY <2>2, <3>1 DEF Before
      <4>. QED  BY <2>1, <2>2, <3>1, <4>1, FilledIs, CellsMember
    <3>3. ASSUME Cursor \in scanned  PROVE FALSE
      <4>1. m \in Nat /\ i \in Nat  BY <2>2, <3>1, BlocksAssumption, SMTT(60)
      <4>2. PICK k \in 1 .. Len(inuse), j \in 0 .. BlockSize - 1 :
                   Before(k, j, m, i) /\ <<inuse[m], i>> = <<inuse[k], j>>
        BY <2>2, <3>1, <3>3, <4>1, CellsMember, SMTT(60)
      <4>3. inuse[m] = inuse[k] /\ i = j  BY <4>2
      <4>4. k = m  BY <2>2, <2>3, <3>1, <4>3, UsedOnce
      <4>. QED  BY <4>1, <4>2, <4>3, <4>4 DEF Before
    <3>. QED  BY <3>2, <3>3
  <2>5. ASSUME pc = "swept"  PROVE scanned = Filled
    BY <2>1, <2>5, FilledIs DEF IInv, CursorInv
  <2>. QED  BY <2>4, <2>5
<1>. QED  BY <1>1, IInvHolds, PTL

(* get_node_block abandons a computation, or collects to do so, only when  *)
(* not one cell is left in the half.                                       *)
THEOREM QuitsWhenFull == Spec => QuitOnlyWhenFull
<1>1. ASSUME IInv, [Next]_vars
      PROVE  (caller' = "limit" /\ caller /= "limit") \/ (pc' = "daemon" /\ pc /= "swept")
                => stats.unused = 0 \/ UNCHANGED vars
  <2>. DEFINE Quits == (caller' = "limit" /\ caller /= "limit") \/ (pc' = "daemon" /\ pc /= "swept")
  <2>1. HeapInv /\ ControlInv /\ TypeOK  BY <1>1 DEF IInv, HeapInv
  <2>2. ASSUME Outside, Quits  PROVE FALSE
    <3>1. CASE NewNodeFull
      BY <3>1, <2>2 DEF NewNodeFull, GarbageCollect, GcSkipped, Return, GcFails, GcCrashes, Flip_spaces
    <3>2. CASE SetGcMode \/ OpenGenerator \/ FreeGenerator \/ OtherMemory
      BY <2>2, <3>2 DEF SetGcMode, OpenGenerator, FreeGenerator, OtherMemory, Started, collecting
    <3>3. CASE NewNode \/ NewNodeInit  BY <2>2, <3>3 DEF NewNode, NewNodeInit, collecting
    <3>. QED  BY <2>2, <3>1, <3>2, <3>3 DEF Outside
  <2>3. ASSUME Collector, Quits  PROVE FALSE
    <3>1. CASE RelocateOne \/ RelocateRoot
      BY <2>3, <3>1 DEF RelocateOne, RelocateRoot, collecting
    <3>2. CASE EndRoots \/ ScanT  BY <2>3, <3>2 DEF EndRoots, ScanT
    <3>3. CASE ScanE
      <4>1. caller' = caller /\ pc = "scan"  BY <3>3 DEF ScanE
      <4>2. pc' \in {"scan", "swept"}  BY <3>3, <4>1 DEF ScanE, Advance
      <4>. QED  BY <2>3, <4>1, <4>2
    <3>4. CASE EndGc  BY <2>3, <3>4 DEF EndGc, Return
    <3>. QED  BY <2>3, <3>1, <3>2, <3>3, <3>4 DEF Collector
  <2>4. ASSUME GetNodeBlock, Quits  PROVE stats.unused = 0
    <3>1. CASE QuitComputation
      <4>1. Wanting /\ ~request  BY <3>1 DEF QuitComputation
      <4>2. CASE pc = "grow"  BY <2>1, <4>1, <4>2 DEF ControlInv
      <4>3. CASE pc = "init"
        <5>1. free = <<>> /\ inuse = <<>>  BY <2>1, <4>1, <4>3 DEF ControlInv
        <5>2. NeedsBlock  BY <2>1, <5>1 DEF HeapInv, PointerInv, NeedsBlock
        <5>. QED  BY <2>1, <5>1, <5>2, Fullness
      <4>. QED  BY <4>1, <4>2, <4>3 DEF Wanting
    <3>. QED  BY <2>4, <3>1 DEF GetNodeBlock, InitAdd, GrowAdd, StopAdding, CallDaemon, TakeBlock,
                                collecting
  <2>5. Stopped => UNCHANGED vars  BY DEF Stopped
  <2>. QED  BY <1>1, <2>2, <2>3, <2>4, <2>5 DEF Next
<1>2. IInv /\ [Next]_vars =>
        [(caller' = "limit" /\ caller /= "limit") \/ (pc' = "daemon" /\ pc /= "swept")
            => stats.unused = 0]_vars
  BY <1>1
<1>. QED  BY <1>2, IInvHolds, PTL DEF Spec, QuitOnlyWhenFull

=============================================================================
