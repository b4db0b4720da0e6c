---------------------------- MODULE BddGc_proofs ----------------------------
(***************************************************************************)
(* The collector of BddGc keeps the heap sound for any number of cells,    *)
(* variables, roots and cache entries; it never copies more than the other *)
(* half has room for, nor anything that the roots do not lead to; and      *)
(* every step brings its end nearer.                                       *)
(*                                                                         *)
(* What a collection does is stated against the heap it began with (pre):  *)
(* CopyInv says which cells have been copied and what has become of their  *)
(* branches, RootInv says it of the roots.  Both are operators of the      *)
(* memory they talk about, so that the two things a step does, making a    *)
(* copy and replacing one pointer, are dealt with one at a time.           *)
(***************************************************************************)
EXTENDS BddGc, FiniteSetTheorems, TLAPS

-----------------------------------------------------------------------------
(* Pointers.                                                               *)

LEMMA PtrType ==
    ASSUME NEW p \in Ptr
    PROVE  /\ p.cell \in Cell /\ p.neg \in BOOLEAN
           /\ p = [cell |-> p.cell, neg |-> p.neg]
           /\ p /= NIL
BY NILAssumption DEF Ptr

LEMMA PtrParts ==
    ASSUME NEW c, NEW d, NEW a \in BOOLEAN, NEW b \in BOOLEAN,
           [cell |-> c, neg |-> a] = [cell |-> d, neg |-> b]
    PROVE  c = d /\ a = b
OBVIOUS

LEMMA NotType ==
    ASSUME NEW p \in Ptr
    PROVE  NOT(p) \in Ptr /\ NOT(p).cell = p.cell /\ NOT(p) /= NIL
<1>1. p.cell \in Cell /\ (~p.neg) \in BOOLEAN  BY PtrType
<1>2. NOT(p) = [cell |-> p.cell, neg |-> ~p.neg]  BY DEF NOT
<1>. QED  BY <1>1, <1>2, PtrType DEF Ptr

LEMMA RegType ==
    ASSUME NEW c \in Cell
    PROVE  /\ Reg(c) \in Ptr /\ Reg(c) /= NIL
           /\ Reg(c).cell = c
           /\ \A d : Reg(d) = Reg(c) => d = c
<1>1. Reg(c) \in Ptr /\ Reg(c).cell = c  BY DEF Ptr, Reg
<1>2. \A d : Reg(d) = Reg(c) => d = c  BY DEF Reg
<1>. QED  BY <1>1, <1>2, PtrType

LEMMA FlipType ==
    ASSUME NEW b \in BOOLEAN, NEW c \in Cell
    PROVE  /\ Flip(b, Reg(c)) \in Ptr /\ Flip(b, Reg(c)) /= NIL
           /\ Flip(b, Reg(c)).cell = c
           /\ Flip(b, Reg(c)) = [cell |-> c, neg |-> b]
<1>1. (b /= FALSE) = b  OBVIOUS
<1>2. Flip(b, Reg(c)) = [cell |-> c, neg |-> b]  BY <1>1 DEF Flip, Reg
<1>3. Flip(b, Reg(c)) \in Ptr  BY <1>2 DEF Ptr
<1>. QED  BY <1>2, <1>3, PtrType

-----------------------------------------------------------------------------
(* The definitions of BddGc that read mem, of a memory m.                  *)

Heart(m, c) == m[c].id = BROKEN_HEART_ID

Moved(m, p) == IF p = NIL THEN NIL ELSE Flip(p.neg, m[p.cell].T)

IsSettled(m, p) == IF p = NIL THEN TRUE ELSE Heart(m, p.cell)

ProperIn(m, n) ==
    /\ n.T /= NIL /\ n.E /= NIL
    /\ ~IS_COMPLEMENT(n.T)
    /\ n.T /= n.E
    /\ n.id < m[n.T.cell].id /\ n.id < m[n.E.cell].id

WantedOf(id, r) == [id |-> id, T |-> r[ArgT], E |-> r[ArgE]]

LEMMA OfMem ==
    /\ \A c : BROKEN_HEART(c) = Heart(mem, c)
    /\ \A p : Forwarded(p) = Moved(mem, p) /\ Settled(p) = IsSettled(mem, p)
    /\ \A p : MovedPtr(p) = Moved(mem, p)
    /\ \A n : Proper(n) = ProperIn(mem, n)
    /\ \A id : Wanted(id) = WantedOf(id, root)
BY DEF BROKEN_HEART, Heart, Forwarded, MovedPtr, FORWARD_POINTER, Moved, Settled,
       IsSettled, Proper, ProperIn, Top, Wanted, WantedOf

-----------------------------------------------------------------------------
(* The heap while no collection runs.                                      *)

HeapOK(m, u, r, w) ==
    /\ m \in [Cell -> Node]
    /\ u \subseteq Cell
    /\ r \in [Loc -> PtrOrNIL]
    /\ w \subseteq Entry
    /\ r[OneLoc] /= NIL
    /\ \A l \in Loc : r[l] /= NIL => r[l].cell \in u
    /\ \A e \in w : \A s \in Slot : e[s] /= NIL => e[s].cell \in u
    /\ \A c \in u : Closed(m[c], u) /\ ~Heart(m, c)
    /\ \A c, d \in u : m[c] = m[d] => c = d
    /\ \A c \in u : IF c = r[OneLoc].cell THEN m[c] = OneNode ELSE ProperIn(m, m[c])

\* What bdd_find_or_add is about to add is a node, and a new one.
PendOK(m, u, r, p) ==
    p /= NIL =>
        /\ Closed(WantedOf(p, r), u)
        /\ ProperIn(m, WantedOf(p, r))
        /\ \A c \in u : m[c] /= WantedOf(p, r)

\* The branch of a copy that was the pointer "was" and is the pointer "now".
BranchOK(m, raw, n, was, now) ==
    IF n \in raw THEN now = was ELSE IsSettled(m, was) /\ now = Moved(m, was)

IsCopy(m, rt, re, n, node) ==
    /\ m[n].id = node.id
    /\ BranchOK(m, rt, n, node.T, m[n].T)
    /\ BranchOK(m, re, n, node.E, m[n].E)

\* m0 and u0 are the memory and the nodes a collection began with.
CopyInv(m, u, rt, re, m0, u0, h) ==
    /\ m \in [Cell -> Node]
    /\ u \subseteq HalfSpace(h)
    /\ u0 \subseteq Cell \ HalfSpace(h)
    /\ rt \subseteq re /\ re \subseteq u
    /\ \A c \in u0 : ~Heart(m, c) => m[c] = m0[c]
    /\ \A c \in u0 : Heart(m, c) =>
          \E n \in u : m[c].T = Reg(n) /\ IsCopy(m, rt, re, n, m0[c])
    /\ \A c, d \in u0 : Heart(m, c) /\ Heart(m, d) /\ m[c].T = m[d].T => c = d
    /\ \A n \in u : \E c \in u0 : Heart(m, c) /\ m[c].T = Reg(n)

RootInv(m, r, r0, td) ==
    \A l \in Loc : IF l \in td THEN r[l] = r0[l] /\ r[l] /= NIL
                              ELSE IsSettled(m, r0[l]) /\ r[l] = Moved(m, r0[l])

TableOf(m, S) == [c \in Cell |-> IF c \in S THEN m[c] ELSE NIL]

IInv ==
    /\ TypeOK
    /\ phase = "mutator" =>
          /\ HeapOK(mem, used, root, weak)
          /\ PendOK(mem, used, root, pend)
          /\ table = TableOf(mem, used)
          /\ todo = {} /\ rawT = {} /\ rawE = {}
    /\ phase /= "mutator" =>
          /\ pre \in Heap
          /\ HeapOK(pre.mem, pre.used, pre.root, pre.weak)
          /\ PendOK(pre.mem, pre.used, pre.root, pend)
          /\ weak = pre.weak
          /\ CopyInv(mem, used, rawT, rawE, pre.mem, pre.used, half)
          /\ RootInv(mem, root, pre.root, todo)
    /\ phase = "roots" => rawE = used
    /\ phase = "scan" =>
          /\ todo = {}
          /\ table = TableOf(mem, used \ rawE)

-----------------------------------------------------------------------------
(* What relocate does to the memory.                                       *)

\* m1 differs from m in that more cells of u0 are broken hearts.
Extends(m, m1, u0) == \A c \in u0 : Heart(m, c) => m1[c] = m[c]

LEMMA ExtendsMoved ==
    ASSUME NEW m, NEW m1, NEW u0, Extends(m, m1, u0),
           NEW p, p /= NIL => p.cell \in u0, IsSettled(m, p)
    PROVE  IsSettled(m1, p) /\ Moved(m1, p) = Moved(m, p)
BY DEF Extends, IsSettled, Moved, Heart

-----------------------------------------------------------------------------
(* A copy is made.                                                         *)

CopyOf(m, c, n) ==
    [m EXCEPT ![n] = m[c],
              ![c] = [id |-> BROKEN_HEART_ID, T |-> Reg(n), E |-> m[c].E]]

\* The cells and the nodes of both halves, and what is known of the old one.
OldOK(m0, u0) ==
    /\ m0 \in [Cell -> Node]
    /\ \A c \in u0 : Closed(m0[c], u0) /\ ~Heart(m0, c)

LEMMA CopyStep ==
    ASSUME NEW m, NEW u, NEW rt, NEW re, NEW m0, NEW u0, NEW h,
           OldOK(m0, u0), CopyInv(m, u, rt, re, m0, u0, h),
           NEW c \in u0, ~Heart(m, c),
           NEW n \in HalfSpace(h) \ u,
           NEW m1, m1 = CopyOf(m, c, n)
    PROVE  /\ CopyInv(m1, u \union {n}, rt \union {n}, re \union {n}, m0, u0, h)
           /\ Extends(m, m1, u0)
           /\ Heart(m1, c) /\ m1[c].T = Reg(n)
           /\ \A d \in u : m1[d] = m[d]
<1>1. n \in Cell /\ c \in Cell /\ c /= n /\ n \notin u0 /\ c \notin u
  BY DEF CopyInv, HalfSpace
<1>2. m \in [Cell -> Node] /\ m[c] \in Node /\ Reg(n) \in PtrOrNIL
  BY <1>1, RegType DEF CopyInv, PtrOrNIL
<1>3. [id |-> BROKEN_HEART_ID, T |-> Reg(n), E |-> m[c].E] \in Node
  BY <1>2 DEF Node
<1>4. m1 \in [Cell -> Node]
  BY <1>1, <1>2, <1>3 DEF CopyOf
<1>5. /\ m1[n] = m[c]
      /\ m1[c] = [id |-> BROKEN_HEART_ID, T |-> Reg(n), E |-> m[c].E]
      /\ \A d \in Cell \ {c, n} : m1[d] = m[d]
  BY <1>1, <1>2 DEF CopyOf
<1>6. Heart(m1, c) /\ m1[c].T = Reg(n)
  BY <1>2, <1>5 DEF Heart, Node
<1>7. u \subseteq Cell /\ u0 \subseteq Cell
  BY DEF CopyInv, HalfSpace
<1>8. \A d \in u : m1[d] = m[d]
  BY <1>1, <1>5, <1>7
<1>9. \A d \in u0 \ {c} : m1[d] = m[d]
  BY <1>1, <1>5, <1>7
<1>10. Extends(m, m1, u0)
  BY <1>9 DEF Extends
<1>11. m[c] = m0[c]
  BY DEF CopyInv
<1>12. ASSUME NEW d \in u0, NEW x \in u, IsCopy(m, rt, re, x, m0[d])
       PROVE  IsCopy(m1, rt \union {n}, re \union {n}, x, m0[d])
  <2>1. x /= n /\ m1[x] = m[x]  BY <1>8
  <2>2. Closed(m0[d], u0)  BY DEF OldOK
  <2>3. ASSUME NEW was \in {m0[d].T, m0[d].E}, IsSettled(m, was)
        PROVE  IsSettled(m1, was) /\ Moved(m1, was) = Moved(m, was)
    BY <1>10, <2>2, <2>3, ExtendsMoved DEF Closed
  <2>4. BranchOK(m1, rt \union {n}, x, m0[d].T, m1[x].T)
    BY <1>12, <2>1, <2>3 DEF IsCopy, BranchOK
  <2>5. BranchOK(m1, re \union {n}, x, m0[d].E, m1[x].E)
    BY <1>12, <2>1, <2>3 DEF IsCopy, BranchOK
  <2>. QED  BY <1>12, <2>1, <2>4, <2>5 DEF IsCopy
<1>13. IsCopy(m1, rt \union {n}, re \union {n}, n, m0[c])
  BY <1>5, <1>11 DEF IsCopy, BranchOK
<1>14. u \union {n} \subseteq HalfSpace(h) /\ u0 \subseteq Cell \ HalfSpace(h)
  BY DEF CopyInv
<1>15. rt \union {n} \subseteq re \union {n} /\ re \union {n} \subseteq u \union {n}
  BY DEF CopyInv
<1>16. \A d \in u0 : ~Heart(m1, d) => m1[d] = m0[d]
  BY <1>6, <1>9 DEF CopyInv, Heart
<1>17. \A d \in u0 : Heart(m1, d) =>
          \E x \in u \union {n} : /\ m1[d].T = Reg(x)
                                 /\ IsCopy(m1, rt \union {n}, re \union {n}, x, m0[d])
  <2>. TAKE d \in u0
  <2>1. CASE d = c  BY <1>6, <1>13, <2>1
  <2>2. CASE d /= c
    <3>1. m1[d] = m[d]  BY <1>9, <2>2
    <3>. HAVE Heart(m1, d)
    <3>2. Heart(m, d)  BY <3>1 DEF Heart
    <3>3. PICK x \in u : m[d].T = Reg(x) /\ IsCopy(m, rt, re, x, m0[d])
      BY <3>2 DEF CopyInv
    <3>. QED  BY <1>12, <3>1, <3>3
  <2>. QED  BY <2>1, <2>2
<1>18. ASSUME NEW d \in u0, d /= c, Heart(m1, d)
       PROVE  m1[d].T /= Reg(n)
  <2>1. m1[d] = m[d]  BY <1>9, <1>18
  <2>2. PICK x \in u : m[d].T = Reg(x)  BY <1>18, <2>1 DEF CopyInv, Heart
  <2>. QED  BY <1>1, <2>1, <2>2, RegType
<1>19. \A d, e \in u0 : Heart(m1, d) /\ Heart(m1, e) /\ m1[d].T = m1[e].T => d = e
  <2>. TAKE d, e \in u0
  <2>1. CASE d = c \/ e = c  BY <1>6, <1>18, <2>1
  <2>2. CASE d /= c /\ e /= c
    <3>1. m1[d] = m[d] /\ m1[e] = m[e]  BY <1>9, <2>2
    <3>. QED  BY <3>1 DEF CopyInv, Heart
  <2>. QED  BY <2>1, <2>2
<1>20. \A x \in u \union {n} : \E d \in u0 : Heart(m1, d) /\ m1[d].T = Reg(x)
  <2>. TAKE x \in u \union {n}
  <2>1. CASE x = n  BY <1>6, <2>1
  <2>2. CASE x \in u
    <3>1. PICK d \in u0 : Heart(m, d) /\ m[d].T = Reg(x)  BY <2>2 DEF CopyInv
    <3>2. m1[d] = m[d]  BY <1>9, <3>1
    <3>. QED  BY <3>1, <3>2 DEF Heart
  <2>. QED  BY <2>1, <2>2
<1>21. CopyInv(m1, u \union {n}, rt \union {n}, re \union {n}, m0, u0, h)
  BY <1>4, <1>14, <1>15, <1>16, <1>17, <1>19, <1>20 DEF CopyInv
<1>. QED  BY <1>6, <1>8, <1>10, <1>21

-----------------------------------------------------------------------------
(* A pointer is replaced by where its cell has gone.                       *)

LEMMA MovedType ==
    ASSUME NEW m, NEW u, NEW rt, NEW re, NEW m0, NEW u0, NEW h,
           CopyInv(m, u, rt, re, m0, u0, h),
           NEW p \in PtrOrNIL, p /= NIL => p.cell \in u0, IsSettled(m, p)
    PROVE  /\ Moved(m, p) \in PtrOrNIL
           /\ Moved(m, p) = NIL <=> p = NIL
           /\ p /= NIL => \E n \in u : /\ m[p.cell].T = Reg(n)
                                      /\ Moved(m, p) = [cell |-> n, neg |-> p.neg]
                                      /\ IsCopy(m, rt, re, n, m0[p.cell])
<1>1. CASE p = NIL  BY <1>1 DEF Moved, PtrOrNIL
<1>2. CASE p /= NIL
  <2>1. p \in Ptr /\ p.neg \in BOOLEAN  BY <1>2, PtrType DEF PtrOrNIL
  <2>2. p.cell \in u0 /\ Heart(m, p.cell)  BY <1>2 DEF IsSettled
  <2>3. PICK n \in u : m[p.cell].T = Reg(n) /\ IsCopy(m, rt, re, n, m0[p.cell])
    BY <2>2 DEF CopyInv
  <2>4. n \in Cell  BY DEF CopyInv, HalfSpace
  <2>5. Moved(m, p) = Flip(p.neg, Reg(n))  BY <1>2, <2>3 DEF Moved
  <2>. QED  BY <1>2, <2>1, <2>3, <2>4, <2>5, FlipType DEF PtrOrNIL
<1>. QED  BY <1>1, <1>2

WithT(m, c, p) == [m EXCEPT ![c].T = p]

WithE(m, c, p) == [m EXCEPT ![c].E = p]

\* T of a raw copy has been relocated.
LEMMA BranchTStep ==
    ASSUME NEW m, NEW u, NEW rt, NEW re, NEW m0, NEW u0, NEW h,
           OldOK(m0, u0), CopyInv(m, u, rt, re, m0, u0, h),
           NEW c \in rt, IsSettled(m, m[c].T),
           NEW m1, m1 = WithT(m, c, Moved(m, m[c].T))
    PROVE  /\ CopyInv(m1, u, rt \ {c}, re, m0, u0, h)
           /\ \A d \in u0 : m1[d] = m[d]
           /\ \A d \in Cell \ {c} : m1[d] = m[d]
<1>1. c \in u /\ c \in re /\ c \in Cell /\ c \notin u0 /\ u0 \subseteq Cell /\ u \subseteq Cell
  BY DEF CopyInv, HalfSpace
<1>2. m \in [Cell -> Node] /\ m[c] \in Node  BY <1>1 DEF CopyInv
<1>3. PICK o \in u0 : Heart(m, o) /\ m[o].T = Reg(c)  BY <1>1 DEF CopyInv
<1>4. PICK x \in u : m[o].T = Reg(x) /\ IsCopy(m, rt, re, x, m0[o])
  BY <1>3 DEF CopyInv
<1>5. IsCopy(m, rt, re, c, m0[o])  BY <1>1, <1>3, <1>4, RegType
<1>6. m[c].T = m0[o].T  BY <1>5 DEF IsCopy, BranchOK
<1>7. m[c].T \in PtrOrNIL /\ (m[c].T /= NIL => m[c].T.cell \in u0)
  BY <1>2, <1>6 DEF OldOK, Closed, Node
<1>8. Moved(m, m[c].T) \in PtrOrNIL  BY <1>7, MovedType
<1>9. m1 = [m EXCEPT ![c] = [id |-> m[c].id, T |-> Moved(m, m[c].T), E |-> m[c].E]]
  <2>1. \A v : [m[c] EXCEPT !.T = v] = [id |-> m[c].id, T |-> v, E |-> m[c].E]
    BY <1>2 DEF Node
  <2>2. m1 = [m EXCEPT ![c] = [m[c] EXCEPT !.T = Moved(m, m[c].T)]]
    BY DEF WithT
  <2>. QED  BY <2>1, <2>2
<1>10. m1 \in [Cell -> Node]  BY <1>1, <1>2, <1>8, <1>9 DEF Node
<1>11. /\ m1[c] = [id |-> m[c].id, T |-> Moved(m, m[c].T), E |-> m[c].E]
       /\ \A d \in Cell \ {c} : m1[d] = m[d]
  BY <1>1, <1>2, <1>9
<1>12. \A d \in u0 : m1[d] = m[d]  BY <1>1, <1>11
<1>13. ASSUME NEW p, p /= NIL => p.cell \in u0
       PROVE  (IsSettled(m1, p) <=> IsSettled(m, p)) /\ Moved(m1, p) = Moved(m, p)
  <2>1. CASE p = NIL  BY <2>1 DEF IsSettled, Moved
  <2>2. CASE p /= NIL
    <3>1. m1[p.cell] = m[p.cell]  BY <1>12, <1>13, <2>2
    <3>2. /\ Moved(m1, p) = Flip(p.neg, m1[p.cell].T)
          /\ Moved(m, p) = Flip(p.neg, m[p.cell].T)
      BY <2>2 DEF Moved
    <3>3. IsSettled(m1, p) <=> IsSettled(m, p)  BY <2>2, <3>1 DEF IsSettled, Heart
    <3>. QED  BY <3>1, <3>2, <3>3
  <2>. QED  BY <2>1, <2>2
<1>14. ASSUME NEW d \in u0, NEW y \in u, Heart(m, d), m[d].T = Reg(y),
              IsCopy(m, rt, re, y, m0[d])
       PROVE  IsCopy(m1, rt \ {c}, re, y, m0[d])
  <2>1. Closed(m0[d], u0)  BY DEF OldOK
  <2>2. \A was \in {m0[d].T, m0[d].E} : /\ IsSettled(m1, was) <=> IsSettled(m, was)
                                        /\ Moved(m1, was) = Moved(m, was)
    BY <1>13, <2>1 DEF Closed
  <2>3. CASE y = c
    <3>1. BranchOK(m1, rt \ {c}, y, m0[d].T, m1[y].T)
      BY <1>11, <1>14, <2>2, <2>3 DEF IsCopy, BranchOK
    <3>2. BranchOK(m1, re, y, m0[d].E, m1[y].E)
      BY <1>1, <1>11, <1>14, <2>2, <2>3 DEF IsCopy, BranchOK
    <3>. QED  BY <1>11, <1>14, <2>3, <3>1, <3>2 DEF IsCopy
  <2>4. CASE y /= c
    <3>1. m1[y] = m[y]  BY <1>1, <1>11, <2>4
    <3>2. BranchOK(m1, rt \ {c}, y, m0[d].T, m1[y].T)
      BY <1>14, <2>2, <2>4, <3>1 DEF IsCopy, BranchOK
    <3>3. BranchOK(m1, re, y, m0[d].E, m1[y].E)
      BY <1>14, <2>2, <3>1 DEF IsCopy, BranchOK
    <3>. QED  BY <1>14, <3>1, <3>2, <3>3 DEF IsCopy
  <2>. QED  BY <2>3, <2>4
<1>15. \A d \in u0 : ~Heart(m1, d) => m1[d] = m0[d]
  BY <1>12 DEF CopyInv, Heart
<1>16. \A d \in u0 : Heart(m1, d) =>
          \E y \in u : m1[d].T = Reg(y) /\ IsCopy(m1, rt \ {c}, re, y, m0[d])
  BY <1>12, <1>14 DEF CopyInv, Heart
<1>17. \A d, e \in u0 : Heart(m1, d) /\ Heart(m1, e) /\ m1[d].T = m1[e].T => d = e
  BY <1>12 DEF CopyInv, Heart
<1>18. \A y \in u : \E d \in u0 : Heart(m1, d) /\ m1[d].T = Reg(y)
  BY <1>12 DEF CopyInv, Heart
<1>19. /\ u \subseteq HalfSpace(h) /\ u0 \subseteq Cell \ HalfSpace(h)
       /\ rt \ {c} \subseteq re /\ re \subseteq u
  BY DEF CopyInv
<1>20. CopyInv(m1, u, rt \ {c}, re, m0, u0, h)
  BY <1>10, <1>15, <1>16, <1>17, <1>18, <1>19 DEF CopyInv
<1>. QED  BY <1>11, <1>12, <1>20

\* E of a raw copy has been relocated, after its T.
LEMMA BranchEStep ==
    ASSUME NEW m, NEW u, NEW rt, NEW re, NEW m0, NEW u0, NEW h,
           OldOK(m0, u0), CopyInv(m, u, rt, re, m0, u0, h),
           NEW c \in re \ rt, IsSettled(m, m[c].E),
           NEW m1, m1 = WithE(m, c, Moved(m, m[c].E))
    PROVE  /\ CopyInv(m1, u, rt, re \ {c}, m0, u0, h)
           /\ \A d \in u0 : m1[d] = m[d]
           /\ \A d \in Cell \ {c} : m1[d] = m[d]
<1>1. c \in u /\ c \in re /\ c \in Cell /\ c \notin u0 /\ u0 \subseteq Cell /\ u \subseteq Cell
  BY DEF CopyInv, HalfSpace
<1>2. m \in [Cell -> Node] /\ m[c] \in Node  BY <1>1 DEF CopyInv
<1>3. PICK o \in u0 : Heart(m, o) /\ m[o].T = Reg(c)  BY <1>1 DEF CopyInv
<1>4. PICK x \in u : m[o].T = Reg(x) /\ IsCopy(m, rt, re, x, m0[o])
  BY <1>3 DEF CopyInv
<1>5. IsCopy(m, rt, re, c, m0[o])  BY <1>1, <1>3, <1>4, RegType
<1>6. m[c].E = m0[o].E  BY <1>5 DEF IsCopy, BranchOK
<1>7. m[c].E \in PtrOrNIL /\ (m[c].E /= NIL => m[c].E.cell \in u0)
  BY <1>2, <1>6 DEF OldOK, Closed, Node
<1>8. Moved(m, m[c].E) \in PtrOrNIL  BY <1>7, MovedType
<1>9. m1 = [m EXCEPT ![c] = [id |-> m[c].id, T |-> m[c].T, E |-> Moved(m, m[c].E)]]
  <2>1. \A v : [m[c] EXCEPT !.E = v] = [id |-> m[c].id, T |-> m[c].T, E |-> v]
    BY <1>2 DEF Node
  <2>2. m1 = [m EXCEPT ![c] = [m[c] EXCEPT !.E = Moved(m, m[c].E)]]
    BY DEF WithE
  <2>. QED  BY <2>1, <2>2
<1>10. m1 \in [Cell -> Node]  BY <1>1, <1>2, <1>8, <1>9 DEF Node
<1>11. /\ m1[c] = [id |-> m[c].id, T |-> m[c].T, E |-> Moved(m, m[c].E)]
       /\ \A d \in Cell \ {c} : m1[d] = m[d]
  BY <1>1, <1>2, <1>9
<1>12. \A d \in u0 : m1[d] = m[d]  BY <1>1, <1>11
<1>13. ASSUME NEW p, p /= NIL => p.cell \in u0
       PROVE  (IsSettled(m1, p) <=> IsSettled(m, p)) /\ Moved(m1, p) = Moved(m, p)
  <2>1. CASE p = NIL  BY <2>1 DEF IsSettled, Moved
  <2>2. CASE p /= NIL
    <3>1. m1[p.cell] = m[p.cell]  BY <1>12, <1>13, <2>2
    <3>2. /\ Moved(m1, p) = Flip(p.neg, m1[p.cell].T)
          /\ Moved(m, p) = Flip(p.neg, m[p.cell].T)
      BY <2>2 DEF Moved
    <3>3. IsSettled(m1, p) <=> IsSettled(m, p)  BY <2>2, <3>1 DEF IsSettled, Heart
    <3>. QED  BY <3>1, <3>2, <3>3
  <2>. QED  BY <2>1, <2>2
<1>14. ASSUME NEW d \in u0, NEW y \in u, Heart(m, d), m[d].T = Reg(y),
              IsCopy(m, rt, re, y, m0[d])
       PROVE  IsCopy(m1, rt, re \ {c}, y, m0[d])
  <2>1. Closed(m0[d], u0)  BY DEF OldOK
  <2>2. \A was \in {m0[d].T, m0[d].E} : /\ IsSettled(m1, was) <=> IsSettled(m, was)
                                        /\ Moved(m1, was) = Moved(m, was)
    BY <1>13, <2>1 DEF Closed
  <2>3. CASE y = c
    <3>1. BranchOK(m1, rt, y, m0[d].T, m1[y].T)
      BY <1>11, <1>14, <2>2, <2>3 DEF IsCopy, BranchOK
    <3>2. BranchOK(m1, re \ {c}, y, m0[d].E, m1[y].E)
      BY <1>1, <1>11, <1>14, <2>2, <2>3 DEF IsCopy, BranchOK
    <3>. QED  BY <1>11, <1>14, <2>3, <3>1, <3>2 DEF IsCopy
  <2>4. CASE y /= c
    <3>1. m1[y] = m[y]  BY <1>1, <1>11, <2>4
    <3>2. BranchOK(m1, rt, y, m0[d].T, m1[y].T)
      BY <1>14, <2>2, <2>4, <3>1 DEF IsCopy, BranchOK
    <3>3. BranchOK(m1, re \ {c}, y, m0[d].E, m1[y].E)
      BY <1>14, <2>2, <2>4, <3>1 DEF IsCopy, BranchOK
    <3>. QED  BY <1>14, <3>1, <3>2, <3>3 DEF IsCopy
  <2>. QED  BY <2>3, <2>4
<1>15. \A d \in u0 : ~Heart(m1, d) => m1[d] = m0[d]
  BY <1>12 DEF CopyInv, Heart
<1>16. \A d \in u0 : Heart(m1, d) =>
          \E y \in u : m1[d].T = Reg(y) /\ IsCopy(m1, rt, re \ {c}, y, m0[d])
  BY <1>12, <1>14 DEF CopyInv, Heart
<1>17. \A d, e \in u0 : Heart(m1, d) /\ Heart(m1, e) /\ m1[d].T = m1[e].T => d = e
  BY <1>12 DEF CopyInv, Heart
<1>18. \A y \in u : \E d \in u0 : Heart(m1, d) /\ m1[d].T = Reg(y)
  BY <1>12 DEF CopyInv, Heart
<1>19. /\ u \subseteq HalfSpace(h) /\ u0 \subseteq Cell \ HalfSpace(h)
       /\ rt \subseteq re \ {c} /\ re \ {c} \subseteq u
  BY DEF CopyInv
<1>20. CopyInv(m1, u, rt, re \ {c}, m0, u0, h)
  BY <1>10, <1>15, <1>16, <1>17, <1>18, <1>19 DEF CopyInv
<1>. QED  BY <1>11, <1>12, <1>20

-----------------------------------------------------------------------------
(* A collection ends: the copies are the heap that was reached.            *)

MovedN(m, n) == [id |-> n.id, T |-> Moved(m, n.T), E |-> Moved(m, n.E)]

\* No pointer is the image of two.
LEMMA MovedInjective ==
    ASSUME NEW m, NEW u, NEW rt, NEW re, NEW m0, NEW u0, NEW h,
           CopyInv(m, u, rt, re, m0, u0, h),
           NEW p \in PtrOrNIL, p /= NIL => p.cell \in u0, IsSettled(m, p),
           NEW q \in PtrOrNIL, q /= NIL => q.cell \in u0, IsSettled(m, q),
           Moved(m, p) = Moved(m, q)
    PROVE  p = q
<1>1. CASE p = NIL \/ q = NIL  BY <1>1, MovedType
<1>2. CASE p /= NIL /\ q /= NIL
  <2>1. p \in Ptr /\ q \in Ptr  BY <1>2 DEF PtrOrNIL
  <2>2. PICK n \in u : m[p.cell].T = Reg(n) /\ Moved(m, p) = [cell |-> n, neg |-> p.neg]
    BY <1>2, MovedType
  <2>3. PICK o \in u : m[q.cell].T = Reg(o) /\ Moved(m, q) = [cell |-> o, neg |-> q.neg]
    BY <1>2, MovedType
  <2>4. n = o /\ p.neg = q.neg
    <3>1. p.neg \in BOOLEAN /\ q.neg \in BOOLEAN  BY <2>1, PtrType
    <3>2. [cell |-> n, neg |-> p.neg] = [cell |-> o, neg |-> q.neg]  BY <2>2, <2>3
    <3>. QED  BY <3>1, <3>2, PtrParts
  <2>5. Heart(m, p.cell) /\ Heart(m, q.cell)  BY <1>2 DEF IsSettled
  <2>6. p.cell = q.cell  BY <1>2, <2>2, <2>3, <2>4, <2>5 DEF CopyInv
  <2>. QED  BY <2>1, <2>4, <2>6, PtrType
<1>. QED  BY <1>1, <1>2

\* The image of a node is in order when the node was.
LEMMA NodeLands ==
    ASSUME NEW m, NEW u, NEW m0, NEW u0, NEW h, OldOK(m0, u0),
           CopyInv(m, u, {}, {}, m0, u0, h),
           NEW node, node.T \in PtrOrNIL, node.E \in PtrOrNIL,
           Closed(node, u0), IsSettled(m, node.T), IsSettled(m, node.E)
    PROVE  /\ Closed(MovedN(m, node), u)
           /\ ProperIn(m0, node) => ProperIn(m, MovedN(m, node))
<1>. DEFINE t == Moved(m, node.T)
            e == Moved(m, node.E)
<1>1. /\ node.T /= NIL => node.T.cell \in u0
      /\ node.E /= NIL => node.E.cell \in u0
  BY DEF Closed
<1>2. node.T /= NIL => \E n \in u : /\ t = [cell |-> n, neg |-> node.T.neg]
                                   /\ m[n].id = m0[node.T.cell].id
  BY <1>1, MovedType DEF IsCopy
<1>3. node.E /= NIL => \E n \in u : /\ e = [cell |-> n, neg |-> node.E.neg]
                                   /\ m[n].id = m0[node.E.cell].id
  BY <1>1, MovedType DEF IsCopy
<1>4. (t = NIL <=> node.T = NIL) /\ (e = NIL <=> node.E = NIL)
  BY <1>1, MovedType
<1>5. t = e => node.T = node.E  BY <1>1, MovedInjective
<1>6. /\ MovedN(m, node).T = t /\ MovedN(m, node).E = e
      /\ MovedN(m, node).id = node.id
  BY DEF MovedN
<1>. HIDE DEF t, e
<1>7. Closed(MovedN(m, node), u)  BY <1>2, <1>3, <1>4, <1>6 DEF Closed
<1>8. ASSUME ProperIn(m0, node)  PROVE ProperIn(m, MovedN(m, node))
  <2>1. node.T /= NIL /\ node.E /= NIL  BY <1>8 DEF ProperIn
  <2>2. PICK n \in u : t = [cell |-> n, neg |-> node.T.neg] /\ m[n].id = m0[node.T.cell].id
    BY <1>2, <2>1
  <2>3. PICK o \in u : e = [cell |-> o, neg |-> node.E.neg] /\ m[o].id = m0[node.E.cell].id
    BY <1>3, <2>1
  <2>4. ~IS_COMPLEMENT(t)  BY <1>8, <2>2 DEF ProperIn, IS_COMPLEMENT
  <2>5. node.id < m[t.cell].id  BY <1>8, <2>2 DEF ProperIn
  <2>6. node.id < m[e.cell].id  BY <1>8, <2>3 DEF ProperIn
  <2>. QED  BY <1>4, <1>5, <1>6, <1>8, <2>1, <2>4, <2>5, <2>6 DEF ProperIn
<1>. QED  BY <1>7, <1>8

\* Every copy is the image of a node, and of one only.
LEMMA CopiesLand ==
    ASSUME NEW m, NEW u, NEW m0, NEW u0, NEW h, OldOK(m0, u0), u0 \subseteq Cell,
           CopyInv(m, u, {}, {}, m0, u0, h)
    PROVE  /\ \A c \in u0 : Heart(m, c) =>
                 /\ IsSettled(m, m0[c].T) /\ IsSettled(m, m0[c].E)
                 /\ m[c].T.cell \in u
                 /\ m[m[c].T.cell] = MovedN(m, m0[c])
           /\ \A n \in u : \E c \in u0 : Heart(m, c) /\ m[c].T = Reg(n)
<1>1. ASSUME NEW c \in u0, Heart(m, c)
      PROVE  /\ IsSettled(m, m0[c].T) /\ IsSettled(m, m0[c].E)
             /\ m[c].T.cell \in u
             /\ m[m[c].T.cell] = MovedN(m, m0[c])
  <2>1. PICK n \in u : m[c].T = Reg(n) /\ IsCopy(m, {}, {}, n, m0[c])
    BY <1>1 DEF CopyInv
  <2>2. n \in Cell /\ m[n] \in Node  BY DEF CopyInv, HalfSpace
  <2>3. m[c].T.cell = n  BY <2>1, <2>2, RegType
  <2>4. /\ m[n].id = m0[c].id
        /\ IsSettled(m, m0[c].T) /\ m[n].T = Moved(m, m0[c].T)
        /\ IsSettled(m, m0[c].E) /\ m[n].E = Moved(m, m0[c].E)
    BY <2>1 DEF IsCopy, BranchOK
  <2>5. m[n] = [id |-> m[n].id, T |-> m[n].T, E |-> m[n].E]  BY <2>2 DEF Node
  <2>6. m[n] = MovedN(m, m0[c])  BY <2>4, <2>5 DEF MovedN
  <2>. QED  BY <2>3, <2>4, <2>6
<1>2. \A n \in u : \E c \in u0 : Heart(m, c) /\ m[c].T = Reg(n)
  BY DEF CopyInv
<1>. QED  BY <1>1, <1>2

LEMMA ProperTransfers ==
    ASSUME NEW m, NEW m1, NEW u, NEW node, Closed(node, u),
           \A c \in u : m1[c] = m[c], ProperIn(m, node)
    PROVE  ProperIn(m1, node)
<1>1. node.T.cell \in u /\ node.E.cell \in u  BY DEF Closed, ProperIn
<1>2. m1[node.T.cell] = m[node.T.cell] /\ m1[node.E.cell] = m[node.E.cell]
  BY <1>1
<1>. QED  BY <1>2 DEF ProperIn

LEMMA HeapIsOld ==
    ASSUME NEW m, NEW u, NEW r, NEW w, HeapOK(m, u, r, w)
    PROVE  OldOK(m, u) /\ u \subseteq Cell
BY DEF HeapOK, OldOK

\* What a collection leaves of the caches and of the other half.
MovedEntries(m, w0) ==
    {[s \in Slot |-> Moved(m, e[s])] :
        e \in {x \in w0 : \A s \in Slot : IsSettled(m, x[s])}}

Cleared(m, u) == [c \in Cell |-> IF c \in u THEN m[c] ELSE Blank]

LEMMA EntriesLand ==
    ASSUME NEW m, NEW u, NEW m0, NEW u0, NEW h, NEW w0, NEW w1,
           CopyInv(m, u, {}, {}, m0, u0, h), w0 \subseteq Entry,
           \A e \in w0 : \A s \in Slot : e[s] /= NIL => e[s].cell \in u0,
           w1 \subseteq MovedEntries(m, w0)
    PROVE  /\ w1 \subseteq Entry
           /\ \A e \in w1 : \A s \in Slot : e[s] /= NIL => e[s].cell \in u
<1>1. ASSUME NEW e1 \in w1
      PROVE  e1 \in Entry /\ \A s \in Slot : e1[s] /= NIL => e1[s].cell \in u
  <2>1. PICK e \in w0 : /\ \A s \in Slot : IsSettled(m, e[s])
                       /\ e1 = [s \in Slot |-> Moved(m, e[s])]
    BY <1>1 DEF MovedEntries
  <2>2. ASSUME NEW s \in Slot
        PROVE  /\ Moved(m, e[s]) \in PtrOrNIL
               /\ Moved(m, e[s]) /= NIL => Moved(m, e[s]).cell \in u
    <3>1. e[s] \in PtrOrNIL /\ IsSettled(m, e[s]) /\ (e[s] /= NIL => e[s].cell \in u0)
      BY <2>1 DEF Entry
    <3>2. CASE e[s] = NIL  BY <3>2 DEF Moved, PtrOrNIL
    <3>3. CASE e[s] /= NIL  BY <3>1, <3>3, MovedType
    <3>. QED  BY <3>2, <3>3
  <2>. QED  BY <2>1, <2>2 DEF Entry
<1>. QED  BY <1>1

LEMMA CollectionLeavesHeap ==
    ASSUME NEW m, NEW u, NEW m0, NEW u0, NEW h, NEW r0, NEW w0, NEW r, NEW w1, NEW m1,
           HeapOK(m0, u0, r0, w0), CopyInv(m, u, {}, {}, m0, u0, h),
           RootInv(m, r, r0, {}), r \in [Loc -> PtrOrNIL],
           w1 \subseteq MovedEntries(m, w0),
           m1 = Cleared(m, u),
           NEW p \in VarId \union {NIL}, PendOK(m0, u0, r0, p)
    PROVE  HeapOK(m1, u, r, w1) /\ PendOK(m1, u, r, p)
<1>1. OldOK(m0, u0) /\ u0 \subseteq Cell  BY HeapIsOld
<1>2. u \subseteq Cell /\ m \in [Cell -> Node]  BY DEF CopyInv, HalfSpace
<1>3. m1 \in [Cell -> Node] /\ \A c \in u : m1[c] = m[c]
  BY <1>2 DEF Cleared, Blank, Node, PtrOrNIL
<1>4. ASSUME NEW l \in Loc
      PROVE  /\ r0[l] \in PtrOrNIL /\ (r0[l] /= NIL => r0[l].cell \in u0)
             /\ IsSettled(m, r0[l]) /\ r[l] = Moved(m, r0[l])
             /\ r[l] /= NIL => r[l].cell \in u
  <2>1. r0[l] \in PtrOrNIL /\ (r0[l] /= NIL => r0[l].cell \in u0)  BY DEF HeapOK
  <2>2. IsSettled(m, r0[l]) /\ r[l] = Moved(m, r0[l])  BY DEF RootInv
  <2>. QED  BY <2>1, <2>2, MovedType
<1>5. OneLoc \in Loc /\ ArgT \in Loc /\ ArgE \in Loc  BY GcAssumption
<1>6. PICK x \in u : m[r0[OneLoc].cell].T = Reg(x) /\ r[OneLoc].cell = x /\ r[OneLoc] /= NIL
  <2>1. r0[OneLoc] /= NIL  BY DEF HeapOK
  <2>. QED  BY <1>4, <1>5, <2>1, MovedType
<1>7. /\ w1 \subseteq Entry
      /\ \A e \in w1 : \A s \in Slot : e[s] /= NIL => e[s].cell \in u
  <2>1. /\ w0 \subseteq Entry
        /\ \A e \in w0 : \A s \in Slot : e[s] /= NIL => e[s].cell \in u0
    BY DEF HeapOK
  <2>. QED  BY <2>1, EntriesLand
<1>8. ASSUME NEW c \in u0, Heart(m, c), NEW n \in u, m[c].T = Reg(n)
      PROVE  /\ m0[c] \in Node /\ Closed(m0[c], u0)
             /\ IsSettled(m, m0[c].T) /\ IsSettled(m, m0[c].E)
             /\ m1[n] = MovedN(m, m0[c])
  <2>1. m[c].T.cell = n  BY <1>2, <1>8, RegType
  <2>2. /\ IsSettled(m, m0[c].T) /\ IsSettled(m, m0[c].E)
        /\ m[n] = MovedN(m, m0[c])
    BY <1>1, <1>8, <2>1, CopiesLand
  <2>. QED  BY <1>1, <1>3, <2>2 DEF OldOK
<1>9. \A n \in u : \E c \in u0 : Heart(m, c) /\ m[c].T = Reg(n)
  BY <1>1, CopiesLand
<1>10. \A c, d \in u0 : Heart(m, c) /\ Heart(m, d) /\ m[c].T = m[d].T => c = d
  BY DEF CopyInv
<1>11. ASSUME NEW n \in u
       PROVE  Closed(m1[n], u) /\ ~Heart(m1, n)
  <2>1. PICK c \in u0 : Heart(m, c) /\ m[c].T = Reg(n)  BY <1>9
  <2>2. m1[n] = MovedN(m, m0[c])  BY <1>8, <2>1
  <2>3. m0[c].T \in PtrOrNIL /\ m0[c].E \in PtrOrNIL  BY <1>8, <2>1 DEF Node
  <2>4. Closed(MovedN(m, m0[c]), u)  BY <1>1, <1>8, <2>1, <2>3, NodeLands
  <2>5. m1[n].id = m0[c].id  BY <2>2 DEF MovedN
  <2>6. ~Heart(m0, c)  BY <1>1 DEF OldOK
  <2>. QED  BY <2>2, <2>4, <2>5, <2>6 DEF Heart
<1>12. ASSUME NEW c \in u0, Heart(m, c), NEW node \in Node, Closed(node, u0),
              IsSettled(m, node.T), IsSettled(m, node.E),
              MovedN(m, node) = MovedN(m, m0[c])
       PROVE  node = m0[c]
  <2>1. PICK n \in u : m[c].T = Reg(n)  BY <1>12 DEF CopyInv
  <2>2. /\ m0[c] \in Node /\ Closed(m0[c], u0)
        /\ IsSettled(m, m0[c].T) /\ IsSettled(m, m0[c].E)
    BY <1>8, <1>12, <2>1
  <2>3. /\ node.id = m0[c].id
        /\ Moved(m, node.T) = Moved(m, m0[c].T)
        /\ Moved(m, node.E) = Moved(m, m0[c].E)
    BY <1>12 DEF MovedN
  <2>4. /\ \A q \in {node.T, node.E} : q \in PtrOrNIL /\ (q /= NIL => q.cell \in u0)
        /\ \A q \in {m0[c].T, m0[c].E} : q \in PtrOrNIL /\ (q /= NIL => q.cell \in u0)
    BY <1>12, <2>2 DEF Node, Closed
  <2>5. node.T = m0[c].T  BY <1>12, <2>2, <2>3, <2>4, MovedInjective
  <2>6. node.E = m0[c].E  BY <1>12, <2>2, <2>3, <2>4, MovedInjective
  <2>. QED  BY <2>2, <2>3, <2>5, <2>6 DEF Node
<1>13. \A n, k \in u : m1[n] = m1[k] => n = k
  <2>. TAKE n, k \in u
  <2>. HAVE m1[n] = m1[k]
  <2>1. PICK c \in u0 : Heart(m, c) /\ m[c].T = Reg(n)  BY <1>9
  <2>2. PICK d \in u0 : Heart(m, d) /\ m[d].T = Reg(k)  BY <1>9
  <2>3. MovedN(m, m0[c]) = MovedN(m, m0[d])
    <3>1. m1[n] = MovedN(m, m0[c])  BY <1>8, <2>1
    <3>2. m1[k] = MovedN(m, m0[d])  BY <1>8, <2>2
    <3>. QED  BY <3>1, <3>2
  <2>4. m0[c] = m0[d]  BY <1>8, <1>12, <2>1, <2>2, <2>3
  <2>5. c = d  BY <2>4 DEF HeapOK
  <2>. QED  BY <1>2, <2>1, <2>2, <2>5, RegType
<1>14. ASSUME NEW n \in u
       PROVE  IF n = r[OneLoc].cell THEN m1[n] = OneNode ELSE ProperIn(m1, m1[n])
  <2>1. PICK c \in u0 : Heart(m, c) /\ m[c].T = Reg(n)  BY <1>9
  <2>2. m1[n] = MovedN(m, m0[c])  BY <1>8, <2>1
  <2>3. CASE n = r[OneLoc].cell
    <3>1. n = x  BY <1>6, <2>3
    <3>2. r0[OneLoc].cell \in u0 /\ Heart(m, r0[OneLoc].cell)
      BY <1>4, <1>5 DEF IsSettled, HeapOK
    <3>3. c = r0[OneLoc].cell  BY <1>6, <1>10, <2>1, <3>1, <3>2
    <3>4. m0[c] = OneNode  BY <3>3 DEF HeapOK
    <3>5. MovedN(m, OneNode) = OneNode  BY DEF MovedN, OneNode, Moved
    <3>. QED  BY <2>2, <2>3, <3>4, <3>5
  <2>4. CASE n /= r[OneLoc].cell
    <3>1. c /= r0[OneLoc].cell
      <4>. SUFFICES ASSUME c = r0[OneLoc].cell  PROVE FALSE  OBVIOUS
      <4>1. Reg(n) = Reg(x)  BY <1>6, <2>1
      <4>. QED  BY <1>2, <1>6, <2>4, <4>1, RegType
    <3>2. ProperIn(m0, m0[c])  BY <3>1 DEF HeapOK
    <3>3. m0[c].T \in PtrOrNIL /\ m0[c].E \in PtrOrNIL  BY <1>8, <2>1 DEF Node
    <3>4. /\ Closed(m0[c], u0)
          /\ IsSettled(m, m0[c].T) /\ IsSettled(m, m0[c].E)
      BY <1>8, <2>1
    <3>5. ProperIn(m, MovedN(m, m0[c]))  BY <1>1, <3>2, <3>3, <3>4, NodeLands
    <3>6. ProperIn(m1, m1[n])  BY <1>3, <1>11, <2>2, <3>5, ProperTransfers
    <3>. QED  BY <2>4, <3>6
  <2>. QED  BY <2>3, <2>4
<1>15. HeapOK(m1, u, r, w1)
  BY <1>2, <1>3, <1>4, <1>6, <1>7, <1>11, <1>13, <1>14 DEF HeapOK
<1>16. ASSUME p /= NIL
       PROVE  /\ Closed(WantedOf(p, r), u)
              /\ ProperIn(m1, WantedOf(p, r))
              /\ \A c \in u : m1[c] /= WantedOf(p, r)
  <2>. DEFINE w == WantedOf(p, r0)
  <2>1. WantedOf(p, r) = MovedN(m, w)  BY <1>4, <1>5 DEF WantedOf, MovedN
  <2>2. w \in Node  BY <1>4, <1>5, <1>16 DEF WantedOf, Node
  <2>3. w.T = r0[ArgT] /\ w.E = r0[ArgE]  BY DEF WantedOf
  <2>4. IsSettled(m, w.T) /\ IsSettled(m, w.E)  BY <1>4, <1>5, <2>3
  <2>5. /\ Closed(w, u0) /\ ProperIn(m0, w) /\ \A c \in u0 : m0[c] /= w
    BY <1>16 DEF PendOK
  <2>. HIDE DEF w
  <2>6. w.T \in PtrOrNIL /\ w.E \in PtrOrNIL  BY <2>2 DEF Node
  <2>7. Closed(MovedN(m, w), u) /\ ProperIn(m, MovedN(m, w))
    BY <1>1, <2>4, <2>5, <2>6, NodeLands
  <2>8. ProperIn(m1, MovedN(m, w))  BY <1>3, <2>7, ProperTransfers
  <2>9. ASSUME NEW n \in u  PROVE m1[n] /= MovedN(m, w)
    <3>1. PICK c \in u0 : Heart(m, c) /\ m[c].T = Reg(n)  BY <1>9
    <3>2. m1[n] = MovedN(m, m0[c])  BY <1>8, <3>1
    <3>3. m0[c] /= w  BY <2>5
    <3>. QED  BY <1>12, <2>2, <2>4, <2>5, <3>1, <3>2, <3>3
  <2>. QED  BY <2>1, <2>7, <2>8, <2>9
<1>17. PendOK(m1, u, r, p)  BY <1>16 DEF PendOK
<1>. QED  BY <1>15, <1>17

-----------------------------------------------------------------------------
(* The algorithms keep the heap.                                           *)

LEMMA InitKeeps == Init => IInv
<1>. SUFFICES ASSUME Init  PROVE IInv  OBVIOUS
<1>1. PICK c \in Cell :
        /\ HalfOf[c] = 0
        /\ half = 0
        /\ mem = [x \in Cell |-> IF x = c THEN OneNode ELSE Blank]
        /\ used = {c}
        /\ table = [x \in Cell |-> IF x = c THEN OneNode ELSE NIL]
        /\ root = [l \in Loc |-> IF l = OneLoc THEN Reg(c) ELSE NIL]
        /\ weak = {}
        /\ pend = NIL
        /\ phase = "mutator" /\ todo = {} /\ rawT = {} /\ rawE = {}
        /\ pre = NIL
  BY DEF Init
<1>2. OneNode \in Node /\ Blank \in Node  BY DEF OneNode, Blank, Node, PtrOrNIL
<1>3. Reg(c) \in PtrOrNIL /\ Reg(c) /= NIL /\ Reg(c).cell = c
  BY RegType DEF PtrOrNIL
<1>4. TypeOK
  <2>1. mem \in [Cell -> Node] /\ table \in [Cell -> Node \union {NIL}]
    BY <1>1, <1>2
  <2>2. root \in [Loc -> PtrOrNIL]  BY <1>1, <1>3 DEF PtrOrNIL
  <2>3. used \subseteq HalfSpace(half)  BY <1>1 DEF HalfSpace
  <2>. QED  BY <1>1, <2>1, <2>2, <2>3 DEF TypeOK
<1>5. OneLoc \in Loc /\ root[OneLoc] = Reg(c) /\ mem[c] = OneNode
  BY <1>1, GcAssumption
<1>6. Closed(OneNode, used) /\ OneNode.id /= BROKEN_HEART_ID
  BY GcAssumption DEF Closed, OneNode
<1>7. HeapOK(mem, used, root, weak)
  <2>1. \A l \in Loc : root[l] /= NIL => root[l].cell \in used  BY <1>1, <1>3
  <2>2. \A x \in used : /\ Closed(mem[x], used) /\ ~Heart(mem, x)
                        /\ x = root[OneLoc].cell /\ mem[x] = OneNode
    BY <1>1, <1>3, <1>5, <1>6 DEF Heart
  <2>3. root[OneLoc] /= NIL  BY <1>3, <1>5
  <2>4. mem \in [Cell -> Node] /\ root \in [Loc -> PtrOrNIL] /\ used \subseteq Cell
    BY <1>1, <1>4 DEF TypeOK
  <2>. QED  BY <1>1, <2>1, <2>2, <2>3, <2>4 DEF HeapOK
<1>8. PendOK(mem, used, root, pend)  BY <1>1 DEF PendOK
<1>9. table = TableOf(mem, used)  BY <1>1 DEF TableOf
<1>. QED  BY <1>1, <1>4, <1>7, <1>8, <1>9 DEF IInv

\* What an algorithm can come by leads to nodes.
LEMMA ObtainableIsUsed ==
    ASSUME IInv, phase = "mutator"
    PROVE  /\ Obtainable \subseteq PtrOrNIL
           /\ \A p \in Obtainable \ {NIL} : p.cell \in used
<1>. DEFINE Good(p) == p \in Ptr /\ p.cell \in used
<1>1. HeapOK(mem, used, root, weak)  BY DEF IInv
<1>2. \A p \in Held : Good(p)  BY <1>1 DEF HeapOK, Held, PtrOrNIL
<1>3. ASSUME NEW p \in Held
      PROVE  \A q \in {mem[p.cell].T, mem[p.cell].E} \ {NIL} : Good(q)
  <2>1. mem[p.cell] \in Node /\ Closed(mem[p.cell], used)
    BY <1>1, <1>2 DEF HeapOK
  <2>. QED  BY <2>1 DEF Node, Closed, PtrOrNIL
<1>4. ASSUME NEW q \in Children  PROVE Good(q)
  <2>1. PICK p \in Held : q \in {mem[p.cell].T, mem[p.cell].E} \ {NIL}
    BY DEF Children
  <2>. QED  BY <1>3, <2>1
<1>5. \A e \in weak : \A s \in Slot : e[s] /= NIL => Good(e[s])
  BY <1>1 DEF HeapOK, Entry, PtrOrNIL
<1>6. ASSUME NEW q \in CachedPtrs  PROVE Good(q)
  <2>1. PICK e \in weak, s \in Slot : q = e[s] /\ q /= NIL
    BY DEF CachedPtrs
  <2>. QED  BY <1>5, <2>1
<1>7. ASSUME NEW p, Good(p)  PROVE Good(NOT(p))
  BY <1>7, NotType
<1>8. \A p \in Obtainable \ {NIL} : Good(p)
  BY <1>2, <1>4, <1>6, <1>7 DEF Obtainable
<1>. QED  BY <1>8 DEF PtrOrNIL

LEMMA MutateKeeps ==
    ASSUME IInv, Running, root' \in [Loc -> Obtainable], root'[OneLoc] = root[OneLoc],
           UNCHANGED <<heapVars, weak, pend, gcVars>>
    PROVE  IInv'
<1>1. /\ phase = "mutator" /\ pend = NIL
      /\ mem' = mem /\ half' = half /\ used' = used /\ table' = table
      /\ weak' = weak /\ pend' = pend /\ phase' = phase /\ todo' = todo
      /\ rawT' = rawT /\ rawE' = rawE /\ pre' = pre
  BY DEF Running, heapVars, gcVars
<1>2. root' \in [Loc -> PtrOrNIL] /\ \A l \in Loc : root'[l] /= NIL => root'[l].cell \in used
  BY <1>1, ObtainableIsUsed
<1>3. TypeOK'  BY <1>1, <1>2 DEF IInv, TypeOK
<1>4. HeapOK(mem, used, root, weak)  BY <1>1 DEF IInv
<1>5. HeapOK(mem', used', root', weak')  BY <1>1, <1>2, <1>4 DEF HeapOK
<1>6. PendOK(mem', used', root', pend')  BY <1>1 DEF PendOK
<1>. QED  BY <1>1, <1>3, <1>5, <1>6 DEF IInv

\* The search of a chain finds the nodes there are.
LEMMA FoundNodes ==
    ASSUME IInv, Running, NEW id \in VarId, Proper(Wanted(id))
    PROVE  /\ Wanted(id) \in Node /\ Closed(Wanted(id), used)
           /\ Found(Wanted(id)) = {c \in used : mem[c] = Wanted(id)}
<1>1. HeapOK(mem, used, root, weak) /\ table = TableOf(mem, used)
  BY DEF IInv, Running
<1>2. ArgT \in Loc /\ ArgE \in Loc /\ NIL \notin Node  BY GcAssumption
<1>3. Wanted(id) \in Node  BY <1>1, <1>2 DEF Wanted, Node, HeapOK
<1>4. Closed(Wanted(id), used)  BY <1>1, <1>2 DEF Wanted, Closed, HeapOK
<1>5. Wanted(id) /= NIL  BY <1>2, <1>3
<1>6. used \subseteq Cell  BY <1>1 DEF HeapOK
<1>7. \A c \in Cell : table[c] = IF c \in used THEN mem[c] ELSE NIL
  BY <1>1 DEF TableOf
<1>. QED  BY <1>3, <1>4, <1>5, <1>6, <1>7 DEF Found

LEMMA FindOrAddHitKeeps ==
    ASSUME IInv, NEW id \in VarId, NEW l \in Loc, FindOrAddHit(id, l)
    PROVE  IInv'
<1>1. /\ phase = "mutator" /\ pend = NIL /\ Running /\ l /= OneLoc /\ Proper(Wanted(id))
      /\ mem' = mem /\ half' = half /\ used' = used /\ table' = table
      /\ weak' = weak /\ pend' = pend /\ phase' = phase /\ todo' = todo
      /\ rawT' = rawT /\ rawE' = rawE /\ pre' = pre
  BY DEF FindOrAddHit, Running, heapVars, gcVars
<1>2. PICK c \in used : root' = [root EXCEPT ![l] = Reg(c)]
  BY <1>1, FoundNodes DEF FindOrAddHit
<1>3. HeapOK(mem, used, root, weak)  BY <1>1 DEF IInv
<1>4. Reg(c) \in PtrOrNIL /\ Reg(c).cell = c
  BY <1>3, RegType DEF HeapOK, PtrOrNIL
<1>5. /\ root' \in [Loc -> PtrOrNIL] /\ root'[OneLoc] = root[OneLoc]
      /\ \A k \in Loc : root'[k] /= NIL => root'[k].cell \in used
  BY <1>1, <1>2, <1>3, <1>4 DEF HeapOK
<1>6. TypeOK'  BY <1>1, <1>5 DEF IInv, TypeOK
<1>7. HeapOK(mem', used', root', weak')  BY <1>1, <1>3, <1>5 DEF HeapOK
<1>8. PendOK(mem', used', root', pend')  BY <1>1 DEF PendOK
<1>. QED  BY <1>1, <1>6, <1>7, <1>8 DEF IInv

LEMMA FindOrAddMissKeeps ==
    ASSUME IInv, NEW id \in VarId, FindOrAddMiss(id)
    PROVE  IInv'
<1>1. /\ phase = "mutator" /\ Running /\ Proper(Wanted(id)) /\ Found(Wanted(id)) = {}
      /\ pend' = id /\ root' = root
      /\ mem' = mem /\ half' = half /\ used' = used /\ table' = table
      /\ weak' = weak /\ phase' = phase /\ todo' = todo
      /\ rawT' = rawT /\ rawE' = rawE /\ pre' = pre
  BY DEF FindOrAddMiss, Running, heapVars, gcVars
<1>2. Closed(Wanted(id), used) /\ \A c \in used : mem[c] /= Wanted(id)
  BY <1>1, FoundNodes
<1>3. TypeOK'  BY <1>1 DEF IInv, TypeOK
<1>4. PendOK(mem', used', root', pend')  BY <1>1, <1>2, OfMem DEF PendOK
<1>. QED  BY <1>1, <1>3, <1>4 DEF IInv

LEMMA AddNodeKeeps ==
    ASSUME IInv, NEW l \in Loc, AddNode(l)
    PROVE  IInv'
<1>1. PICK c \in Free :
        /\ mem' = [mem EXCEPT ![c] = Wanted(pend)]
        /\ used' = used \union {c}
        /\ table' = [table EXCEPT ![c] = Wanted(pend)]
        /\ root' = [root EXCEPT ![l] = Reg(c)]
  BY DEF AddNode
<1>2. /\ phase = "mutator" /\ pend /= NIL /\ l /= OneLoc
      /\ half' = half /\ pend' = NIL
      /\ weak' = weak /\ phase' = phase /\ todo' = todo
      /\ rawT' = rawT /\ rawE' = rawE /\ pre' = pre
  BY DEF AddNode, gcVars
<1>. DEFINE w == Wanted(pend)
<1>3. TypeOK /\ pend \in VarId  BY <1>2 DEF IInv, TypeOK
<1>4. HeapOK(mem, used, root, weak) /\ table = TableOf(mem, used)
  BY <1>2 DEF IInv
<1>5. Closed(w, used) /\ ProperIn(mem, w) /\ \A d \in used : mem[d] /= w
  BY <1>2, OfMem DEF IInv, PendOK
<1>6. w \in Node /\ w.id /= BROKEN_HEART_ID
  <2>1. root[ArgT] \in PtrOrNIL /\ root[ArgE] \in PtrOrNIL
    BY <1>4, GcAssumption DEF HeapOK
  <2>. QED  BY <1>3, <2>1, GcAssumption DEF Wanted, Node
<1>7. c \in Cell /\ c \in HalfSpace(half) /\ c \notin used
  BY DEF Free, HalfSpace
<1>. HIDE DEF w
<1>8. /\ mem' \in [Cell -> Node] /\ mem'[c] = w
      /\ \A d \in used : mem'[d] = mem[d]
  BY <1>1, <1>4, <1>6, <1>7 DEF HeapOK, w
<1>9. Reg(c) \in PtrOrNIL /\ Reg(c).cell = c
  BY <1>7, RegType DEF PtrOrNIL
<1>10. /\ root' \in [Loc -> PtrOrNIL] /\ root'[OneLoc] = root[OneLoc]
       /\ \A k \in Loc : root'[k] /= NIL => root'[k].cell \in used'
  BY <1>1, <1>2, <1>4, <1>9 DEF HeapOK
<1>11. OneLoc \in Loc /\ root[OneLoc].cell \in used /\ root[OneLoc] /= NIL
  BY <1>4, GcAssumption DEF HeapOK
<1>12. ASSUME NEW d \in used'
       PROVE  /\ Closed(mem'[d], used') /\ ~Heart(mem', d)
              /\ IF d = root'[OneLoc].cell THEN mem'[d] = OneNode ELSE ProperIn(mem', mem'[d])
  <2>1. CASE d = c
    <3>1. Closed(w, used')  BY <1>1, <1>5 DEF Closed
    <3>2. ProperIn(mem', w)  BY <1>5, <1>8, ProperTransfers
    <3>. QED  BY <1>6, <1>7, <1>8, <1>10, <1>11, <2>1, <3>1, <3>2 DEF Heart
  <2>2. CASE d /= c
    <3>1. d \in used /\ mem'[d] = mem[d]  BY <1>1, <1>8, <2>2
    <3>2. Closed(mem[d], used) /\ ~Heart(mem, d)  BY <1>4, <3>1 DEF HeapOK
    <3>3. Closed(mem'[d], used') /\ ~Heart(mem', d)
      BY <1>1, <3>1, <3>2 DEF Closed, Heart
    <3>4. CASE d = root[OneLoc].cell
      BY <1>4, <1>10, <3>1, <3>3, <3>4 DEF HeapOK
    <3>5. CASE d /= root[OneLoc].cell
      <4>1. ProperIn(mem, mem[d])  BY <1>4, <3>1, <3>5 DEF HeapOK
      <4>2. ProperIn(mem', mem[d])  BY <1>8, <3>2, <4>1, ProperTransfers
      <4>. QED  BY <1>10, <3>1, <3>3, <3>5, <4>2
    <3>. QED  BY <3>4, <3>5
  <2>. QED  BY <2>1, <2>2
<1>13. \A d, e \in used' : mem'[d] = mem'[e] => d = e
  BY <1>1, <1>4, <1>5, <1>8 DEF HeapOK
<1>14. /\ weak' \subseteq Entry
       /\ \A e \in weak' : \A s \in Slot : e[s] /= NIL => e[s].cell \in used'
  BY <1>1, <1>2, <1>4 DEF HeapOK
<1>15. used' \subseteq Cell  BY <1>1, <1>4, <1>7 DEF HeapOK
<1>16. HeapOK(mem', used', root', weak')
  BY <1>8, <1>10, <1>11, <1>12, <1>13, <1>14, <1>15 DEF HeapOK
<1>17. table' = TableOf(mem', used')
  BY <1>1, <1>4, <1>6, <1>7, <1>8, <1>15 DEF TableOf, w
<1>18. TypeOK'
  <2>1. table' \in [Cell -> Node \union {NIL}]
    BY <1>8, <1>15, <1>17 DEF TableOf
  <2>. QED  BY <1>1, <1>2, <1>3, <1>7, <1>8, <1>10, <1>14, <2>1 DEF TypeOK
<1>19. PendOK(mem', used', root', pend')  BY <1>2 DEF PendOK
<1>20. todo = {} /\ rawT = {} /\ rawE = {}  BY <1>2 DEF IInv
<1>. QED  BY <1>2, <1>16, <1>17, <1>18, <1>19, <1>20 DEF IInv

LEMMA CachingKeeps ==
    ASSUME IInv, Caching
    PROVE  IInv'
<1>1. /\ phase = "mutator"
      /\ mem' = mem /\ half' = half /\ used' = used /\ table' = table
      /\ root' = root /\ pend' = pend /\ phase' = phase /\ todo' = todo
      /\ rawT' = rawT /\ rawE' = rawE /\ pre' = pre
  BY DEF Caching, CacheInsert, CacheDrop, Running, heapVars, gcVars
<1>2. HeapOK(mem, used, root, weak)  BY <1>1 DEF IInv
<1>3. ASSUME NEW e \in [Slot -> Held \union {NIL}]
      PROVE  e \in Entry /\ \A s \in Slot : e[s] /= NIL => e[s].cell \in used
  <2>1. \A p \in Held : p \in PtrOrNIL /\ p.cell \in used
    BY <1>2 DEF Held, HeapOK
  <2>. QED  BY <2>1 DEF Entry, PtrOrNIL
<1>4. ASSUME NEW e \in weak'
      PROVE  e \in weak \/ e \in [Slot -> Held \union {NIL}]
  BY <1>4 DEF Caching, CacheInsert, CacheDrop
<1>5. /\ weak' \subseteq Entry
      /\ \A e \in weak' : \A s \in Slot : e[s] /= NIL => e[s].cell \in used
  BY <1>2, <1>3, <1>4 DEF HeapOK
<1>6. HeapOK(mem', used', root', weak')  BY <1>1, <1>2, <1>5 DEF HeapOK
<1>7. TypeOK'  BY <1>1, <1>5 DEF IInv, TypeOK
<1>. QED  BY <1>1, <1>6, <1>7 DEF IInv

-----------------------------------------------------------------------------
(* The collector keeps its bargain.                                        *)

LEMMA FlipKeeps ==
    ASSUME IInv, NEW newRoot \in [Loc -> PtrOrNIL], NEW newPend,
           Flip_spaces(newRoot, newPend),
           \A l \in Loc : newRoot[l] = root[l] \/ (newRoot[l] = NIL /\ l /= OneLoc),
           newPend = NIL \/ (newRoot = root /\ newPend = pend)
    PROVE  IInv'
<1>1. /\ phase = "mutator" /\ root' = newRoot /\ pend' = newPend
      /\ half' = 1 - half /\ used' = {} /\ mem' = mem /\ table' = table
      /\ weak' = weak /\ rawT' = rawT /\ rawE' = rawE /\ phase' = "roots"
      /\ pre' = [mem |-> mem, used |-> used, root |-> newRoot, weak |-> weak]
      /\ todo' = {l \in Loc : newRoot[l] /= NIL}
  BY DEF Flip_spaces
<1>2. /\ TypeOK /\ HeapOK(mem, used, root, weak) /\ PendOK(mem, used, root, pend)
      /\ rawT = {} /\ rawE = {}
  BY <1>1 DEF IInv
<1>3. pre' \in Heap  BY <1>1, <1>2 DEF Heap, TypeOK, HalfSpace
<1>4. /\ pre'.mem = mem /\ pre'.used = used /\ pre'.root = newRoot /\ pre'.weak = weak
  BY <1>1
<1>5. TypeOK'  BY <1>1, <1>2, <1>3 DEF TypeOK
<1>6. OneLoc \in Loc  BY GcAssumption
<1>7. HeapOK(mem, used, newRoot, weak)  BY <1>2, <1>6 DEF HeapOK
<1>8. PendOK(mem, used, newRoot, newPend)  BY <1>2 DEF PendOK
<1>9. CopyInv(mem, {}, {}, {}, mem, used, 1 - half)
  <2>1. used \subseteq Cell \ HalfSpace(1 - half)
    BY <1>2 DEF TypeOK, HalfSpace
  <2>2. \A c \in used : ~Heart(mem, c)  BY <1>2 DEF HeapOK
  <2>. QED  BY <1>2, <2>1, <2>2 DEF CopyInv, HeapOK
<1>10. RootInv(mem, newRoot, newRoot, todo')
  BY <1>1 DEF RootInv, IsSettled, Moved
<1>. QED  BY <1>1, <1>2, <1>3, <1>4, <1>5, <1>7, <1>8, <1>9, <1>10 DEF IInv

LEMMA StartGcKeeps ==
    ASSUME IInv, StartGc \/ AbortGc
    PROVE  IInv'
<1>1. root \in [Loc -> PtrOrNIL]  BY DEF IInv, TypeOK
<1>2. CASE StartGc  BY <1>1, <1>2, FlipKeeps DEF StartGc
<1>3. CASE AbortGc
  <2>. DEFINE r == [l \in Loc |-> IF l \in Frame THEN NIL ELSE root[l]]
  <2>1. r \in [Loc -> PtrOrNIL]  BY <1>1 DEF PtrOrNIL
  <2>2. \A l \in Loc : r[l] = root[l] \/ (r[l] = NIL /\ l /= OneLoc)
    BY GcAssumption
  <2>3. Flip_spaces(r, NIL)  BY <1>3 DEF AbortGc
  <2>. HIDE DEF r
  <2>. QED  BY <2>1, <2>2, <2>3, FlipKeeps
<1>. QED  BY <1>2, <1>3

\* What IInv says while a collection runs.
LEMMA Collecting ==
    ASSUME IInv, phase /= "mutator"
    PROVE  /\ TypeOK /\ pre \in Heap
           /\ HeapOK(pre.mem, pre.used, pre.root, pre.weak)
           /\ PendOK(pre.mem, pre.used, pre.root, pend)
           /\ weak = pre.weak
           /\ OldOK(pre.mem, pre.used) /\ pre.used \subseteq Cell
           /\ CopyInv(mem, used, rawT, rawE, pre.mem, pre.used, half)
           /\ RootInv(mem, root, pre.root, todo)
           /\ used \subseteq Cell
           /\ \A l \in Loc : /\ pre.root[l] \in PtrOrNIL
                             /\ pre.root[l] /= NIL => pre.root[l].cell \in pre.used
<1>1. HeapOK(pre.mem, pre.used, pre.root, pre.weak)  BY DEF IInv
<1>2. /\ OldOK(pre.mem, pre.used) /\ pre.used \subseteq Cell
      /\ \A l \in Loc : /\ pre.root[l] \in PtrOrNIL
                        /\ pre.root[l] /= NIL => pre.root[l].cell \in pre.used
  BY <1>1, HeapIsOld DEF HeapOK
<1>. QED  BY <1>1, <1>2 DEF IInv, TypeOK, HalfSpace

\* Roots that were relocated stay right when more is copied.
LEMMA RootsExtend ==
    ASSUME NEW m, NEW m1, NEW u0, NEW r, NEW r0, NEW td, RootInv(m, r, r0, td),
           Extends(m, m1, u0), \A l \in Loc : r0[l] /= NIL => r0[l].cell \in u0
    PROVE  RootInv(m1, r, r0, td)
<1>. SUFFICES ASSUME NEW l \in Loc
              PROVE  IF l \in td THEN r[l] = r0[l] /\ r[l] /= NIL
                     ELSE IsSettled(m1, r0[l]) /\ r[l] = Moved(m1, r0[l])
  BY DEF RootInv
<1>1. CASE l \in td  BY <1>1 DEF RootInv
<1>2. CASE l \notin td
  <2>1. IsSettled(m, r0[l]) /\ r[l] = Moved(m, r0[l])  BY <1>2 DEF RootInv
  <2>. QED  BY <1>2, <2>1, ExtendsMoved
<1>. QED  BY <1>1, <1>2

LEMMA RelocateRootKeeps ==
    ASSUME IInv, NEW l \in Loc, RelocateRoot(l)
    PROVE  IInv'
<1>1. /\ phase = "roots" /\ l \in todo /\ todo' = todo \ {l}
      /\ half' = half /\ table' = table /\ weak' = weak /\ pend' = pend
      /\ phase' = phase /\ pre' = pre
  BY DEF RelocateRoot
<1>2. root[l] = pre.root[l] /\ root[l] /= NIL
  BY <1>1, Collecting DEF RootInv
<1>3. root[l] \in PtrOrNIL /\ root[l].cell \in pre.used  BY <1>1, <1>2, Collecting
<1>4. root[l] \in Ptr /\ root[l].neg \in BOOLEAN /\ root[l].cell \in Cell
  BY <1>2, <1>3, PtrType DEF PtrOrNIL
<1>5. root \in [Loc -> PtrOrNIL]  BY DEF IInv, TypeOK
<1>6. CASE /\ Settled(root[l])
           /\ root' = [root EXCEPT ![l] = Forwarded(root[l])]
           /\ UNCHANGED <<mem, used, rawT, rawE>>
  <2>1. IsSettled(mem, root[l]) /\ root' = [root EXCEPT ![l] = Moved(mem, root[l])]
    BY <1>6, OfMem
  <2>2. Moved(mem, root[l]) \in PtrOrNIL  BY <1>1, <1>3, <2>1, Collecting, MovedType
  <2>3. root' \in [Loc -> PtrOrNIL]  BY <1>5, <2>1, <2>2
  <2>4. RootInv(mem, root', pre.root, todo')
    BY <1>1, <1>2, <1>5, <2>1, Collecting DEF RootInv
  <2>5. TypeOK'  BY <1>1, <1>6, <2>3 DEF IInv, TypeOK
  <2>. QED  BY <1>1, <1>6, <2>4, <2>5 DEF IInv
<1>7. CASE /\ ~Settled(root[l])
           /\ \E n \in Free :
                 /\ mem' = MovedMem(root[l].cell, n)
                 /\ root' = [root EXCEPT ![l] = Flip(root[l].neg, Reg(n))]
                 /\ Copy(n)
  <2>1. PICK n \in Free :
          /\ mem' = MovedMem(root[l].cell, n)
          /\ root' = [root EXCEPT ![l] = Flip(root[l].neg, Reg(n))]
          /\ used' = used \union {n}
          /\ rawT' = rawT \union {n}
          /\ rawE' = rawE \union {n}
    BY <1>7 DEF Copy
  <2>2. ~Heart(mem, root[l].cell)  BY <1>2, <1>7, OfMem DEF IsSettled
  <2>3. n \in HalfSpace(half) \ used /\ n \in Cell  BY DEF Free, HalfSpace
  <2>4. mem' = CopyOf(mem, root[l].cell, n)  BY <2>1 DEF MovedMem, CopyOf
  <2>5. /\ CopyInv(mem', used', rawT', rawE', pre.mem, pre.used, half)
        /\ Extends(mem, mem', pre.used)
        /\ Heart(mem', root[l].cell) /\ mem'[root[l].cell].T = Reg(n)
    BY <1>1, <1>3, <2>1, <2>2, <2>3, <2>4, Collecting, CopyStep, SMTT(60)
  <2>6. RootInv(mem', root, pre.root, todo)  BY <1>1, <2>5, Collecting, RootsExtend
  <2>7. IsSettled(mem', root[l]) /\ root'[l] = Moved(mem', root[l])
    BY <1>2, <1>5, <2>1, <2>5 DEF IsSettled, Moved
  <2>8. RootInv(mem', root', pre.root, todo')
    BY <1>1, <1>2, <1>5, <2>1, <2>6, <2>7 DEF RootInv
  <2>9. root' \in [Loc -> PtrOrNIL]
    BY <1>4, <1>5, <2>1, <2>3, FlipType DEF PtrOrNIL
  <2>10. /\ mem' \in [Cell -> Node] /\ used' \subseteq HalfSpace(half)
         /\ rawT' \subseteq used' /\ rawE' \subseteq used'
    BY <2>5 DEF CopyInv
  <2>11. TypeOK'  BY <1>1, <2>9, <2>10 DEF IInv, TypeOK
  <2>. QED  BY <1>1, <2>1, <2>5, <2>8, <2>11 DEF IInv
<1>. QED  BY <1>6, <1>7 DEF RelocateRoot

LEMMA ResetTableKeeps ==
    ASSUME IInv, ResetTable
    PROVE  IInv'
<1>1. /\ phase = "roots" /\ todo = {} /\ phase' = "scan"
      /\ table' = [c \in Cell |-> NIL]
      /\ mem' = mem /\ half' = half /\ used' = used /\ root' = root /\ weak' = weak
      /\ pend' = pend /\ todo' = todo /\ rawT' = rawT /\ rawE' = rawE /\ pre' = pre
  BY DEF ResetTable
<1>2. TypeOK'  BY <1>1 DEF IInv, TypeOK
<1>3. table' = TableOf(mem', used' \ rawE')  BY <1>1 DEF IInv, TableOf
<1>. QED  BY <1>1, <1>2, <1>3 DEF IInv

\* The cells linked in the table stay as they are.
LEMMA TableKept ==
    ASSUME NEW m, NEW m1, NEW S, \A c \in S : m1[c] = m[c]
    PROVE  TableOf(m1, S) = TableOf(m, S)
BY DEF TableOf

\* The branches of a raw copy are pointers of the old half.
LEMMA RawBranches ==
    ASSUME NEW m, NEW u, NEW rt, NEW re, NEW m0, NEW u0, NEW h,
           OldOK(m0, u0), CopyInv(m, u, rt, re, m0, u0, h)
    PROVE  /\ \A c \in rt : m[c].T /= NIL => m[c].T.cell \in u0
           /\ \A c \in re : m[c].E /= NIL => m[c].E.cell \in u0
<1>1. ASSUME NEW c \in re
      PROVE  /\ m[c].E /= NIL => m[c].E.cell \in u0
             /\ c \in rt => (m[c].T /= NIL => m[c].T.cell \in u0)
  <2>1. c \in u /\ c \in Cell  BY DEF CopyInv, HalfSpace
  <2>2. PICK o \in u0 : Heart(m, o) /\ m[o].T = Reg(c)  BY <2>1 DEF CopyInv
  <2>3. PICK x \in u : m[o].T = Reg(x) /\ IsCopy(m, rt, re, x, m0[o])
    BY <2>2 DEF CopyInv
  <2>4. IsCopy(m, rt, re, c, m0[o])  BY <2>1, <2>2, <2>3, RegType
  <2>5. Closed(m0[o], u0)  BY DEF OldOK
  <2>. QED  BY <2>4, <2>5 DEF IsCopy, BranchOK, Closed
<1>2. rt \subseteq re  BY DEF CopyInv
<1>. QED  BY <1>1, <1>2

LEMMA ScanTKeeps ==
    ASSUME IInv, NEW c, ScanT(c)
    PROVE  IInv'
<1>1. /\ phase = "scan" /\ c \in rawT
      /\ half' = half /\ table' = table /\ root' = root /\ weak' = weak
      /\ pend' = pend /\ phase' = phase /\ todo' = todo /\ pre' = pre
  BY DEF ScanT
<1>2. /\ CopyInv(mem, used, rawT, rawE, pre.mem, pre.used, half)
      /\ OldOK(pre.mem, pre.used)
      /\ c \in used /\ c \in rawE /\ c \in Cell /\ mem \in [Cell -> Node]
  BY <1>1, Collecting DEF CopyInv
<1>3. table = TableOf(mem, used \ rawE) /\ RootInv(mem, root, pre.root, todo)
  BY <1>1 DEF IInv
<1>4. \A l \in Loc : pre.root[l] /= NIL => pre.root[l].cell \in pre.used
  BY <1>1, Collecting
<1>5. CASE /\ Settled(mem[c].T)
           /\ mem' = [mem EXCEPT ![c].T = Forwarded(mem[c].T)]
           /\ rawT' = rawT \ {c}
           /\ UNCHANGED <<used, rawE>>
  <2>1. /\ IsSettled(mem, mem[c].T)
        /\ mem' = WithT(mem, c, Moved(mem, mem[c].T))
    BY <1>5, OfMem DEF WithT
  <2>2. /\ CopyInv(mem', used', rawT', rawE', pre.mem, pre.used, half)
        /\ \A d \in pre.used : mem'[d] = mem[d]
        /\ \A d \in Cell \ {c} : mem'[d] = mem[d]
    <3>1. /\ CopyInv(mem', used, rawT \ {c}, rawE, pre.mem, pre.used, half)
          /\ \A d \in pre.used : mem'[d] = mem[d]
          /\ \A d \in Cell \ {c} : mem'[d] = mem[d]
      <4>1. /\ OldOK(pre.mem, pre.used)
            /\ CopyInv(mem, used, rawT, rawE, pre.mem, pre.used, half)
            /\ c \in rawT
        BY <1>1, <1>2
      <4>. QED  BY <2>1, <4>1, BranchTStep
    <3>. QED  BY <1>5, <3>1
  <2>3. Extends(mem, mem', pre.used)  BY <2>2 DEF Extends
  <2>4. RootInv(mem', root', pre.root, todo')  BY <1>1, <1>3, <1>4, <2>3, RootsExtend
  <2>5. table' = TableOf(mem', used' \ rawE')
    <3>1. \A d \in used \ rawE : mem'[d] = mem[d]
      BY <1>1, <1>2, <2>2, Collecting
    <3>2. TableOf(mem', used \ rawE) = TableOf(mem, used \ rawE)  BY <3>1, TableKept
    <3>3. used' = used /\ rawE' = rawE  BY <1>5
    <3>. QED  BY <1>1, <1>3, <3>2, <3>3
  <2>6. /\ mem' \in [Cell -> Node] /\ used' \subseteq HalfSpace(half)
        /\ rawT' \subseteq used' /\ rawE' \subseteq used'
    BY <2>2 DEF CopyInv
  <2>7. TypeOK'  BY <1>1, <2>6 DEF IInv, TypeOK
  <2>. QED  BY <1>1, <2>2, <2>4, <2>5, <2>7 DEF IInv
<1>6. CASE /\ ~Settled(mem[c].T)
           /\ \E n \in Free :
                 /\ mem' = [MovedMem(mem[c].T.cell, n)
                              EXCEPT ![c].T = Flip(mem[c].T.neg, Reg(n))]
                 /\ used' = used \union {n}
                 /\ rawT' = (rawT \ {c}) \union {n}
                 /\ rawE' = rawE \union {n}
  <2>. DEFINE was == mem[c].T
  <2>1. PICK n \in Free :
          /\ mem' = [MovedMem(was.cell, n) EXCEPT ![c].T = Flip(was.neg, Reg(n))]
          /\ used' = used \union {n}
          /\ rawT' = (rawT \ {c}) \union {n}
          /\ rawE' = rawE \union {n}
    BY <1>6
  <2>. DEFINE m1 == MovedMem(was.cell, n)
  <2>2. was /= NIL /\ ~Heart(mem, was.cell)  BY <1>6, OfMem DEF IsSettled
  <2>3. was.cell \in pre.used  BY <1>1, <1>2, <2>2, RawBranches
  <2>4. n \in HalfSpace(half) \ used /\ n \in Cell /\ n /= c
    BY <1>2 DEF Free, HalfSpace
  <2>5. m1 = CopyOf(mem, was.cell, n)  BY DEF MovedMem, CopyOf
  <2>. HIDE DEF m1, was
  <2>6. /\ CopyInv(m1, used', rawT \union {n}, rawE', pre.mem, pre.used, half)
        /\ Extends(mem, m1, pre.used)
        /\ Heart(m1, was.cell) /\ m1[was.cell].T = Reg(n)
        /\ \A d \in used : m1[d] = mem[d]
    <3>1. /\ CopyInv(m1, used \union {n}, rawT \union {n}, rawE \union {n}, pre.mem, pre.used, half)
          /\ Extends(mem, m1, pre.used)
          /\ Heart(m1, was.cell) /\ m1[was.cell].T = Reg(n)
          /\ \A d \in used : m1[d] = mem[d]
      <4>1. OldOK(pre.mem, pre.used) /\ CopyInv(mem, used, rawT, rawE, pre.mem, pre.used, half)
        BY <1>2
      <4>2. ~Heart(mem, was.cell) /\ n \in HalfSpace(half) \ used  BY <2>2, <2>4
      <4>. QED  BY ONLY <2>3, <2>5, <4>1, <4>2, CopyStep, SMTT(60)
    <3>. QED  BY <2>1, <3>1
  <2>7. m1[c].T = was  BY <1>2, <2>6 DEF was
  <2>8. IsSettled(m1, was) /\ Moved(m1, was) = Flip(was.neg, Reg(n))
    BY <2>2, <2>6 DEF IsSettled, Moved
  <2>9. mem' = WithT(m1, c, Moved(m1, m1[c].T))
    BY <2>1, <2>7, <2>8 DEF m1, WithT
  <2>10. c \in rawT \union {n} /\ IsSettled(m1, m1[c].T)  BY <1>1, <2>7, <2>8
  <2>11. rawT' = (rawT \union {n}) \ {c}  BY <2>1, <2>4
  <2>12. /\ CopyInv(mem', used', rawT', rawE', pre.mem, pre.used, half)
         /\ \A d \in pre.used : mem'[d] = m1[d]
         /\ \A d \in Cell \ {c} : mem'[d] = m1[d]
    <3>1. /\ CopyInv(mem', used', (rawT \union {n}) \ {c}, rawE', pre.mem, pre.used, half)
          /\ \A d \in pre.used : mem'[d] = m1[d]
          /\ \A d \in Cell \ {c} : mem'[d] = m1[d]
      <4>1. /\ OldOK(pre.mem, pre.used)
            /\ CopyInv(m1, used', rawT \union {n}, rawE', pre.mem, pre.used, half)
        BY <1>2, <2>6
      <4>. QED  BY <2>9, <2>10, <4>1, BranchTStep
    <3>. QED  BY <2>11, <3>1
  <2>13. Extends(mem, mem', pre.used)  BY <2>6, <2>12 DEF Extends
  <2>14. RootInv(mem', root', pre.root, todo')  BY <1>1, <1>3, <1>4, <2>13, RootsExtend
  <2>15. table' = TableOf(mem', used' \ rawE')
    <3>1. used' \ rawE' = used \ rawE  BY <2>1, <2>4
    <3>2. \A d \in used \ rawE : mem'[d] = mem[d]
      BY <1>1, <1>2, <2>6, <2>12, Collecting
    <3>3. TableOf(mem', used \ rawE) = TableOf(mem, used \ rawE)  BY <3>2, TableKept
    <3>. QED  BY <1>1, <1>3, <3>1, <3>3
  <2>16. /\ mem' \in [Cell -> Node] /\ used' \subseteq HalfSpace(half)
         /\ rawT' \subseteq used' /\ rawE' \subseteq used'
    BY <2>12 DEF CopyInv
  <2>17. TypeOK'  BY <1>1, <2>16 DEF IInv, TypeOK
  <2>. QED  BY <1>1, <2>12, <2>14, <2>15, <2>17 DEF IInv
<1>. QED  BY <1>5, <1>6 DEF ScanT
LEMMA ScanEKeeps ==
    ASSUME IInv, NEW c, ScanE(c)
    PROVE  IInv'
<1>1. /\ phase = "scan" /\ c \in rawE /\ c \notin rawT
      /\ half' = half /\ table' = [table EXCEPT ![c] = mem'[c]] /\ root' = root /\ weak' = weak
      /\ pend' = pend /\ phase' = phase /\ todo' = todo /\ pre' = pre
  BY DEF ScanE
<1>2. /\ CopyInv(mem, used, rawT, rawE, pre.mem, pre.used, half)
      /\ OldOK(pre.mem, pre.used)
      /\ c \in used /\ c \in rawE /\ c \in Cell /\ mem \in [Cell -> Node]
  BY <1>1, Collecting DEF CopyInv
<1>3. table = TableOf(mem, used \ rawE) /\ RootInv(mem, root, pre.root, todo)
  BY <1>1 DEF IInv
<1>4. \A l \in Loc : pre.root[l] /= NIL => pre.root[l].cell \in pre.used
  BY <1>1, Collecting
<1>5. CASE /\ Settled(mem[c].E)
           /\ mem' = [mem EXCEPT ![c].E = Forwarded(mem[c].E)]
           /\ rawE' = rawE \ {c}
           /\ UNCHANGED <<used, rawT>>
  <2>1. /\ IsSettled(mem, mem[c].E)
        /\ mem' = WithE(mem, c, Moved(mem, mem[c].E))
    BY <1>5, OfMem DEF WithE
  <2>2. /\ CopyInv(mem', used', rawT', rawE', pre.mem, pre.used, half)
        /\ \A d \in pre.used : mem'[d] = mem[d]
        /\ \A d \in Cell \ {c} : mem'[d] = mem[d]
    <3>1. /\ CopyInv(mem', used, rawT, rawE \ {c}, pre.mem, pre.used, half)
          /\ \A d \in pre.used : mem'[d] = mem[d]
          /\ \A d \in Cell \ {c} : mem'[d] = mem[d]
      <4>1. /\ OldOK(pre.mem, pre.used)
            /\ CopyInv(mem, used, rawT, rawE, pre.mem, pre.used, half)
            /\ c \in rawE \ rawT
        BY <1>1, <1>2
      <4>. QED  BY <2>1, <4>1, BranchEStep
    <3>. QED  BY <1>5, <3>1
  <2>3. Extends(mem, mem', pre.used)  BY <2>2 DEF Extends
  <2>4. RootInv(mem', root', pre.root, todo')  BY <1>1, <1>3, <1>4, <2>3, RootsExtend
  <2>5. table' = TableOf(mem', used' \ rawE')
    <3>1. \A d \in used \ rawE : mem'[d] = mem[d]
      BY <1>1, <1>2, <2>2, Collecting
    <3>2. used' \ rawE' = (used \ rawE) \union {c}  BY <1>2, <1>5
    <3>3. [TableOf(mem, used \ rawE) EXCEPT ![c] = mem'[c]]
             = TableOf(mem', (used \ rawE) \union {c})
      BY <1>2, <3>1 DEF TableOf
    <3>. QED  BY <1>1, <1>3, <3>2, <3>3
  <2>6. /\ mem' \in [Cell -> Node] /\ used' \subseteq HalfSpace(half)
        /\ rawT' \subseteq used' /\ rawE' \subseteq used'
    BY <2>2 DEF CopyInv
  <2>7. TypeOK'  BY <1>1, <2>5, <2>6 DEF IInv, TypeOK, TableOf
  <2>. QED  BY <1>1, <2>2, <2>4, <2>5, <2>7 DEF IInv
<1>6. CASE /\ ~Settled(mem[c].E)
           /\ \E n \in Free :
                 /\ mem' = [MovedMem(mem[c].E.cell, n)
                              EXCEPT ![c].E = Flip(mem[c].E.neg, Reg(n))]
                 /\ used' = used \union {n}
                 /\ rawT' = rawT \union {n}
                 /\ rawE' = (rawE \ {c}) \union {n}
  <2>. DEFINE was == mem[c].E
  <2>1. PICK n \in Free :
          /\ mem' = [MovedMem(was.cell, n) EXCEPT ![c].E = Flip(was.neg, Reg(n))]
          /\ used' = used \union {n}
          /\ rawT' = rawT \union {n}
          /\ rawE' = (rawE \ {c}) \union {n}
    BY <1>6
  <2>. DEFINE m1 == MovedMem(was.cell, n)
  <2>2. was /= NIL /\ ~Heart(mem, was.cell)  BY <1>6, OfMem DEF IsSettled
  <2>3. was.cell \in pre.used  BY <1>1, <1>2, <2>2, RawBranches
  <2>4. n \in HalfSpace(half) \ used /\ n \in Cell /\ n /= c
    BY <1>2 DEF Free, HalfSpace
  <2>5. m1 = CopyOf(mem, was.cell, n)  BY DEF MovedMem, CopyOf
  <2>. HIDE DEF m1, was
  <2>6. /\ CopyInv(m1, used', rawT', rawE \union {n}, pre.mem, pre.used, half)
        /\ Extends(mem, m1, pre.used)
        /\ Heart(m1, was.cell) /\ m1[was.cell].T = Reg(n)
        /\ \A d \in used : m1[d] = mem[d]
    <3>1. /\ CopyInv(m1, used \union {n}, rawT \union {n}, rawE \union {n}, pre.mem, pre.used, half)
          /\ Extends(mem, m1, pre.used)
          /\ Heart(m1, was.cell) /\ m1[was.cell].T = Reg(n)
          /\ \A d \in used : m1[d] = mem[d]
      <4>1. OldOK(pre.mem, pre.used) /\ CopyInv(mem, used, rawT, rawE, pre.mem, pre.used, half)
        BY <1>2
      <4>2. ~Heart(mem, was.cell) /\ n \in HalfSpace(half) \ used  BY <2>2, <2>4
      <4>. QED  BY ONLY <2>3, <2>5, <4>1, <4>2, CopyStep, SMTT(60)
    <3>. QED  BY <2>1, <3>1
  <2>7. m1[c].E = was  BY <1>2, <2>6 DEF was
  <2>8. IsSettled(m1, was) /\ Moved(m1, was) = Flip(was.neg, Reg(n))
    BY <2>2, <2>6 DEF IsSettled, Moved
  <2>9. mem' = WithE(m1, c, Moved(m1, m1[c].E))
    BY <2>1, <2>7, <2>8 DEF m1, WithE
  <2>10. c \in (rawE \union {n}) \ rawT' /\ IsSettled(m1, m1[c].E)
    BY <1>1, <2>1, <2>4, <2>7, <2>8
  <2>11. rawE' = (rawE \union {n}) \ {c}  BY <2>1, <2>4
  <2>12. /\ CopyInv(mem', used', rawT', rawE', pre.mem, pre.used, half)
         /\ \A d \in pre.used : mem'[d] = m1[d]
         /\ \A d \in Cell \ {c} : mem'[d] = m1[d]
    <3>1. /\ CopyInv(mem', used', rawT', (rawE \union {n}) \ {c}, pre.mem, pre.used, half)
          /\ \A d \in pre.used : mem'[d] = m1[d]
          /\ \A d \in Cell \ {c} : mem'[d] = m1[d]
      <4>1. /\ OldOK(pre.mem, pre.used)
            /\ CopyInv(m1, used', rawT', rawE \union {n}, pre.mem, pre.used, half)
        BY <1>2, <2>6
      <4>. QED  BY <2>9, <2>10, <4>1, BranchEStep
    <3>. QED  BY <2>11, <3>1
  <2>13. Extends(mem, mem', pre.used)  BY <2>6, <2>12 DEF Extends
  <2>14. RootInv(mem', root', pre.root, todo')  BY <1>1, <1>3, <1>4, <2>13, RootsExtend
  <2>15. table' = TableOf(mem', used' \ rawE')
    <3>1. used' \ rawE' = (used \ rawE) \union {c}  BY <1>2, <2>1, <2>4
    <3>2. \A d \in used \ rawE : mem'[d] = mem[d]
      BY <1>1, <1>2, <2>6, <2>12, Collecting
    <3>3. [TableOf(mem, used \ rawE) EXCEPT ![c] = mem'[c]]
             = TableOf(mem', (used \ rawE) \union {c})
      BY <1>2, <3>2 DEF TableOf
    <3>. QED  BY <1>1, <1>3, <3>1, <3>3
  <2>16. /\ mem' \in [Cell -> Node] /\ used' \subseteq HalfSpace(half)
         /\ rawT' \subseteq used' /\ rawE' \subseteq used'
    BY <2>12 DEF CopyInv
  <2>17. TypeOK'  BY <1>1, <2>16 DEF IInv, TypeOK
  <2>. QED  BY <1>1, <2>12, <2>14, <2>15, <2>17 DEF IInv
<1>. QED  BY <1>5, <1>6 DEF ScanE

LEMMA ScanCacheKeeps ==
    ASSUME IInv, ScanCache
    PROVE  IInv'
<1>1. /\ phase = "scan" /\ rawE = {} /\ phase' = "mutator" /\ pre' = NIL
      /\ weak' \subseteq {RelocatedEntry(e) : e \in {x \in weak : Kept(x)}}
      /\ mem' = [c \in Cell |-> IF c \in used THEN mem[c] ELSE Blank]
      /\ half' = half /\ used' = used /\ table' = table /\ root' = root
      /\ pend' = pend /\ todo' = todo /\ rawT' = rawT /\ rawE' = rawE
  BY DEF ScanCache
<1>2. rawT = {} /\ todo = {} /\ table = TableOf(mem, used)
  <2>1. todo = {} /\ table = TableOf(mem, used \ rawE)  BY <1>1 DEF IInv
  <2>2. rawT \subseteq rawE  BY <1>1, Collecting DEF CopyInv
  <2>. QED  BY <1>1, <2>1, <2>2
<1>3. /\ TypeOK /\ HeapOK(pre.mem, pre.used, pre.root, pre.weak)
      /\ PendOK(pre.mem, pre.used, pre.root, pend)
      /\ CopyInv(mem, used, {}, {}, pre.mem, pre.used, half)
      /\ RootInv(mem, root, pre.root, {})
      /\ weak = pre.weak /\ used \subseteq Cell
  BY <1>1, <1>2, Collecting
<1>4. weak' \subseteq MovedEntries(mem, pre.weak) /\ mem' = Cleared(mem, used)
  BY <1>1, <1>3, OfMem DEF RelocatedEntry, Kept, MovedEntries, Cleared
<1>5. root \in [Loc -> PtrOrNIL] /\ pend \in VarId \union {NIL}
  BY <1>3 DEF TypeOK
<1>6. HeapOK(mem', used, root, weak') /\ PendOK(mem', used, root, pend)
  <2>1. /\ HeapOK(pre.mem, pre.used, pre.root, pre.weak)
        /\ PendOK(pre.mem, pre.used, pre.root, pend)
        /\ CopyInv(mem, used, {}, {}, pre.mem, pre.used, half)
        /\ RootInv(mem, root, pre.root, {})
    BY <1>3
  <2>. QED  BY <1>4, <1>5, <2>1, CollectionLeavesHeap
<1>7. \A c \in used : mem'[c] = mem[c]  BY <1>1, <1>3
<1>8. table' = TableOf(mem', used')
  <2>1. TableOf(mem', used) = TableOf(mem, used)  BY <1>7, TableKept
  <2>. QED  BY <1>1, <1>2, <2>1
<1>9. TypeOK'
  <2>1. mem' \in [Cell -> Node] /\ weak' \subseteq Entry  BY <1>6 DEF HeapOK
  <2>. QED  BY <1>1, <1>3, <2>1 DEF TypeOK
<1>. QED  BY <1>1, <1>2, <1>6, <1>8, <1>9 DEF IInv

-----------------------------------------------------------------------------

(* IInv is inductive: whatever the algorithms do with the pointers they    *)
(* can come by, and wherever a collection stands (garb_collect.c:47-172).  *)
LEMMA Invariance == IInv /\ [Next]_vars => IInv'
<1>. SUFFICES ASSUME IInv, [Next]_vars  PROVE IInv'  OBVIOUS
<1>1. CASE Mutate
  <2>1. /\ Running /\ root' \in [Loc -> Obtainable] /\ root'[OneLoc] = root[OneLoc]
        /\ UNCHANGED <<heapVars, weak, pend, gcVars>>
    BY <1>1 DEF Mutate
  <2>. QED  BY <2>1, MutateKeeps
<1>2. CASE FindOrAdd
  BY <1>2, FindOrAddHitKeeps, FindOrAddMissKeeps, AddNodeKeeps DEF FindOrAdd
<1>3. CASE Caching  BY <1>3, CachingKeeps
<1>4. CASE StartGc \/ AbortGc  BY <1>4, StartGcKeeps
<1>5. CASE Collect
  BY <1>5, RelocateRootKeeps, ResetTableKeeps, ScanTKeeps, ScanEKeeps, ScanCacheKeeps
     DEF Collect
<1>6. CASE UNCHANGED vars
  <2>1. /\ mem' = mem /\ half' = half /\ used' = used /\ table' = table /\ root' = root
        /\ weak' = weak /\ pend' = pend /\ phase' = phase /\ todo' = todo
        /\ rawT' = rawT /\ rawE' = rawE /\ pre' = pre
    BY <1>6 DEF vars
  <2>2. TypeOK'  BY <2>1 DEF IInv, TypeOK
  <2>. QED  BY <2>1, <2>2 DEF IInv
<1>. QED  BY <1>1, <1>2, <1>3, <1>4, <1>5, <1>6 DEF Next

THEOREM Inductive == Spec => []IInv
<1>1. Init => IInv  BY InitKeeps
<1>2. IInv /\ [Next]_vars => IInv'  BY Invariance
<1>. QED  BY <1>1, <1>2, PTL DEF Spec

(* Every variable keeps its type (bdd_int.h:676-760).                      *)
THEOREM TypeCorrect == Spec => []TypeOK
<1>1. IInv => TypeOK  BY DEF IInv
<1>. QED  BY <1>1, Inductive, PTL

(* No root, no branch of a node and no cache entry ever leads to a cell    *)
(* that holds no node (bdd_garbage_collect, bdd_safeframe_start).          *)
THEOREM HeapHasNoDangling == Spec => []NoDangling
<1>1. IInv => NoDangling
  <2>. SUFFICES ASSUME IInv, phase = "mutator"
                PROVE  /\ \A p \in Held \union CachedPtrs : p.cell \in used
                       /\ \A c \in used : Closed(mem[c], used)
    BY DEF NoDangling
  <2>1. HeapOK(mem, used, root, weak)  BY DEF IInv
  <2>2. \A p \in Held : p.cell \in used  BY <2>1 DEF HeapOK, Held
  <2>3. ASSUME NEW p \in CachedPtrs  PROVE p.cell \in used
    <3>1. PICK e \in weak, s \in Slot : p = e[s] /\ p /= NIL  BY DEF CachedPtrs
    <3>. QED  BY <2>1, <3>1 DEF HeapOK
  <2>4. \A c \in used : Closed(mem[c], used)  BY <2>1 DEF HeapOK
  <2>. QED  BY <2>2, <2>3, <2>4
<1>. QED  BY <1>1, Inductive, PTL

(* The hash table keeps nodes unique (bdd_find_or_add), through any number *)
(* of collections that move every node and hash it anew.                   *)
THEOREM NodesAreUnique == Spec => []Unique
<1>1. IInv => Unique  BY DEF IInv, HeapOK, TableOf, Unique
<1>. QED  BY <1>1, Inductive, PTL

(* A collection between the search of bdd_find_or_add and its insertion    *)
(* does not make the insertion a duplicate.                                *)
THEOREM MissStaysMiss == Spec => []StillNew
<1>1. IInv => StillNew
  <2>. SUFFICES ASSUME IInv, phase = "mutator", pend /= NIL
                PROVE  /\ Closed(Wanted(pend), used)
                       /\ Proper(Wanted(pend))
                       /\ \A c \in used : mem[c] /= Wanted(pend)
    BY DEF StillNew
  <2>1. PendOK(mem, used, root, pend)  BY DEF IInv
  <2>. QED  BY <2>1, OfMem DEF PendOK
<1>. QED  BY <1>1, Inductive, PTL

(* Variables increase along every branch, T is regular, T differs from E.  *)
THEOREM NodesAreOrdered == Spec => []Ordered
<1>1. IInv => Ordered
  <2>. SUFFICES ASSUME IInv, phase = "mutator", NEW c \in used
                PROVE  IF c = root[OneLoc].cell THEN mem[c] = OneNode ELSE Proper(mem[c])
    BY DEF Ordered
  <2>1. HeapOK(mem, used, root, weak)  BY DEF IInv
  <2>. QED  BY <2>1, OfMem DEF HeapOK
<1>. QED  BY <1>1, Inductive, PTL

(* The heap a collection leaves is the heap the roots reached, node for    *)
(* node (scan_manager, scan_newhalf, relocate).                            *)
THEOREM CollectionIsFaithful == Spec => []Faithful
<1>1. IInv => Faithful
  <2>. SUFFICES ASSUME IInv, phase = "scan", rawE = {}
                PROVE  /\ \A l \in Loc : /\ Settled(pre.root[l])
                                         /\ root[l] = MovedPtr(pre.root[l])
                       /\ \A c \in Survivors :
                             /\ Settled(pre.mem[c].T) /\ Settled(pre.mem[c].E)
                             /\ FORWARD_POINTER(c).cell \in used
                             /\ mem[FORWARD_POINTER(c).cell] = MovedNode(pre.mem[c])
                       /\ \A c, d \in Survivors :
                             FORWARD_POINTER(c) = FORWARD_POINTER(d) => c = d
    BY DEF Faithful
  <2>1. rawT = {} /\ todo = {}  BY Collecting DEF CopyInv, IInv
  <2>2. /\ OldOK(pre.mem, pre.used) /\ pre.used \subseteq Cell
        /\ CopyInv(mem, used, {}, {}, pre.mem, pre.used, half)
        /\ RootInv(mem, root, pre.root, {})
    BY <2>1, Collecting
  <2>3. \A c \in Survivors : c \in pre.used /\ Heart(mem, c)
    BY OfMem DEF Survivors
  <2>4. \A l \in Loc : Settled(pre.root[l]) /\ root[l] = MovedPtr(pre.root[l])
    BY <2>2, OfMem DEF RootInv
  <2>5. ASSUME NEW c \in Survivors
        PROVE  /\ Settled(pre.mem[c].T) /\ Settled(pre.mem[c].E)
               /\ FORWARD_POINTER(c).cell \in used
               /\ mem[FORWARD_POINTER(c).cell] = MovedNode(pre.mem[c])
    <3>1. /\ IsSettled(mem, pre.mem[c].T) /\ IsSettled(mem, pre.mem[c].E)
          /\ mem[c].T.cell \in used
          /\ mem[mem[c].T.cell] = MovedN(mem, pre.mem[c])
      BY <2>2, <2>3, CopiesLand
    <3>2. MovedN(mem, pre.mem[c]) = MovedNode(pre.mem[c])
      BY OfMem DEF MovedN, MovedNode
    <3>. QED  BY <3>1, <3>2, OfMem DEF FORWARD_POINTER
  <2>6. \A c, d \in Survivors : FORWARD_POINTER(c) = FORWARD_POINTER(d) => c = d
    BY <2>2, <2>3 DEF CopyInv, FORWARD_POINTER
  <2>. QED  BY <2>4, <2>5, <2>6
<1>. QED  BY <1>1, Inductive, PTL

-----------------------------------------------------------------------------
(* Room.  The copies are as many as the cells they were copied from, and   *)
(* one more of these is still to be copied.                                *)

LEMMA RoomForOneMore ==
    ASSUME IInv, phase /= "mutator",
           NEW c \in pre.used, ~Heart(mem, c)
    PROVE  Free /= {}
<1>. SUFFICES ASSUME Free = {}  PROVE FALSE  OBVIOUS
<1>. DEFINE H == HalfSpace(1 - half)
            T == H \ {c}
            f == [n \in used |-> CHOOSE d \in pre.used : Heart(mem, d) /\ mem[d].T = Reg(n)]
<1>1. TypeOK /\ CopyInv(mem, used, rawT, rawE, pre.mem, pre.used, half) /\ used \subseteq Cell
  BY Collecting
<1>2. half \in {0, 1} /\ used = HalfSpace(half)  BY <1>1 DEF TypeOK, Free
<1>3. pre.used \subseteq H
  BY <1>1, <1>2, GcAssumption DEF CopyInv, HalfSpace
<1>4. IsFiniteSet(used) /\ IsFiniteSet(H)
  BY <1>1, GcAssumption, FS_Subset DEF HalfSpace
<1>5. Cardinality(used) = Cardinality(H)  BY <1>2, GcAssumption
<1>6. Cardinality(H) \in Nat  BY <1>4, FS_CardinalityType
<1>7. IsFiniteSet(T) /\ Cardinality(T) = Cardinality(H) - 1
  BY <1>3, <1>4, FS_RemoveElement
<1>8. ASSUME NEW n \in used
      PROVE  f[n] \in pre.used /\ Heart(mem, f[n]) /\ mem[f[n]].T = Reg(n)
  <2>1. \E d \in pre.used : Heart(mem, d) /\ mem[d].T = Reg(n)  BY <1>1 DEF CopyInv
  <2>. QED  BY <2>1
<1>9. f \in [used -> T]
  <2>1. \A n \in used : f[n] \in T  BY <1>3, <1>8
  <2>. QED  BY <2>1
<1>. HIDE DEF f, T, H
<1>10. PICK n, k \in used : n /= k /\ f[n] = f[k]
  <2>1. Cardinality(T) < Cardinality(used)  BY <1>5, <1>6, <1>7
  <2>. QED  BY <1>4, <1>7, <1>9, <2>1, FS_PigeonHole
<1>11. Reg(n) = Reg(k)  BY <1>8, <1>10
<1>. QED  BY <1>1, <1>10, <1>11, RegType

(* "It should never occur that we are during gc and the free list is       *)
(* empty" (new_node.c:63-64).                                              *)
THEOREM SpaceSuffices == Spec => []NeverStarves
<1>1. IInv => NeverStarves
  <2>. SUFFICES ASSUME IInv, NeedsCell  PROVE Free /= {}  BY DEF NeverStarves
  <2>1. phase /= "mutator"  BY DEF NeedsCell, IInv
  <2>2. /\ CopyInv(mem, used, rawT, rawE, pre.mem, pre.used, half)
        /\ OldOK(pre.mem, pre.used) /\ RootInv(mem, root, pre.root, todo)
    BY <2>1, Collecting
  <2>3. CASE \E l \in todo : ~Settled(root[l])
    <3>1. PICK l \in todo : ~Settled(root[l])  BY <2>3
    <3>2. l \in Loc  BY DEF IInv, TypeOK
    <3>3. root[l] /= NIL /\ ~Heart(mem, root[l].cell) /\ root[l] = pre.root[l]
      BY <2>2, <3>1, <3>2, OfMem DEF RootInv, IsSettled
    <3>4. root[l].cell \in pre.used  BY <2>1, <3>2, <3>3, Collecting
    <3>. QED  BY <2>1, <3>3, <3>4, RoomForOneMore
  <2>4. CASE \E c \in rawT : ~Settled(mem[c].T)
    <3>1. PICK c \in rawT : mem[c].T /= NIL /\ ~Heart(mem, mem[c].T.cell)
      BY <2>4, OfMem DEF IsSettled
    <3>2. mem[c].T.cell \in pre.used  BY <2>2, <3>1, RawBranches
    <3>. QED  BY <2>1, <3>1, <3>2, RoomForOneMore
  <2>5. CASE \E c \in rawE : ~Settled(mem[c].E)
    <3>1. PICK c \in rawE : mem[c].E /= NIL /\ ~Heart(mem, mem[c].E.cell)
      BY <2>5, OfMem DEF IsSettled
    <3>2. mem[c].E.cell \in pre.used  BY <2>2, <3>1, RawBranches
    <3>. QED  BY <2>1, <3>1, <3>2, RoomForOneMore
  <2>. QED  BY <2>3, <2>4, <2>5 DEF NeedsCell
<1>. QED  BY <1>1, Inductive, PTL

-----------------------------------------------------------------------------
(* Garbage.  The copies are the least set that contains the roots that     *)
(* were relocated and the branches that were.                              *)

ReachedIn(m, r, td, rt, re, C) ==
    /\ \A l \in Loc \ td : r[l] /= NIL => r[l].cell \in C
    /\ \A c \in C \ rt : m[c].T /= NIL => m[c].T.cell \in C
    /\ \A c \in C \ re : m[c].E /= NIL => m[c].E.cell \in C

LeastCopies ==
    phase /= "mutator" =>
        \A C \in SUBSET used : ReachedIn(mem, root, todo, rawT, rawE, C) => C = used

\* One more copy, n, or none: what was copied before is still needed.
LEMMA StillReached ==
    ASSUME NEW m, NEW r, NEW td, NEW rt, NEW re, NEW u,
           ReachedIn(m, r, td, rt, re, u),
           \A D \in SUBSET u : ReachedIn(m, r, td, rt, re, D) => D = u,
           NEW m1, NEW r1, NEW td1, NEW rt1, NEW re1,
           \A l \in Loc \ td : l \notin td1 /\ r1[l] = r[l],
           \A c \in u \ rt : c \notin rt1 /\ m1[c].T = m[c].T,
           \A c \in u \ re : c \notin re1 /\ m1[c].E = m[c].E,
           NEW n, n \notin u,
           NEW C \in SUBSET (u \union {n}), ReachedIn(m1, r1, td1, rt1, re1, C)
    PROVE  u \subseteq C
<1>. DEFINE D == C \ {n}
<1>1. D \in SUBSET u  OBVIOUS
<1>2. \A l \in Loc \ td : r[l] /= NIL => r[l].cell \in D  BY DEF ReachedIn
<1>3. \A c \in D \ rt : m[c].T /= NIL => m[c].T.cell \in D  BY DEF ReachedIn
<1>4. \A c \in D \ re : m[c].E /= NIL => m[c].E.cell \in D  BY DEF ReachedIn
<1>5. ReachedIn(m, r, td, rt, re, D)  BY <1>2, <1>3, <1>4 DEF ReachedIn
<1>. QED  BY <1>1, <1>5

\* What was relocated leads to copies.
LEMMA CopiesAreReached ==
    ASSUME IInv, phase /= "mutator"
    PROVE  ReachedIn(mem, root, todo, rawT, rawE, used)
<1>1. /\ CopyInv(mem, used, rawT, rawE, pre.mem, pre.used, half)
      /\ OldOK(pre.mem, pre.used) /\ RootInv(mem, root, pre.root, todo)
      /\ used \subseteq Cell /\ pre.used \subseteq Cell
  BY Collecting
<1>2. ASSUME NEW l \in Loc \ todo, root[l] /= NIL
      PROVE  root[l].cell \in used
  <2>1. IsSettled(mem, pre.root[l]) /\ root[l] = Moved(mem, pre.root[l])
    BY <1>1 DEF RootInv
  <2>2. pre.root[l] \in PtrOrNIL /\ (pre.root[l] /= NIL => pre.root[l].cell \in pre.used)
    BY Collecting
  <2>. QED  BY <1>1, <1>2, <2>1, <2>2, MovedType
<1>3. ASSUME NEW c \in used
      PROVE  /\ c \notin rawT /\ mem[c].T /= NIL => mem[c].T.cell \in used
             /\ c \notin rawE /\ mem[c].E /= NIL => mem[c].E.cell \in used
  <2>1. PICK o \in pre.used : Heart(mem, o) /\ mem[o].T = Reg(c)  BY <1>1 DEF CopyInv
  <2>2. PICK x \in used : mem[o].T = Reg(x) /\ IsCopy(mem, rawT, rawE, x, pre.mem[o])
    BY <1>1, <2>1 DEF CopyInv
  <2>3. IsCopy(mem, rawT, rawE, c, pre.mem[o])  BY <1>1, <2>1, <2>2, RegType
  <2>4. \A p \in {pre.mem[o].T, pre.mem[o].E} :
            p \in PtrOrNIL /\ (p /= NIL => p.cell \in pre.used)
    BY <1>1 DEF OldOK, Closed, Node
  <2>5. \A p \in {pre.mem[o].T, pre.mem[o].E} :
            IsSettled(mem, p) /\ Moved(mem, p) /= NIL => Moved(mem, p).cell \in used
    BY <1>1, <2>4, MovedType
  <2>. QED  BY <2>3, <2>5 DEF IsCopy, BranchOK
<1>. QED  BY <1>2, <1>3 DEF ReachedIn

\* The constant's cell in the old half.
LEMMA OneIsOld ==
    ASSUME IInv, phase /= "mutator"
    PROVE  \E n : n \notin used
<1>1. pre.root[OneLoc].cell \in pre.used
  BY Collecting, GcAssumption DEF HeapOK
<1>2. used \subseteq HalfSpace(half) /\ pre.used \subseteq Cell \ HalfSpace(half)
  BY Collecting DEF CopyInv
<1>. QED  BY <1>1, <1>2

LEMMA LeastKept == IInv /\ LeastCopies /\ [Next]_vars => LeastCopies'
<1>. SUFFICES ASSUME IInv, LeastCopies, [Next]_vars, phase' /= "mutator",
                     NEW C \in SUBSET used',
                     ReachedIn(mem', root', todo', rawT', rawE', C)
              PROVE  C = used'
  BY DEF LeastCopies
<1>1. CASE StartGc \/ AbortGc  BY <1>1 DEF StartGc, AbortGc, Flip_spaces
<1>2. ASSUME phase /= "mutator"
      PROVE  /\ ReachedIn(mem, root, todo, rawT, rawE, used)
             /\ \A D \in SUBSET used : ReachedIn(mem, root, todo, rawT, rawE, D) => D = used
             /\ root \in [Loc -> PtrOrNIL] /\ mem \in [Cell -> Node]
             /\ todo \subseteq Loc /\ rawT \subseteq used /\ rawE \subseteq used
             /\ used \subseteq HalfSpace(half) /\ used \subseteq Cell
             /\ pre.used \subseteq Cell \ HalfSpace(half)
             /\ \A l \in Loc : pre.root[l] /= NIL => pre.root[l].cell \in pre.used
  BY <1>2, CopiesAreReached, Collecting DEF LeastCopies, TypeOK, CopyInv
<1>3. ASSUME NEW l \in Loc, RelocateRoot(l)  PROVE C = used'
  <2>1. phase = "roots" /\ l \in todo /\ todo' = todo \ {l}
    BY <1>3 DEF RelocateRoot
  <2>2. \A k \in Loc \ todo : k \notin todo' /\ root'[k] = root[k]
    BY <1>2, <1>3, <2>1 DEF RelocateRoot
  <2>3. CASE UNCHANGED <<mem, used, rawT, rawE>>
    <3>1. PICK n : n \notin used  BY <1>2, <2>1, OneIsOld
    <3>2. used \subseteq C
      <4>1. /\ C \in SUBSET (used \union {n})
            /\ \A d \in used \ rawT : d \notin rawT' /\ mem'[d].T = mem[d].T
            /\ \A d \in used \ rawE : d \notin rawE' /\ mem'[d].E = mem[d].E
        BY <2>3
      <4>. QED  BY <1>2, <2>1, <2>2, <3>1, <4>1, StillReached
    <3>. QED  BY <2>3, <3>2
  <2>4. CASE /\ ~Settled(root[l])
             /\ \E n \in Free :
                   /\ mem' = MovedMem(root[l].cell, n)
                   /\ root' = [root EXCEPT ![l] = Flip(root[l].neg, Reg(n))]
                   /\ Copy(n)
    <3>1. PICK n \in Free :
            /\ mem' = MovedMem(root[l].cell, n)
            /\ root' = [root EXCEPT ![l] = Flip(root[l].neg, Reg(n))]
            /\ used' = used \union {n}
            /\ rawT' = rawT \union {n}
            /\ rawE' = rawE \union {n}
      BY <2>4 DEF Copy
    <3>2. root[l] /= NIL /\ root[l] = pre.root[l]
      BY <2>1, Collecting DEF RootInv
    <3>3. n \notin used /\ n \in Cell  BY DEF Free, HalfSpace
    <3>4. root[l].cell \notin used  BY <1>2, <2>1, <3>2
    <3>5. \A d \in used : mem'[d] = mem[d]
      BY <1>2, <2>1, <3>1, <3>3, <3>4 DEF MovedMem
    <3>6. used \subseteq C
      <4>1. /\ C \in SUBSET (used \union {n})
            /\ \A d \in used \ rawT : d \notin rawT' /\ mem'[d].T = mem[d].T
            /\ \A d \in used \ rawE : d \notin rawE' /\ mem'[d].E = mem[d].E
        BY <3>1, <3>3, <3>5
      <4>. QED  BY <1>2, <2>1, <2>2, <3>3, <4>1, StillReached
    <3>7. root'[l] /= NIL /\ root'[l].cell = n
      <4>1. root[l] \in Ptr /\ root[l].neg \in BOOLEAN
        BY <1>2, <2>1, <3>2, PtrType DEF PtrOrNIL
      <4>2. root'[l] = Flip(root[l].neg, Reg(n))  BY <1>2, <2>1, <3>1
      <4>. QED  BY <3>3, <4>1, <4>2, FlipType
    <3>8. n \in C  BY <2>1, <3>7 DEF ReachedIn
    <3>. QED  BY <3>1, <3>6, <3>8
  <2>. QED  BY <1>3, <2>3, <2>4 DEF RelocateRoot
<1>4. CASE ResetTable  BY <1>2, <1>4 DEF ResetTable
<1>5. ASSUME NEW c, ScanT(c)  PROVE C = used'
  <2>1. /\ phase = "scan" /\ c \in rawT /\ c \in used
        /\ root' = root /\ todo' = todo
    BY <1>5, <1>2 DEF ScanT
  <2>. DEFINE was == mem[c].T
  <2>2. was /= NIL => was.cell \in pre.used
    BY <2>1, Collecting, RawBranches
  <2>3. CASE /\ mem' = [mem EXCEPT ![c].T = Forwarded(was)]
             /\ rawT' = rawT \ {c}
             /\ UNCHANGED <<used, rawE>>
    <3>1. \A d \in used \ rawT : d \notin rawT' /\ mem'[d].T = mem[d].T
      BY <1>2, <2>1, <2>3
    <3>2. \A d \in used \ rawE : d \notin rawE' /\ mem'[d].E = mem[d].E
      BY <1>2, <2>1, <2>3
    <3>3. PICK n : n \notin used  BY <1>2, <2>1, OneIsOld
    <3>4. used \subseteq C
      <4>1. C \in SUBSET (used \union {n}) /\ \A l \in Loc \ todo : l \notin todo' /\ root'[l] = root[l]
        BY <2>1, <2>3
      <4>. QED  BY <1>2, <2>1, <3>1, <3>2, <3>3, <4>1, StillReached
    <3>. QED  BY <2>3, <3>4
  <2>4. CASE /\ ~Settled(was)
             /\ \E n \in Free :
                   /\ mem' = [MovedMem(was.cell, n) EXCEPT ![c].T = Flip(was.neg, Reg(n))]
                   /\ used' = used \union {n}
                   /\ rawT' = (rawT \ {c}) \union {n}
                   /\ rawE' = rawE \union {n}
    <3>1. PICK n \in Free :
            /\ mem' = [MovedMem(was.cell, n) EXCEPT ![c].T = Flip(was.neg, Reg(n))]
            /\ used' = used \union {n}
            /\ rawT' = (rawT \ {c}) \union {n}
            /\ rawE' = rawE \union {n}
      BY <2>4
    <3>2. was /= NIL  BY <2>4 DEF Settled
    <3>3. n \notin used /\ n \in Cell /\ n /= c  BY <1>2, <2>1 DEF Free, HalfSpace
    <3>4. was.cell \in Cell /\ was.cell \notin used  BY <1>2, <2>1, <2>2, <3>2
    <3>. HIDE DEF was
    <3>5. \A d \in used \ {c} : mem'[d] = mem[d]
      BY <1>2, <2>1, <3>1, <3>3, <3>4 DEF MovedMem
    <3>6. mem'[c].T = Flip(was.neg, Reg(n)) /\ mem'[c].E = mem[c].E
      BY <1>2, <2>1, <3>1, <3>3, <3>4 DEF MovedMem, Node
    <3>7. \A d \in used \ rawT : d \notin rawT' /\ mem'[d].T = mem[d].T
      BY <2>1, <3>1, <3>3, <3>5, <3>6
    <3>8. \A d \in used \ rawE : d \notin rawE' /\ mem'[d].E = mem[d].E
      BY <2>1, <3>1, <3>3, <3>5, <3>6
    <3>9. used \subseteq C
      <4>1. C \in SUBSET (used \union {n}) /\ \A l \in Loc \ todo : l \notin todo' /\ root'[l] = root[l]
        BY <2>1, <3>1
      <4>. QED  BY <1>2, <2>1, <3>3, <3>7, <3>8, <4>1, StillReached
    <3>10. mem'[c].T /= NIL /\ mem'[c].T.cell = n
      <4>1. was \in Ptr /\ was.neg \in BOOLEAN
        BY <1>2, <2>1, <3>2, PtrType DEF Node, PtrOrNIL, was
      <4>. QED  BY <3>3, <3>6, <4>1, FlipType
    <3>11. n \in C  BY <2>1, <3>1, <3>3, <3>9, <3>10, SMTT(60) DEF ReachedIn
    <3>. QED  BY <3>1, <3>9, <3>11
  <2>. QED  BY <1>5, <2>3, <2>4 DEF ScanT
<1>6. ASSUME NEW c, ScanE(c)  PROVE C = used'
  <2>1. /\ phase = "scan" /\ c \in rawE /\ c \in used
        /\ root' = root /\ todo' = todo
    BY <1>6, <1>2 DEF ScanE
  <2>. DEFINE was == mem[c].E
  <2>2. was /= NIL => was.cell \in pre.used
    BY <2>1, Collecting, RawBranches
  <2>3. CASE /\ mem' = [mem EXCEPT ![c].E = Forwarded(was)]
             /\ rawE' = rawE \ {c}
             /\ UNCHANGED <<used, rawT>>
    <3>1. \A d \in used \ rawT : d \notin rawT' /\ mem'[d].T = mem[d].T
      BY <1>2, <2>1, <2>3
    <3>2. \A d \in used \ rawE : d \notin rawE' /\ mem'[d].E = mem[d].E
      BY <1>2, <2>1, <2>3
    <3>3. PICK n : n \notin used  BY <1>2, <2>1, OneIsOld
    <3>4. used \subseteq C
      <4>1. C \in SUBSET (used \union {n}) /\ \A l \in Loc \ todo : l \notin todo' /\ root'[l] = root[l]
        BY <2>1, <2>3
      <4>. QED  BY <1>2, <2>1, <3>1, <3>2, <3>3, <4>1, StillReached
    <3>. QED  BY <2>3, <3>4
  <2>4. CASE /\ ~Settled(was)
             /\ \E n \in Free :
                   /\ mem' = [MovedMem(was.cell, n) EXCEPT ![c].E = Flip(was.neg, Reg(n))]
                   /\ used' = used \union {n}
                   /\ rawE' = (rawE \ {c}) \union {n}
                   /\ rawT' = rawT \union {n}
    <3>1. PICK n \in Free :
            /\ mem' = [MovedMem(was.cell, n) EXCEPT ![c].E = Flip(was.neg, Reg(n))]
            /\ used' = used \union {n}
            /\ rawE' = (rawE \ {c}) \union {n}
            /\ rawT' = rawT \union {n}
      BY <2>4
    <3>2. was /= NIL  BY <2>4 DEF Settled
    <3>3. n \notin used /\ n \in Cell /\ n /= c  BY <1>2, <2>1 DEF Free, HalfSpace
    <3>4. was.cell \in Cell /\ was.cell \notin used  BY <1>2, <2>1, <2>2, <3>2
    <3>. HIDE DEF was
    <3>5. \A d \in used \ {c} : mem'[d] = mem[d]
      BY <1>2, <2>1, <3>1, <3>3, <3>4 DEF MovedMem
    <3>6. mem'[c].E = Flip(was.neg, Reg(n)) /\ mem'[c].T = mem[c].T
      BY <1>2, <2>1, <3>1, <3>3, <3>4 DEF MovedMem, Node
    <3>7. \A d \in used \ rawT : d \notin rawT' /\ mem'[d].T = mem[d].T
      BY <2>1, <3>1, <3>3, <3>5, <3>6
    <3>8. \A d \in used \ rawE : d \notin rawE' /\ mem'[d].E = mem[d].E
      BY <2>1, <3>1, <3>3, <3>5, <3>6
    <3>9. used \subseteq C
      <4>1. C \in SUBSET (used \union {n}) /\ \A l \in Loc \ todo : l \notin todo' /\ root'[l] = root[l]
        BY <2>1, <3>1
      <4>. QED  BY <1>2, <2>1, <3>3, <3>7, <3>8, <4>1, StillReached
    <3>10. mem'[c].E /= NIL /\ mem'[c].E.cell = n
      <4>1. was \in Ptr /\ was.neg \in BOOLEAN
        BY <1>2, <2>1, <3>2, PtrType DEF Node, PtrOrNIL, was
      <4>. QED  BY <3>3, <3>6, <4>1, FlipType
    <3>11. n \in C  BY <2>1, <3>1, <3>3, <3>9, <3>10 DEF ReachedIn
    <3>. QED  BY <3>1, <3>9, <3>11
  <2>. QED  BY <1>6, <2>3, <2>4 DEF ScanE
<1>7. CASE UNCHANGED vars
  BY <1>2, <1>7 DEF vars
<1>8. CASE Mutate \/ FindOrAdd \/ Caching \/ ScanCache
  BY <1>8 DEF Mutate, FindOrAdd, FindOrAddHit, FindOrAddMiss, AddNode, Caching,
              CacheInsert, CacheDrop, ScanCache, Running, gcVars
<1>. QED  BY <1>1, <1>3, <1>4, <1>5, <1>6, <1>7, <1>8 DEF Next, Collect

(* A collection keeps nothing but what the roots lead to                   *)
(* (garb_collect.c:47-172: the caches and the table are not roots).        *)
THEOREM GarbageIsCollected == Spec => []CollectsGarbage
<1>1. Init => LeastCopies  BY DEF Init, LeastCopies
<1>2. IInv /\ LeastCopies => CollectsGarbage
  <2>. SUFFICES ASSUME IInv, LeastCopies, phase = "scan", rawE = {},
                       NEW C \in SUBSET used, Retains(C)
                PROVE  C = used
    BY DEF CollectsGarbage
  <2>1. rawT = {} /\ todo = {}  BY Collecting DEF CopyInv, IInv
  <2>2. \A l \in Loc : root[l] /= NIL => root[l].cell \in C  BY DEF Retains, Held
  <2>3. \A c \in C : /\ mem[c].T /= NIL => mem[c].T.cell \in C
                     /\ mem[c].E /= NIL => mem[c].E.cell \in C
    BY DEF Retains, Closed
  <2>4. ReachedIn(mem, root, todo, rawT, rawE, C)  BY <2>2, <2>3 DEF ReachedIn
  <2>. QED  BY <2>4 DEF LeastCopies
<1>. QED  BY <1>1, <1>2, LeastKept, Inductive, PTL DEF Spec

-----------------------------------------------------------------------------
(* The end.  What a collection has before it is a number, and falls.       *)

LEMMA CountsAreFinite ==
    ASSUME IInv, phase /= "mutator"
    PROVE  /\ IsFiniteSet(Unmoved) /\ IsFiniteSet(todo)
           /\ IsFiniteSet(rawT) /\ IsFiniteSet(rawE)
           /\ Cardinality(Unmoved) \in Nat /\ Cardinality(todo) \in Nat
           /\ Cardinality(rawT) \in Nat /\ Cardinality(rawE) \in Nat
<1>1. /\ Unmoved \subseteq Cell /\ todo \subseteq Loc
      /\ rawT \subseteq Cell /\ rawE \subseteq Cell
  <2>1. used \subseteq Cell /\ pre.used \subseteq Cell  BY Collecting
  <2>. QED  BY <2>1 DEF IInv, TypeOK, Unmoved
<1>2. IsFiniteSet(Cell) /\ IsFiniteSet(Loc)  BY GcAssumption, RootsAssumption
<1>. QED  BY <1>1, <1>2, FS_Subset, FS_CardinalityType

\* A copy marks one node of the old half, and leaves the others as they were.
LEMMA OneMoved ==
    ASSUME IInv, phase /= "mutator", pre' = pre,
           NEW o \in pre.used, ~Heart(mem, o), Heart(mem', o),
           \A c \in pre.used \ {o} : Heart(mem', c) = Heart(mem, c)
    PROVE  Cardinality(Unmoved') = Cardinality(Unmoved) - 1
<1>1. Unmoved = {c \in pre.used : ~Heart(mem, c)}  BY OfMem DEF Unmoved
<1>2. Unmoved' = {c \in pre.used : ~Heart(mem', c)}
  BY DEF Unmoved, BROKEN_HEART, Heart
<1>3. Unmoved' = Unmoved \ {o} /\ o \in Unmoved  BY <1>1, <1>2
<1>. QED  BY <1>3, CountsAreFinite, FS_RemoveElement

\* relocate, of a node that was not copied.
LEMMA MovedOne ==
    ASSUME IInv, phase /= "mutator", pre' = pre,
           NEW o \in pre.used, ~Heart(mem, o), NEW n \in Free,
           NEW m, m = MovedMem(o, n),
           \A c \in pre.used : mem'[c] = m[c]
    PROVE  Cardinality(Unmoved') = Cardinality(Unmoved) - 1
<1>1. /\ mem \in [Cell -> Node] /\ o \in Cell /\ n \in Cell
      /\ n \notin pre.used /\ pre.used \subseteq Cell
  BY Collecting DEF CopyInv, Free, HalfSpace, IInv, TypeOK
<1>2. Heart(m, o)  BY <1>1 DEF MovedMem, Heart
<1>3. \A c \in pre.used \ {o} : m[c] = mem[c]  BY <1>1 DEF MovedMem
<1>4. Heart(mem', o) /\ \A c \in pre.used \ {o} : Heart(mem', c) = Heart(mem, c)
  BY <1>2, <1>3 DEF Heart
<1>. QED  BY <1>4, OneMoved

LEMMA NoneMoved ==
    ASSUME IInv, phase /= "mutator", pre' = pre,
           \A c \in pre.used : Heart(mem', c) = Heart(mem, c)
    PROVE  Unmoved' = Unmoved
BY OfMem DEF Unmoved, BROKEN_HEART, Heart

LEMMA CollectionSteps ==
    ASSUME IInv, Next, phase /= "mutator"
    PROVE  Remaining' < Remaining
<1>. DEFINE N == Cardinality(Unmoved)
            D == Cardinality(todo)
            T == Cardinality(rawT)
            E == Cardinality(rawE)
<1>1. N \in Nat /\ D \in Nat /\ T \in Nat /\ E \in Nat  BY CountsAreFinite
<1>2. /\ IsFiniteSet(todo) /\ IsFiniteSet(rawT) /\ IsFiniteSet(rawE)
      /\ rawT \subseteq used /\ rawE \subseteq used
      /\ used \subseteq HalfSpace(half)
      /\ pre.used \subseteq Cell \ HalfSpace(half)
      /\ mem \in [Cell -> Node] /\ used \subseteq Cell
  BY CountsAreFinite, Collecting DEF CopyInv
<1>3. phase \in {"roots", "scan"}  BY DEF IInv, TypeOK
<1>4. Remaining = 3 * N + D + T + E + (IF phase = "roots" THEN 2 ELSE 1)
  BY DEF Remaining
<1>5. ASSUME phase' = phase
      PROVE  Remaining' = 3 * N' + D' + T' + E' + (IF phase = "roots" THEN 2 ELSE 1)
  BY <1>5 DEF Remaining
<1>. HIDE DEF N, D, T, E
<1>6. ASSUME NEW n \in Free
      PROVE  /\ n \notin rawT /\ n \notin rawE
             /\ Cardinality(rawT \union {n}) = T + 1
             /\ Cardinality(rawE \union {n}) = E + 1
  BY <1>2, FS_AddElement DEF Free, T, E
<1>7. ASSUME NEW l \in Loc, RelocateRoot(l)  PROVE Remaining' < Remaining
  <2>1. /\ phase' = phase /\ pre' = pre /\ l \in todo /\ todo' = todo \ {l}
    BY <1>7 DEF RelocateRoot
  <2>2. D' = D - 1  BY <1>2, <2>1, FS_RemoveElement DEF D
  <2>3. CASE UNCHANGED <<mem, used, rawT, rawE>>
    <3>1. N' = N  BY <2>1, <2>3, NoneMoved DEF N
    <3>2. T' = T /\ E' = E  BY <2>3 DEF T, E
    <3>. QED  BY <1>1, <1>4, <1>5, <2>1, <2>2, <3>1, <3>2
  <2>4. CASE ~Settled(root[l]) /\ \E n \in Free : mem' = MovedMem(root[l].cell, n) /\ Copy(n)
    <3>1. PICK n \in Free : mem' = MovedMem(root[l].cell, n) /\ Copy(n)  BY <2>4
    <3>2. root[l] /= NIL /\ ~Heart(mem, root[l].cell) /\ root[l] = pre.root[l]
      BY <2>1, <2>4, Collecting, OfMem DEF RootInv, IsSettled
    <3>3. root[l].cell \in pre.used  BY <3>2, Collecting
    <3>4. N' = N - 1  BY <2>1, <3>1, <3>2, <3>3, MovedOne DEF N
    <3>5. T' = T + 1 /\ E' = E + 1  BY <1>6, <3>1 DEF Copy, T, E
    <3>. QED  BY <1>1, <1>4, <1>5, <2>1, <2>2, <3>4, <3>5
  <2>. QED  BY <1>7, <2>3, <2>4 DEF RelocateRoot
<1>8. CASE ResetTable
  <2>1. phase = "roots" /\ phase' = "scan" /\ UNCHANGED <<mem, pre, todo, rawT, rawE>>
    BY <1>8 DEF ResetTable
  <2>2. N' = N  BY <2>1, NoneMoved DEF N
  <2>3. D' = D /\ T' = T /\ E' = E  BY <2>1 DEF D, T, E
  <2>4. Remaining' = 3 * N' + D' + T' + E' + 1  BY <2>1 DEF Remaining, N, D, T, E
  <2>. QED  BY <1>1, <1>4, <2>1, <2>2, <2>3, <2>4
<1>9. ASSUME NEW c \in Cell, ScanT(c)  PROVE Remaining' < Remaining
  <2>1. /\ phase' = phase /\ pre' = pre /\ todo' = todo
        /\ phase = "scan" /\ c \in rawT /\ c \notin pre.used
    BY <1>2, <1>9 DEF ScanT
  <2>2. D' = D  BY <2>1 DEF D
  <2>3. Cardinality(rawT \ {c}) = T - 1  BY <1>2, <2>1, FS_RemoveElement DEF T
  <2>4. CASE /\ mem' = [mem EXCEPT ![c].T = Forwarded(mem[c].T)]
             /\ rawT' = rawT \ {c} /\ UNCHANGED rawE
    <3>1. \A d \in pre.used : mem'[d] = mem[d]  BY <1>2, <2>1, <2>4
    <3>2. N' = N  BY <2>1, <3>1, NoneMoved DEF N, Heart
    <3>3. T' = T - 1 /\ E' = E  BY <2>3, <2>4 DEF T, E
    <3>. QED  BY <1>1, <1>4, <1>5, <2>1, <2>2, <3>2, <3>3
  <2>5. CASE /\ ~Settled(mem[c].T)
             /\ \E n \in Free :
                   /\ mem' = [MovedMem(mem[c].T.cell, n)
                                EXCEPT ![c].T = Flip(mem[c].T.neg, Reg(n))]
                   /\ rawT' = (rawT \ {c}) \union {n}
                   /\ rawE' = rawE \union {n}
    <3>1. PICK n \in Free :
            /\ mem' = [MovedMem(mem[c].T.cell, n)
                         EXCEPT ![c].T = Flip(mem[c].T.neg, Reg(n))]
            /\ rawT' = (rawT \ {c}) \union {n}
            /\ rawE' = rawE \union {n}
      BY <2>5
    <3>2. mem[c].T /= NIL /\ ~Heart(mem, mem[c].T.cell)
      BY <2>5, OfMem DEF IsSettled
    <3>3. mem[c].T.cell \in pre.used  BY <2>1, <3>2, Collecting, RawBranches
    <3>4. \A d \in pre.used : mem'[d] = MovedMem(mem[c].T.cell, n)[d]
      BY <1>2, <2>1, <3>1 DEF MovedMem
    <3>5. N' = N - 1  BY <2>1, <3>2, <3>3, <3>4, MovedOne DEF N
    <3>6. T' = T
      <4>1. n \notin rawT \ {c} /\ IsFiniteSet(rawT \ {c})
        BY <1>2, <1>6, FS_RemoveElement
      <4>2. Cardinality((rawT \ {c}) \union {n}) = (T - 1) + 1
        BY <2>3, <4>1, FS_AddElement
      <4>. QED  BY <1>1, <3>1, <4>2 DEF T
    <3>7. E' = E + 1  BY <1>6, <3>1 DEF E
    <3>. QED  BY <1>1, <1>4, <1>5, <2>1, <2>2, <3>5, <3>6, <3>7
  <2>. QED  BY <1>9, <2>4, <2>5 DEF ScanT
<1>10. ASSUME NEW c \in Cell, ScanE(c)  PROVE Remaining' < Remaining
  <2>1. /\ phase' = phase /\ pre' = pre /\ todo' = todo
        /\ phase = "scan" /\ c \in rawE /\ c \notin pre.used
    BY <1>2, <1>10 DEF ScanE
  <2>2. D' = D  BY <2>1 DEF D
  <2>3. Cardinality(rawE \ {c}) = E - 1  BY <1>2, <2>1, FS_RemoveElement DEF E
  <2>4. CASE /\ mem' = [mem EXCEPT ![c].E = Forwarded(mem[c].E)]
             /\ rawE' = rawE \ {c} /\ UNCHANGED rawT
    <3>1. \A d \in pre.used : mem'[d] = mem[d]  BY <1>2, <2>1, <2>4
    <3>2. N' = N  BY <2>1, <3>1, NoneMoved DEF N, Heart
    <3>3. E' = E - 1 /\ T' = T  BY <2>3, <2>4 DEF T, E
    <3>. QED  BY <1>1, <1>4, <1>5, <2>1, <2>2, <3>2, <3>3
  <2>5. CASE /\ ~Settled(mem[c].E)
             /\ \E n \in Free :
                   /\ mem' = [MovedMem(mem[c].E.cell, n)
                                EXCEPT ![c].E = Flip(mem[c].E.neg, Reg(n))]
                   /\ rawT' = rawT \union {n}
                   /\ rawE' = (rawE \ {c}) \union {n}
    <3>1. PICK n \in Free :
            /\ mem' = [MovedMem(mem[c].E.cell, n)
                         EXCEPT ![c].E = Flip(mem[c].E.neg, Reg(n))]
            /\ rawT' = rawT \union {n}
            /\ rawE' = (rawE \ {c}) \union {n}
      BY <2>5
    <3>2. mem[c].E /= NIL /\ ~Heart(mem, mem[c].E.cell)
      BY <2>5, OfMem DEF IsSettled
    <3>3. mem[c].E.cell \in pre.used  BY <2>1, <3>2, Collecting, RawBranches
    <3>4. \A d \in pre.used : mem'[d] = MovedMem(mem[c].E.cell, n)[d]
      BY <1>2, <2>1, <3>1 DEF MovedMem
    <3>5. N' = N - 1  BY <2>1, <3>2, <3>3, <3>4, MovedOne DEF N
    <3>6. E' = E
      <4>1. n \notin rawE \ {c} /\ IsFiniteSet(rawE \ {c})
        BY <1>2, <1>6, FS_RemoveElement
      <4>2. Cardinality((rawE \ {c}) \union {n}) = (E - 1) + 1
        BY <2>3, <4>1, FS_AddElement
      <4>. QED  BY <1>1, <3>1, <4>2 DEF E
    <3>7. T' = T + 1  BY <1>6, <3>1 DEF T
    <3>. QED  BY <1>1, <1>4, <1>5, <2>1, <2>2, <3>5, <3>6, <3>7
  <2>. QED  BY <1>10, <2>4, <2>5 DEF ScanE
<1>11. CASE ScanCache
  <2>1. Remaining' = 0  BY <1>11 DEF ScanCache, Remaining
  <2>. QED  BY <1>1, <1>3, <1>4, <2>1
<1>12. CASE Mutate \/ FindOrAdd \/ Caching \/ StartGc \/ AbortGc
  BY <1>12 DEF Mutate, FindOrAdd, FindOrAddHit, FindOrAddMiss, AddNode, Caching,
               CacheInsert, CacheDrop, Running, StartGc, AbortGc, Flip_spaces
<1>. QED  BY <1>7, <1>8, <1>9, <1>10, <1>11, <1>12 DEF Next, Collect

(* Every step of a collection brings it nearer to its end                  *)
(* (garb_collect.c:332-383: the scan of the copies, which adds copies).    *)
THEOREM CollectionEnds == Spec => CollectionAdvances
<1>1. IInv /\ [Next]_vars => [phase /= "mutator" => Remaining' < Remaining]_vars
  BY CollectionSteps
<1>. QED  BY <1>1, Inductive, PTL DEF Spec, CollectionAdvances

=============================================================================
