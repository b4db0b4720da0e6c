--------------------------- MODULE LsList_proofs ----------------------------
(***************************************************************************)
(* For any number of elements and generators: no generator of a list is    *)
(* left before an element that has been freed, the walk along the pointers *)
(* is the list, and every call does what LsApi says, but for two that      *)
(* insert at the far end of the list.                                      *)
(*                                                                         *)
(* That the pointers of neighbours agree is not enough for the first: in a *)
(* ring of one element, which has all its pointers in order, the element   *)
(* after a deleted one would be itself.  So the invariant also says that   *)
(* the elements can be ranked along the forward pointers.                  *)
(***************************************************************************)
EXTENDS LsList, FiniteSetTheorems, SequenceTheorems, NaturalsInduction, TLAPS

ListType(l) ==
    l \in [elem : [Cell -> Elements \union {NIL}], top : Pointer, bot : Pointer, length : Int]

Ranks(rank, l) ==
    \A c \in LiveIn(l) : l.elem[c].next /= NIL => rank[c] < rank[l.elem[c].next]

Sound(l) == ListType(l) /\ Linked(l) /\ \E rank \in [Cell -> Nat] : Ranks(rank, l)

Counted(l) == IsFiniteSet(LiveIn(l)) /\ l.length = Cardinality(LiveIn(l))

ListInv(l) == Sound(l) /\ Counted(l)

IInv ==
    /\ ListInv(list)
    /\ gen \in [Gen -> Spots \union {NIL}]
    /\ SpotsAreLive

-----------------------------------------------------------------------------
\* A live cell holds a list element.
LEMMA LiveHolds ==
    ASSUME NEW l, ListType(l), NEW c \in LiveIn(l)
    PROVE  c \in Cell /\ l.elem[c] \in Elements
  BY DEF ListType, LiveIn

\* Writing a pointer of an element that is live.
LEMMA SetPrevAt ==
    ASSUME NEW elem \in [Cell -> Elements \union {NIL}], NEW c \in Pointer, NEW p,
           c /= NIL => elem[c] \in Elements,
           NEW x \in Cell
    PROVE  SetPrev(elem, c, p)[x] =
               IF x = c THEN Element(elem[x].data, p, elem[x].next) ELSE elem[x]
  <1>1. CASE c = NIL
    BY <1>1, NILAssumption DEF SetPrev
  <1>2. CASE c /= NIL
    <2>1. elem[c] \in [data : Data, prev : Pointer, next : Pointer]
      BY <1>2 DEF Elements
    <2>2. [elem[c] EXCEPT !.prev = p] = Element(elem[c].data, p, elem[c].next)
      BY <2>1 DEF Element
    <2> QED BY <1>2, <2>2 DEF SetPrev
  <1> QED BY <1>1, <1>2

LEMMA SetNextAt ==
    ASSUME NEW elem \in [Cell -> Elements \union {NIL}], NEW c \in Pointer, NEW n,
           c /= NIL => elem[c] \in Elements,
           NEW x \in Cell
    PROVE  SetNext(elem, c, n)[x] =
               IF x = c THEN Element(elem[x].data, elem[x].prev, n) ELSE elem[x]
  <1>1. CASE c = NIL
    BY <1>1, NILAssumption DEF SetNext
  <1>2. CASE c /= NIL
    <2>1. elem[c] \in [data : Data, prev : Pointer, next : Pointer]
      BY <1>2 DEF Elements
    <2>2. [elem[c] EXCEPT !.next = n] = Element(elem[c].data, elem[c].prev, n)
      BY <2>1 DEF Element
    <2> QED BY <1>2, <2>2 DEF SetNext
  <1> QED BY <1>1, <1>2

\* An element is in its set, and is not NIL.
LEMMA ElementType ==
    ASSUME NEW d \in Data, NEW p \in Pointer, NEW n \in Pointer
    PROVE  /\ Element(d, p, n) \in Elements /\ Element(d, p, n) /= NIL
           /\ Element(d, p, n).data = d /\ Element(d, p, n).prev = p /\ Element(d, p, n).next = n
  BY NILAssumption DEF Element, Elements

\* Memory with such a pointer written is memory.
LEMMA SetPrevType ==
    ASSUME NEW elem \in [Cell -> Elements \union {NIL}], NEW c \in Pointer, NEW p \in Pointer,
           c /= NIL => elem[c] \in Elements
    PROVE  SetPrev(elem, c, p) \in [Cell -> Elements \union {NIL}]
  <1>1. CASE c = NIL
    BY <1>1 DEF SetPrev
  <1>2. CASE c /= NIL
    <2>1. elem[c] \in [data : Data, prev : Pointer, next : Pointer]
      BY <1>2 DEF Elements
    <2>2. [elem[c] EXCEPT !.prev = p] \in Elements
      BY <2>1 DEF Elements
    <2> QED BY <1>2, <2>2 DEF SetPrev
  <1> QED BY <1>1, <1>2

LEMMA SetNextType ==
    ASSUME NEW elem \in [Cell -> Elements \union {NIL}], NEW c \in Pointer, NEW n \in Pointer,
           c /= NIL => elem[c] \in Elements
    PROVE  SetNext(elem, c, n) \in [Cell -> Elements \union {NIL}]
  <1>1. CASE c = NIL
    BY <1>1 DEF SetNext
  <1>2. CASE c /= NIL
    <2>1. elem[c] \in [data : Data, prev : Pointer, next : Pointer]
      BY <1>2 DEF Elements
    <2>2. [elem[c] EXCEPT !.next = n] \in Elements
      BY <2>1 DEF Elements
    <2> QED BY <1>2, <2>2 DEF SetNext
  <1> QED BY <1>1, <1>2

-----------------------------------------------------------------------------
\* What it is to insert c between two neighbours, and to remove c.
Neighbours(l, before, after) ==
    /\ {before, after} \subseteq LiveIn(l) \union {NIL}
    /\ IF before = NIL THEN after = l.top ELSE l.elem[before].next = after
    /\ IF after = NIL THEN before = l.bot ELSE l.elem[after].prev = before

IsInserted(m, l, c, before, after) ==
    /\ LiveIn(m) = LiveIn(l) \union {c}
    /\ m.top = IF before = NIL THEN c ELSE l.top
    /\ m.bot = IF after = NIL THEN c ELSE l.bot
    /\ \A x \in LiveIn(m) :
        /\ m.elem[x].next = IF x = c THEN after ELSE IF x = before THEN c ELSE l.elem[x].next
        /\ m.elem[x].prev = IF x = c THEN before ELSE IF x = after THEN c ELSE l.elem[x].prev

IsRemoved(m, l, c) ==
    /\ LiveIn(m) = LiveIn(l) \ {c}
    /\ m.top = IF c = l.top THEN l.elem[c].next ELSE l.top
    /\ m.bot = IF c = l.bot THEN l.elem[c].prev ELSE l.bot
    /\ \A x \in LiveIn(m) :
        /\ m.elem[x].next = IF x = l.elem[c].prev THEN l.elem[c].next ELSE l.elem[x].next
        /\ m.elem[x].prev = IF x = l.elem[c].next THEN l.elem[c].prev ELSE l.elem[x].prev

\* The rank of the new element fits between those of its neighbours when the
\* elements behind it move up.
LEMMA InsertedSound ==
    ASSUME NEW l, Sound(l), NEW m, ListType(m), NEW c \in Cell \ LiveIn(l),
           NEW before, NEW after, Neighbours(l, before, after), IsInserted(m, l, c, before, after)
    PROVE  Sound(m)
  <1>1. Linked(l) /\ ListType(l) /\ NIL \notin LiveIn(l) /\ c /= NIL /\ LiveIn(l) \subseteq Cell
    BY NILAssumption DEF Sound, LiveIn
  <1>2. before /= c /\ after /= c
    BY <1>1 DEF Neighbours
  <1>3. Linked(m)
    BY <1>1, <1>2, SMTT(60) DEF Linked, Neighbours, IsInserted
  <1>4. PICK rank \in [Cell -> Nat] : Ranks(rank, l)
    BY DEF Sound
  <1> DEFINE up == [x \in Cell |->
                 IF x = c THEN IF before = NIL THEN 0 ELSE rank[before] + 1
                 ELSE IF before = NIL \/ rank[x] > rank[before] THEN rank[x] + 1 ELSE rank[x]]
  <1>5. up \in [Cell -> Nat]
    BY <1>1 DEF Neighbours
  <1>6. before /= NIL /\ after /= NIL => rank[before] < rank[after]
    BY <1>1, <1>4 DEF Ranks, Neighbours
  <1>7. ASSUME NEW x \in LiveIn(m), m.elem[x].next /= NIL
        PROVE  up[x] < up[m.elem[x].next]
    <2>1. CASE x = c
      BY <1>1, <1>2, <1>6, <1>7, <2>1 DEF IsInserted, Neighbours
    <2>2. CASE x /= c /\ x = before
      BY <1>1, <1>2, <1>7, <2>2 DEF IsInserted, Neighbours
    <2>3. CASE x /= c /\ x /= before
      <3>1. m.elem[x].next = l.elem[x].next /\ x \in LiveIn(l)
        BY <2>3 DEF IsInserted
      <3>2. l.elem[x].next \in LiveIn(l) /\ rank[x] < rank[l.elem[x].next]
        BY <3>1, <1>1, <1>4, <1>7 DEF Linked, Ranks
      <3>3. x \in Cell /\ l.elem[x].next \in Cell /\ l.elem[x].next /= c
        BY <3>1, <3>2, <1>1
      <3>4. before /= NIL => before \in Cell
        BY <1>1 DEF Neighbours
      <3> QED BY <3>1, <3>2, <3>3, <3>4, <2>3
    <2> QED BY <2>1, <2>2, <2>3
  <1>8. Ranks(up, m)
    BY <1>7 DEF Ranks
  <1> QED BY <1>3, <1>5, <1>8 DEF Sound

\* The neighbours of what is removed are other elements.
LEMMA RemovedSound ==
    ASSUME NEW l, Sound(l), NEW m, ListType(m), NEW c \in LiveIn(l), IsRemoved(m, l, c)
    PROVE  Sound(m) /\ l.elem[c].next /= c /\ l.elem[c].prev /= c
  <1>1. Linked(l) /\ ListType(l) /\ NIL \notin LiveIn(l) /\ c /= NIL /\ LiveIn(l) \subseteq Cell
    BY NILAssumption DEF Sound, LiveIn
  <1>2. PICK rank \in [Cell -> Nat] : Ranks(rank, l)
    BY DEF Sound
  <1>3. \A x \in LiveIn(l) : l.elem[x].next /= NIL => rank[x] < rank[l.elem[x].next]
    BY <1>2 DEF Ranks
  <1>4. l.elem[c].next /= c
    BY <1>1, <1>3
  <1>5. l.elem[c].prev /= c
    BY <1>1, <1>4 DEF Linked
  <1>6. l.elem[c].prev /= NIL /\ l.elem[c].next /= NIL => l.elem[c].prev /= l.elem[c].next
    <2> SUFFICES ASSUME l.elem[c].prev /= NIL, l.elem[c].next /= NIL,
                        l.elem[c].prev = l.elem[c].next
                 PROVE  FALSE
      OBVIOUS
    <2> DEFINE d == l.elem[c].next
    <2>1. d \in LiveIn(l) /\ l.elem[d].next = c
      BY <1>1 DEF Linked
    <2>2. rank[c] < rank[d] /\ rank[d] < rank[c]
      BY <2>1, <1>1, <1>3
    <2> QED BY <2>1, <2>2, <1>1
  <1>7. Linked(m)
    BY <1>1, <1>4, <1>5, <1>6, SMTT(60) DEF Linked, IsRemoved
  <1>8. ASSUME NEW x \in LiveIn(m), m.elem[x].next /= NIL
        PROVE  rank[x] < rank[m.elem[x].next]
    <2>1. CASE x = l.elem[c].prev
      <3>1. l.elem[x].next = c /\ m.elem[x].next = l.elem[c].next /\ x \in LiveIn(l)
        BY <2>1, <1>1 DEF Linked, IsRemoved
      <3>2. rank[x] < rank[c] /\ rank[c] < rank[l.elem[c].next] /\ l.elem[c].next \in LiveIn(l)
        BY <3>1, <1>1, <1>3, <1>8 DEF Linked
      <3> QED BY <3>1, <3>2, <1>1
    <2>2. CASE x /= l.elem[c].prev
      BY <2>2, <1>3, <1>8 DEF IsRemoved
    <2> QED BY <2>1, <2>2
  <1>9. Ranks(rank, m)
    BY <1>8 DEF Ranks
  <1> QED BY <1>4, <1>5, <1>7, <1>9 DEF Sound

-----------------------------------------------------------------------------
\* The pointers that every insertion writes, and those that every removal
\* writes.
Splice(l, c, d, before, after) ==
    [elem |-> SetPrev(SetNext([l.elem EXCEPT ![c] = Element(d, before, after)], before, c), after, c),
     top |-> IF before = NIL THEN c ELSE l.top,
     bot |-> IF after = NIL THEN c ELSE l.bot,
     length |-> l.length + 1]

Excise(l, c) ==
    [elem |-> [SetPrev(SetNext(l.elem, l.elem[c].prev, l.elem[c].next),
                       l.elem[c].next, l.elem[c].prev) EXCEPT ![c] = NIL],
     top |-> IF c = l.top THEN l.elem[c].next ELSE l.top,
     bot |-> IF c = l.bot THEN l.elem[c].prev ELSE l.bot,
     length |-> l.length - 1]

\* The writes of an insertion come to IsInserted.
LEMMA Spliced ==
    ASSUME NEW l, Sound(l), NEW c \in Cell \ LiveIn(l), NEW d \in Data,
           NEW before, NEW after, Neighbours(l, before, after),
           NEW m, m = Splice(l, c, d, before, after)
    PROVE  /\ Sound(m) /\ IsInserted(m, l, c, before, after)
           /\ \A x \in LiveIn(m) : m.elem[x].data = IF x = c THEN d ELSE l.elem[x].data
  <1> DEFINE first == [l.elem EXCEPT ![c] = Element(d, before, after)]
             second == SetNext(first, before, c)
  <1>1. ListType(l) /\ LiveIn(l) \subseteq Cell /\ NIL \notin LiveIn(l) /\ c /= NIL
    BY NILAssumption DEF Sound, LiveIn
  <1>2. before \in Pointer /\ after \in Pointer /\ before /= c /\ after /= c
    BY <1>1 DEF Neighbours, Pointer
  <1>3. /\ Element(d, before, after) \in Elements /\ Element(d, before, after) /= NIL
        /\ Element(d, before, after).prev = before /\ Element(d, before, after).next = after
        /\ Element(d, before, after).data = d
    BY <1>2, ElementType
  <1>4. first \in [Cell -> Elements \union {NIL}]
    BY <1>1, <1>3 DEF ListType
  <1>5. ASSUME NEW x \in LiveIn(l)
        PROVE  first[x] \in Elements /\ first[x] = l.elem[x]
    BY <1>1, LiveHolds DEF ListType
  <1>6. (before /= NIL => first[before] \in Elements) /\ (after /= NIL => first[after] \in Elements)
    BY <1>5 DEF Neighbours
  <1> HIDE DEF first
  <1>7. \A x \in Cell : second[x] = IF x = before THEN Element(first[x].data, first[x].prev, c) ELSE first[x]
    BY <1>2, <1>4, <1>6, SetNextAt
  <1>8. second \in [Cell -> Elements \union {NIL}]
    BY <1>2, <1>4, <1>6, SetNextType DEF Pointer
  <1>a. /\ m = [elem |-> SetPrev(second, after, c), top |-> m.top, bot |-> m.bot, length |-> l.length + 1]
        /\ m.elem = SetPrev(second, after, c)
        /\ m.top = IF before = NIL THEN c ELSE l.top
        /\ m.bot = IF after = NIL THEN c ELSE l.bot
    BY DEF first, Splice
  <1> HIDE DEF second
  <1>9. after /= NIL => second[after] \in Elements
    <2> SUFFICES ASSUME after /= NIL PROVE second[after] \in Elements
      OBVIOUS
    <2>1. after \in Cell /\ first[after] \in Elements
      BY <1>1, <1>6 DEF Neighbours
    <2>2. first[after].data \in Data /\ first[after].prev \in Pointer
      BY <2>1 DEF Elements
    <2>3. Element(first[after].data, first[after].prev, c) \in Elements
      BY <2>2, ElementType DEF Pointer
    <2> QED BY <1>7, <2>1, <2>3
  <1>10. \A x \in Cell : m.elem[x] = IF x = after THEN Element(second[x].data, c, second[x].next) ELSE second[x]
    BY <1>2, <1>8, <1>9, <1>a, SetPrevAt
  <1>11. ASSUME NEW x \in Cell, x = c \/ x \in LiveIn(l)
         PROVE  /\ m.elem[x] /= NIL
                /\ m.elem[x].next = IF x = c THEN after ELSE IF x = before THEN c ELSE l.elem[x].next
                /\ m.elem[x].prev = IF x = c THEN before ELSE IF x = after THEN c ELSE l.elem[x].prev
                /\ m.elem[x].data = IF x = c THEN d ELSE l.elem[x].data
    <2>1. first[x] \in Elements /\ first[x] /= NIL
      BY <1>1, <1>3, <1>5, <1>11, NILAssumption DEF ListType, first
    <2>2. first[x].data \in Data /\ first[x].prev \in Pointer /\ first[x].next \in Pointer
      BY <2>1 DEF Elements
    <2>3. /\ second[x] /= NIL /\ second[x].data \in Data /\ second[x].data = first[x].data
          /\ second[x].prev = first[x].prev
          /\ second[x].next = IF x = before THEN c ELSE first[x].next
      <3>1. c \in Pointer
        BY DEF Pointer
      <3> DEFINE e == Element(first[x].data, first[x].prev, c)
      <3>2. e /= NIL /\ e.data = first[x].data /\ e.prev = first[x].prev /\ e.next = c
        BY <2>2, <3>1, ElementType
      <3> HIDE DEF e
      <3>3. second[x] = IF x = before THEN e ELSE first[x]
        BY <1>7 DEF e
      <3> QED BY <2>1, <2>2, <3>2, <3>3
    <2>4. second[x].next \in Pointer
      BY <2>2, <2>3 DEF Pointer
    <2>5. /\ m.elem[x] /= NIL
          /\ m.elem[x].next = second[x].next
          /\ m.elem[x].prev = IF x = after THEN c ELSE second[x].prev
          /\ m.elem[x].data = second[x].data
      BY <1>10, <2>3, <2>4, ElementType DEF Pointer
    <2>6. x = c => first[x].prev = before /\ first[x].next = after /\ first[x].data = d
      BY <1>1, <1>3 DEF ListType, first
    <2>7. x /= c => first[x] = l.elem[x]
      BY <1>5, <1>11
    <2> QED BY <1>2, <2>3, <2>5, <2>6, <2>7
  <1>12. ASSUME NEW x \in Cell, x /= c, x \notin LiveIn(l)
         PROVE  m.elem[x] = NIL
    <2>1. first[x] = NIL /\ x /= before /\ x /= after
      BY <1>1, <1>12, NILAssumption DEF LiveIn, ListType, Neighbours, first
    <2> QED BY <1>7, <1>10, <2>1
  <1>13. LiveIn(m) = LiveIn(l) \union {c}
    <2>1. \A x : x \in LiveIn(m) <=> x \in Cell /\ m.elem[x] /= NIL
      BY DEF LiveIn
    <2> QED BY <1>1, <1>11, <1>12, <2>1
  <1>14. IsInserted(m, l, c, before, after)
    BY <1>1, <1>11, <1>13, <1>a DEF IsInserted
  <1>15. ListType(m)
    <2>1. m.elem \in [Cell -> Elements \union {NIL}]
      <3>1. c \in Pointer
        BY DEF Pointer
      <3> QED BY <1>2, <1>8, <1>9, <1>a, <3>1, SetPrevType
    <2> QED BY <1>1, <1>a, <2>1 DEF ListType, Pointer
  <1>16. \A x \in LiveIn(m) : m.elem[x].data = IF x = c THEN d ELSE l.elem[x].data
    BY <1>1, <1>11, <1>13
  <1> QED BY <1>13, <1>14, <1>15, <1>16, InsertedSound

\* The writes of a removal come to IsRemoved.
LEMMA Unspliced ==
    ASSUME NEW l, Sound(l), NEW c \in LiveIn(l),
           NEW m, m = Excise(l, c)
    PROVE  /\ Sound(m) /\ IsRemoved(m, l, c) /\ l.elem[c].next /= c
           /\ \A x \in LiveIn(m) : m.elem[x].data = l.elem[x].data
  <1> DEFINE p == l.elem[c].prev
             n == l.elem[c].next
             first == SetNext(l.elem, p, n)
             second == SetPrev(first, n, p)
  <1>1. ListType(l) /\ Linked(l) /\ LiveIn(l) \subseteq Cell /\ NIL \notin LiveIn(l)
    BY NILAssumption DEF Sound, LiveIn
  <1>2. \A x \in LiveIn(l) : l.elem[x] \in Elements
    BY <1>1, LiveHolds
  <1>3. p \in LiveIn(l) \union {NIL} /\ n \in LiveIn(l) \union {NIL}
    BY <1>1 DEF Linked
  <1>4. p \in Pointer /\ n \in Pointer
    BY <1>1, <1>3 DEF Pointer
  <1>5. l.elem \in [Cell -> Elements \union {NIL}] /\ (p /= NIL => l.elem[p] \in Elements)
    BY <1>1, <1>2, <1>3 DEF ListType
  <1>6. /\ m = [elem |-> m.elem, top |-> m.top, bot |-> m.bot, length |-> l.length - 1]
        /\ m.elem = [second EXCEPT ![c] = NIL]
        /\ m.top = IF c = l.top THEN n ELSE l.top
        /\ m.bot = IF c = l.bot THEN p ELSE l.bot
    BY DEF Excise
  <1> HIDE DEF p, n
  <1>7. \A x \in Cell : first[x] = IF x = p THEN Element(l.elem[x].data, l.elem[x].prev, n) ELSE l.elem[x]
    BY <1>4, <1>5, SetNextAt
  <1>8. first \in [Cell -> Elements \union {NIL}]
    BY <1>4, <1>5, SetNextType
  <1> HIDE DEF first
  <1>9. ASSUME NEW x \in LiveIn(l)
        PROVE  /\ first[x] \in Elements /\ first[x].prev = l.elem[x].prev
               /\ first[x].next = IF x = p THEN n ELSE l.elem[x].next
               /\ first[x].data = l.elem[x].data
    <2> DEFINE e == Element(l.elem[x].data, l.elem[x].prev, n)
    <2>1. l.elem[x] \in Elements /\ l.elem[x].data \in Data /\ l.elem[x].prev \in Pointer
      BY <1>2 DEF Elements
    <2>2. e \in Elements /\ e.prev = l.elem[x].prev /\ e.next = n /\ e.data = l.elem[x].data
      BY <2>1, <1>4, ElementType
    <2> HIDE DEF e
    <2>3. first[x] = IF x = p THEN e ELSE l.elem[x]
      BY <1>1, <1>7 DEF e
    <2> QED BY <2>1, <2>2, <2>3
  <1>10. n /= NIL => first[n] \in Elements
    BY <1>3, <1>9
  <1>11. \A x \in Cell : second[x] = IF x = n THEN Element(first[x].data, p, first[x].next) ELSE first[x]
    BY <1>4, <1>8, <1>10, SetPrevAt
  <1>12. second \in [Cell -> Elements \union {NIL}]
    BY <1>4, <1>8, <1>10, SetPrevType
  <1> HIDE DEF second
  <1>13. ASSUME NEW x \in LiveIn(l)
         PROVE  /\ second[x] \in Elements /\ second[x] /= NIL
                /\ second[x].next = IF x = p THEN n ELSE l.elem[x].next
                /\ second[x].prev = IF x = n THEN p ELSE l.elem[x].prev
                /\ second[x].data = l.elem[x].data
    <2> DEFINE e == Element(first[x].data, p, first[x].next)
    <2>1. first[x] \in Elements /\ first[x].data \in Data /\ first[x].next \in Pointer
      BY <1>9 DEF Elements
    <2>2. e \in Elements /\ e.prev = p /\ e.next = first[x].next /\ e.data = first[x].data
      BY <2>1, <1>4, ElementType
    <2> HIDE DEF e
    <2>3. second[x] = IF x = n THEN e ELSE first[x]
      BY <1>1, <1>11 DEF e
    <2> QED BY <1>9, <2>1, <2>2, <2>3, NILAssumption
  <1>14. ASSUME NEW x \in Cell, x \notin LiveIn(l)
         PROVE  second[x] = NIL
    <2>1. l.elem[x] = NIL /\ x /= p /\ x /= n
      BY <1>14, <1>3, NILAssumption DEF LiveIn
    <2> QED BY <1>7, <1>11, <2>1
  <1>15. \A x \in Cell : m.elem[x] = IF x = c THEN NIL ELSE second[x]
    BY <1>6, <1>12
  <1>16. LiveIn(m) = LiveIn(l) \ {c}
    <2>1. \A x : x \in LiveIn(m) <=> x \in Cell /\ m.elem[x] /= NIL
      BY DEF LiveIn
    <2> QED BY <1>1, <1>13, <1>14, <1>15, <2>1
  <1>17. IsRemoved(m, l, c)
    BY <1>1, <1>6, <1>13, <1>15, <1>16 DEF IsRemoved, p, n
  <1>18. ListType(m)
    <2>1. m.elem \in [Cell -> Elements \union {NIL}]
      BY <1>6, <1>12
    <2> QED BY <1>1, <1>4, <1>6, <2>1 DEF ListType
  <1>19. \A x \in LiveIn(m) : m.elem[x].data = l.elem[x].data
    BY <1>1, <1>13, <1>15, <1>16
  <1> QED BY <1>17, <1>18, <1>19, RemovedSound DEF n

-----------------------------------------------------------------------------
\* The operations are those, at one place of the list or another.
LEMMA OnlySplices ==
    ASSUME NEW l, Sound(l), NEW c \in Cell \ LiveIn(l), NEW d \in Data
    PROVE  /\ lsNewBegin(l, c, d) = Splice(l, c, d, NIL, l.top) /\ Neighbours(l, NIL, l.top)
           /\ lsNewEnd(l, c, d) = Splice(l, c, d, l.bot, NIL) /\ Neighbours(l, l.bot, NIL)
           /\ \A before, after \in LiveIn(l) :
                /\ Between(l, c, d, before, after) = Splice(l, c, d, before, after)
                /\ l.elem[before].next = after => Neighbours(l, before, after)
  <1>1. ListType(l) /\ Linked(l) /\ NIL \notin LiveIn(l)
    BY NILAssumption DEF Sound, LiveIn
  <1>2. lsNewBegin(l, c, d) = Splice(l, c, d, NIL, l.top) /\ Neighbours(l, NIL, l.top)
    BY <1>1 DEF lsNewBegin, Splice, SetNext, Neighbours, Linked
  <1>3. lsNewEnd(l, c, d) = Splice(l, c, d, l.bot, NIL) /\ Neighbours(l, l.bot, NIL)
    BY <1>1 DEF lsNewEnd, Splice, SetPrev, Neighbours, Linked
  <1>4. ASSUME NEW before \in LiveIn(l), NEW after \in LiveIn(l)
        PROVE  Between(l, c, d, before, after) = Splice(l, c, d, before, after)
    <2> DEFINE e == SetPrev(SetNext([l.elem EXCEPT ![c] = Element(d, before, after)], before, c), after, c)
    <2>1. Between(l, c, d, before, after) = [l EXCEPT !.elem = e, !.length = l.length + 1]
      BY DEF Between
    <2>2. Splice(l, c, d, before, after) = [elem |-> e, top |-> l.top, bot |-> l.bot, length |-> l.length + 1]
      BY <1>1, <1>4 DEF Splice
    <2> HIDE DEF e
    <2> QED BY <1>1, <2>1, <2>2 DEF ListType
  <1>5. ASSUME NEW before \in LiveIn(l), NEW after \in LiveIn(l), l.elem[before].next = after
        PROVE  Neighbours(l, before, after)
    BY <1>1, <1>5 DEF Neighbours, Linked
  <1> QED BY <1>2, <1>3, <1>4, <1>5

\* Every deletion, at an end or in the middle, is that of the one element.
LEMMA OnlyExcises ==
    ASSUME NEW l, Sound(l), NEW c \in LiveIn(l)
    PROVE  /\ Del(l, c) = Excise(l, c)
           /\ c = l.top => lsDelBegin(l) = Excise(l, c)
           /\ c = l.bot => lsDelEnd(l) = Excise(l, c)
  <1>1. ListType(l) /\ Linked(l) /\ NIL \notin LiveIn(l)
    BY NILAssumption DEF Sound, LiveIn
  <1>2. c = l.top => l.elem[c].prev = NIL
    BY <1>1 DEF Linked
  <1>3. c = l.bot => l.elem[c].next = NIL
    BY <1>1 DEF Linked
  <1>4. c = l.top => (c = l.bot <=> l.elem[c].next = NIL)
    BY <1>1 DEF Linked
  <1>5. c = l.bot => (c = l.top <=> l.elem[c].prev = NIL)
    BY <1>1, SMTT(60) DEF Linked
  <1>6. c = l.top => lsDelBegin(l) = Excise(l, c)
    BY <1>2, <1>4, SMTT(60) DEF lsDelBegin, Excise, SetNext
  <1>7. c = l.bot => lsDelEnd(l) = Excise(l, c)
    BY <1>3, <1>5, Zenon DEF lsDelEnd, Excise, SetPrev
  <1>8. c /= l.top /\ c /= l.bot => Del(l, c) = Excise(l, c)
    <2> DEFINE f == [SetPrev(SetNext(l.elem, l.elem[c].prev, l.elem[c].next),
                             l.elem[c].next, l.elem[c].prev) EXCEPT ![c] = NIL]
    <2>1. c /= l.top /\ c /= l.bot => Del(l, c) = [l EXCEPT !.elem = f, !.length = l.length - 1]
      BY DEF Del
    <2>2. c /= l.top /\ c /= l.bot =>
            Excise(l, c) = [elem |-> f, top |-> l.top, bot |-> l.bot, length |-> l.length - 1]
      BY DEF Excise
    <2> HIDE DEF f
    <2> QED BY <1>1, <2>1, <2>2 DEF ListType
  <1> QED BY <1>6, <1>7, <1>8 DEF Del

\* A sequence of cells that the pointers lead along.
IsPath(l, s) ==
    /\ s \in Seq(LiveIn(l))
    /\ s /= <<>> => s[1] = l.top
    /\ \A i \in 1..Len(s) - 1 : l.elem[s[i]].next = s[i + 1]

\* A list relinked along an enumeration of its elements is in that order.
LEMMA RelinkedSound ==
    ASSUME NEW l, Sound(l), l.length \in Nat,
           NEW order \in [1..l.length -> LiveIn(l)],
           IsInjective(order), Range(order) = LiveIn(l)
    PROVE  /\ Sound(Relinked(l, order)) /\ LiveIn(Relinked(l, order)) = LiveIn(l)
           /\ IsPath(Relinked(l, order), order)
           /\ \A x \in LiveIn(l) : Relinked(l, order).elem[x].data = l.elem[x].data
  <1> DEFINE m == Relinked(l, order)
             place(c) == CHOOSE j \in DOMAIN order : order[j] = c
             p(c) == IF place(c) = 1 THEN NIL ELSE order[place(c) - 1]
             n(c) == IF place(c) = l.length THEN NIL ELSE order[place(c) + 1]
             rank == [c \in Cell |-> IF c \in LiveIn(l) THEN place(c) ELSE 0]
  <1>1. ListType(l) /\ LiveIn(l) \subseteq Cell /\ NIL \notin LiveIn(l)
    BY NILAssumption DEF Sound, LiveIn
  <1>2. DOMAIN order = 1..l.length /\ \A i \in 1..l.length : order[i] \in LiveIn(l)
    OBVIOUS
  <1>3. ASSUME NEW c \in LiveIn(l)
        PROVE  place(c) \in 1..l.length /\ order[place(c)] = c
    <2>1. \E j \in DOMAIN order : order[j] = c
      BY DEF Range
    <2> QED BY <2>1, <1>2
  <1>4. ASSUME NEW i \in 1..l.length
        PROVE  place(order[i]) = i
    <2>1. place(order[i]) \in DOMAIN order /\ order[place(order[i])] = order[i] /\ i \in DOMAIN order
      BY <1>2, <1>3
    <2> QED BY <2>1 DEF IsInjective
  <1>5. /\ m = [elem |-> m.elem, top |-> m.top, bot |-> m.bot, length |-> l.length]
        /\ m.elem = [c \in Cell |-> IF l.elem[c] = NIL THEN NIL ELSE Element(l.elem[c].data, p(c), n(c))]
        /\ m.top = IF l.length = 0 THEN NIL ELSE order[1]
        /\ m.bot = IF l.length = 0 THEN NIL ELSE order[l.length]
    BY DEF Relinked
  <1> HIDE DEF m, place
  <1>6. ASSUME NEW c \in LiveIn(l)
        PROVE  p(c) \in LiveIn(l) \union {NIL} /\ n(c) \in LiveIn(l) \union {NIL}
    <2>1. place(c) \in 1..l.length
      BY <1>3
    <2>2. place(c) /= 1 => place(c) - 1 \in 1..l.length
      BY <2>1
    <2>3. place(c) /= l.length => place(c) + 1 \in 1..l.length
      BY <2>1
    <2> QED BY <1>2, <2>2, <2>3
  <1>7. ASSUME NEW c \in LiveIn(l)
        PROVE  /\ m.elem[c] \in Elements /\ m.elem[c] /= NIL
               /\ m.elem[c].prev = p(c) /\ m.elem[c].next = n(c)
               /\ m.elem[c].data = l.elem[c].data
    <2>1. c \in Cell /\ l.elem[c] /= NIL /\ l.elem[c].data \in Data
      BY <1>1, LiveHolds DEF LiveIn, Elements
    <2>2. p(c) \in Pointer /\ n(c) \in Pointer
      BY <1>1, <1>6 DEF Pointer
    <2>3. m.elem[c] = Element(l.elem[c].data, p(c), n(c))
      BY <1>5, <2>1
    <2> HIDE DEF p, n
    <2> QED BY <2>1, <2>2, <2>3, ElementType
  <1>8. \A c \in Cell : c \notin LiveIn(l) => m.elem[c] = NIL
    BY <1>5 DEF LiveIn
  <1>9. LiveIn(m) = LiveIn(l)
    <2>1. \A x : x \in LiveIn(m) <=> x \in Cell /\ m.elem[x] /= NIL
      BY DEF LiveIn
    <2> QED BY <1>1, <1>7, <1>8, <2>1
  <1>10. ListType(m)
    <2>1. m.elem \in [Cell -> Elements \union {NIL}]
      <3> HIDE DEF p, n
      <3> QED BY <1>5, <1>7, <1>8
    <2>2. m.top \in Pointer /\ m.bot \in Pointer
      BY <1>1, <1>2, <1>5 DEF Pointer
    <2> HIDE DEF p, n
    <2> QED BY <1>5, <2>1, <2>2 DEF ListType
  <1>11. m.top = NIL <=> m.bot = NIL
    BY <1>1, <1>2, <1>5
  <1>12. {m.top, m.bot} \subseteq LiveIn(l) \union {NIL}
    BY <1>1, <1>2, <1>5
  <1>13. ASSUME NEW c \in LiveIn(l)
         PROVE  /\ n(c) = NIL <=> c = m.bot
                /\ p(c) = NIL <=> c = m.top
                /\ n(c) /= NIL => p(n(c)) = c /\ place(n(c)) = place(c) + 1
                /\ p(c) /= NIL => n(p(c)) = c
    <2>1. place(c) \in 1..l.length /\ order[place(c)] = c /\ l.length /= 0
      BY <1>3
    <2>2. place(c) /= l.length => place(c) + 1 \in 1..l.length
      BY <2>1
    <2>3. place(c) /= 1 => place(c) - 1 \in 1..l.length
      BY <2>1
    <2>4. n(c) = NIL <=> place(c) = l.length
      BY <1>1, <1>2, <2>1, <2>2
    <2>5. p(c) = NIL <=> place(c) = 1
      BY <1>1, <1>2, <2>1, <2>3
    <2>6. c = m.bot <=> place(c) = l.length
      BY <1>4, <1>5, <2>1
    <2>7. c = m.top <=> place(c) = 1
      BY <1>4, <1>5, <2>1
    <2>8. n(c) /= NIL => p(n(c)) = c /\ place(n(c)) = place(c) + 1
      BY <1>4, <2>1, <2>2, <2>4
    <2>9. p(c) /= NIL => n(p(c)) = c
      BY <1>4, <2>1, <2>3, <2>5
    <2> QED BY <2>4, <2>5, <2>6, <2>7, <2>8, <2>9
  <1>14. Linked(m)
    <2> HIDE DEF p, n
    <2> QED BY <1>6, <1>7, <1>9, <1>11, <1>12, <1>13 DEF Linked
  <1>15. rank \in [Cell -> Nat] /\ Ranks(rank, m)
    <2>1. ASSUME NEW c \in LiveIn(l), n(c) /= NIL
          PROVE  n(c) \in LiveIn(l) /\ place(c) \in Int /\ place(n(c)) = place(c) + 1
      BY <1>3, <1>6, <1>13, <2>1
    <2>2. rank \in [Cell -> Nat]
      BY <1>3
    <2> HIDE DEF p, n
    <2> QED BY <1>1, <1>7, <1>9, <2>1, <2>2 DEF Ranks
  <1>16. IsPath(m, order)
    <2>1. order \in Seq(LiveIn(m)) /\ Len(order) = l.length
      BY <1>9
    <2>2. order /= <<>> => order[1] = m.top
      BY <1>5, <2>1
    <2>3. ASSUME NEW i \in 1..l.length - 1
          PROVE  m.elem[order[i]].next = order[i + 1]
      <3>1. i \in 1..l.length /\ i /= l.length
        OBVIOUS
      <3>2. n(order[i]) = order[i + 1]
        BY <1>4, <3>1
      <3> HIDE DEF n
      <3> QED BY <1>2, <1>7, <3>1, <3>2
    <2> QED BY <2>1, <2>2, <2>3 DEF IsPath
  <1>17. \A x \in LiveIn(l) : m.elem[x].data = l.elem[x].data
    BY <1>7
  <1> QED BY <1>9, <1>10, <1>14, <1>15, <1>16, <1>17 DEF Sound, m

-----------------------------------------------------------------------------
\* What the three kinds of change to the list do to it, and to the set of its
\* elements.
LEMMA Insertion ==
    ASSUME NEW l, ListInv(l), NEW c \in Cell \ LiveIn(l), NEW d \in Data,
           NEW before, NEW after, Neighbours(l, before, after)
    PROVE  /\ ListInv(Splice(l, c, d, before, after))
           /\ LiveIn(Splice(l, c, d, before, after)) = LiveIn(l) \union {c}
  <1> DEFINE m == Splice(l, c, d, before, after)
  <1>1. Sound(m) /\ LiveIn(m) = LiveIn(l) \union {c}
    BY Spliced DEF ListInv, IsInserted
  <1>2. m.length = l.length + 1
    BY DEF Splice
  <1> HIDE DEF m
  <1>3. Counted(m)
    BY <1>1, <1>2, FS_AddElement DEF ListInv, Counted
  <1> QED BY <1>1, <1>3 DEF ListInv, m

\* The length goes down by the one element.
LEMMA Removal ==
    ASSUME NEW l, ListInv(l), NEW c \in LiveIn(l)
    PROVE  /\ ListInv(Excise(l, c))
           /\ LiveIn(Excise(l, c)) = LiveIn(l) \ {c}
           /\ l.elem[c].next /= c
  <1> DEFINE m == Excise(l, c)
  <1>1. Sound(m) /\ LiveIn(m) = LiveIn(l) \ {c} /\ l.elem[c].next /= c
    BY Unspliced DEF ListInv, IsRemoved
  <1>2. m.length = l.length - 1
    BY DEF Excise
  <1> HIDE DEF m
  <1>3. Counted(m)
    BY <1>1, <1>2, FS_RemoveElement DEF ListInv, Counted
  <1> QED BY <1>1, <1>3 DEF ListInv, m

\* A sorted list has the elements it had.
LEMMA Relinking ==
    ASSUME NEW l, ListInv(l), NEW order \in [1..l.length -> LiveIn(l)],
           IsInjective(order), Range(order) = LiveIn(l)
    PROVE  ListInv(Relinked(l, order)) /\ LiveIn(Relinked(l, order)) = LiveIn(l)
  <1>1. l.length \in Nat
    BY FS_CardinalityType DEF ListInv, Counted
  <1>2. Sound(Relinked(l, order)) /\ LiveIn(Relinked(l, order)) = LiveIn(l)
    BY <1>1, RelinkedSound DEF ListInv
  <1>3. Relinked(l, order).length = l.length
    BY DEF Relinked
  <1> QED BY <1>2, <1>3 DEF ListInv, Counted

\* A spot that is moved, and a list of which only an element nobody will
\* generate next has gone, leave every generator before a live element.
LEMMA SpotsStayLive ==
    ASSUME IInv, NEW moved \in Gen, NEW s \in Spots \union {NIL},
           s /= NIL => s.after \in Live' \union {NIL},
           gen' = [gen EXCEPT ![moved] = s],
           \A g \in Gen \ {moved} : IsOpen(g) => gen[g].after \in Live' \union {NIL}
    PROVE  gen' \in [Gen -> Spots \union {NIL}] /\ SpotsAreLive'
  <1>1. gen' \in [Gen -> Spots \union {NIL}]
    BY DEF IInv
  <1>2. ASSUME NEW g \in Gen, gen'[g] /= NIL
        PROVE  gen'[g].after \in Live' \union {NIL} /\ gen'[g].before \in Cell \union {NIL}
    <2>1. gen'[g].after \in Live' \union {NIL}
      BY <1>2 DEF IInv, IsOpen
    <2>2. gen'[g] \in Spots
      BY <1>1, <1>2
    <2> QED BY <2>1, <2>2 DEF Spots, Pointer
  <1> QED BY <1>1, <1>2 DEF SpotsAreLive, IsOpen

\* The same when no spot is moved.
LEMMA SpotsStill ==
    ASSUME IInv, UNCHANGED gen,
           \A g \in Gen : IsOpen(g) => gen[g].after \in Live' \union {NIL}
    PROVE  gen' \in [Gen -> Spots \union {NIL}] /\ SpotsAreLive'
  BY DEF IInv, SpotsAreLive, IsOpen

-----------------------------------------------------------------------------
\* An empty list without generators is in order.
LEMMA InitInv ==
    ASSUME Init
    PROVE  IInv
  <1>1. LiveIn(list) = {}
    BY DEF Init, lsCreate, LiveIn
  <1>2. ListType(list)
    BY DEF Init, lsCreate, ListType, Pointer
  <1>3. Linked(list)
    BY <1>1 DEF Init, lsCreate, Linked
  <1>4. [c \in Cell |-> 0] \in [Cell -> Nat] /\ Ranks([c \in Cell |-> 0], list)
    BY <1>1 DEF Ranks
  <1>5. Counted(list)
    BY <1>1, FS_EmptySet DEF Init, lsCreate, Counted
  <1>6. gen \in [Gen -> Spots \union {NIL}] /\ SpotsAreLive
    BY DEF Init, SpotsAreLive, IsOpen
  <1> QED BY <1>2, <1>3, <1>4, <1>5, <1>6 DEF IInv, ListInv, Sound

\* The facts of a state that the actions rest on.
LEMMA AtASpot ==
    ASSUME IInv
    PROVE  /\ Live \subseteq Cell /\ NIL \notin Live /\ Linked(list)
           /\ {list.top, list.bot} \subseteq Live \union {NIL}
           /\ \A c \in Live : {list.elem[c].prev, list.elem[c].next} \subseteq Live \union {NIL}
           /\ \A g \in Gen : IsOpen(g) =>
                 /\ gen[g] \in Spots /\ gen[g] = Spot(gen[g].before, gen[g].after)
                 /\ gen[g].before \in Pointer /\ gen[g].after \in Live \union {NIL}
  <1>1. Live \subseteq Cell /\ NIL \notin Live /\ Linked(list)
    BY NILAssumption DEF IInv, ListInv, Sound, Live, LiveIn
  <1>2. \A c \in Live : {list.elem[c].prev, list.elem[c].next} \subseteq Live \union {NIL}
    BY <1>1 DEF Linked, Live
  <1>3. {list.top, list.bot} \subseteq Live \union {NIL}
    BY <1>1 DEF Linked, Live
  <1>4. \A g \in Gen : IsOpen(g) =>
           /\ gen[g] \in Spots /\ gen[g] = Spot(gen[g].before, gen[g].after)
           /\ gen[g].before \in Pointer /\ gen[g].after \in Live \union {NIL}
    BY DEF IInv, IsOpen, Spots, Spot, SpotsAreLive
  <1> QED BY <1>1, <1>2, <1>3, <1>4

\* A generator in its place is between two neighbours.
LEMMA InPlaceMeans ==
    ASSUME IInv, NEW g \in Gen, InPlace(g)
    PROVE  /\ gen[g].before \in Live \union {NIL} /\ gen[g].after \in Live \union {NIL}
           /\ gen[g].before = NIL => gen[g].after = list.top
           /\ gen[g].before /= NIL => list.elem[gen[g].before].next = gen[g].after
           /\ gen[g].after = NIL => gen[g].before = list.bot
  <1>1. Linked(list) /\ NIL \notin Live
    BY AtASpot
  <1>2. /\ gen[g].before \in Live \union {NIL} /\ gen[g].after \in Live \union {NIL}
        /\ gen[g].before = NIL => gen[g].after = list.top
        /\ gen[g].before /= NIL => list.elem[gen[g].before].next = gen[g].after
    BY AtASpot DEF InPlace, NextOf
  <1>3. gen[g].after = NIL => gen[g].before = list.bot
    BY <1>1, <1>2 DEF Linked, Live
  <1> QED BY <1>2, <1>3

\* The callers' discipline saves the spots of the others.
LEMMA RemovalSparesOthers ==
    ASSUME IInv, NEW c \in Live, NEW own, MayRemove(c, own), list' = Excise(list, c)
    PROVE  /\ ListInv(list)' /\ list.elem[c].next /= c /\ Live' = Live \ {c}
           /\ \A g \in Gen \ own : IsOpen(g) => gen[g].after \in Live' \union {NIL}
  <1>1. ListInv(list') /\ LiveIn(list') = LiveIn(list) \ {c} /\ list.elem[c].next /= c
    BY Removal DEF IInv, Live
  <1>2. ListInv(list)' /\ Live' = Live \ {c}
    BY <1>1 DEF Live, ListInv, Sound, Counted, ListType, Linked, Ranks, LiveIn
  <1> QED BY <1>1, <1>2, AtASpot DEF MayRemove

\* Nothing that another generator comes to next has gone.
LEMMA InsertionSparesOthers ==
    ASSUME IInv, NEW c \in Free, NEW d \in Data, NEW before, NEW after,
           Neighbours(list, before, after), list' = Splice(list, c, d, before, after)
    PROVE  /\ ListInv(list)' /\ Live' = Live \union {c}
           /\ \A g \in Gen : IsOpen(g) => gen[g].after \in Live' \union {NIL}
  <1>1. ListInv(list') /\ LiveIn(list') = LiveIn(list) \union {c}
    BY Insertion DEF IInv, Live, Free
  <1>2. ListInv(list)' /\ Live' = Live \union {c}
    BY <1>1 DEF Live, ListInv, Sound, Counted, ListType, Linked, Ranks, LiveIn
  <1> QED BY <1>2, AtASpot

-----------------------------------------------------------------------------
\* The calls on the list.
LEMMA ListCallInv ==
    ASSUME IInv, ListCall
    PROVE  IInv'
  <1>1. ASSUME NEW c \in Free, NEW d \in Data, NewBegin(c, d) \/ NewEnd(c, d)
        PROVE  IInv'
    <2>1. /\ lsNewBegin(list, c, d) = Splice(list, c, d, NIL, list.top) /\ Neighbours(list, NIL, list.top)
          /\ lsNewEnd(list, c, d) = Splice(list, c, d, list.bot, NIL) /\ Neighbours(list, list.bot, NIL)
      BY OnlySplices DEF IInv, ListInv, Free, Live
    <2>2. ListInv(list)' /\ \A g \in Gen : IsOpen(g) => gen[g].after \in Live' \union {NIL}
      BY <1>1, <2>1, InsertionSparesOthers DEF NewBegin, NewEnd
    <2> QED BY <1>1, <2>2, SpotsStill DEF NewBegin, NewEnd, IInv
  <1>2. ASSUME NEW c \in Live, MayRemove(c, {}), list' = Excise(list, c), UNCHANGED gen
        PROVE  IInv'
    <2>1. ListInv(list)' /\ \A g \in Gen : IsOpen(g) => gen[g].after \in Live' \union {NIL}
      BY <1>2, RemovalSparesOthers
    <2> QED BY <1>2, <2>1, SpotsStill DEF IInv
  <1>3. ASSUME UNCHANGED <<list, gen>>
        PROVE  IInv'
    BY <1>3 DEF IInv, ListInv, Sound, Counted, ListType, Linked, Ranks, LiveIn, SpotsAreLive, Live, IsOpen
  <1>4. CASE DelBegin
    <2>1. CASE list.top = NIL
      BY <1>3, <1>4, <2>1 DEF DelBegin
    <2>2. CASE list.top /= NIL
      <3>1. list.top \in Live
        BY <2>2, AtASpot
      <3>2. lsDelBegin(list) = Excise(list, list.top)
        BY <3>1, OnlyExcises DEF IInv, ListInv, Live
      <3> QED BY <1>2, <1>4, <2>2, <3>1, <3>2 DEF DelBegin
    <2> QED BY <2>1, <2>2
  <1>5. CASE DelEnd
    <2>1. CASE list.bot = NIL
      BY <1>3, <1>5, <2>1 DEF DelEnd
    <2>2. CASE list.bot /= NIL
      <3>1. list.bot \in Live
        BY <2>2, AtASpot
      <3>2. lsDelEnd(list) = Excise(list, list.bot)
        BY <3>1, OnlyExcises DEF IInv, ListInv, Live
      <3> QED BY <1>2, <1>5, <2>2, <3>1, <3>2 DEF DelEnd
    <2> QED BY <2>1, <2>2
  <1>6. ASSUME NEW c \in Live, RemoveItem(c)
        PROVE  IInv'
    <2>1. Del(list, c) = Excise(list, c)
      BY OnlyExcises DEF IInv, ListInv, Live
    <2> QED BY <1>2, <1>6, <2>1 DEF RemoveItem
  <1>7. CASE Sort
    <2>1. PICK order \in [1..list.length -> Live] :
            IsInjective(order) /\ Range(order) = Live /\ list' = Relinked(list, order)
      BY <1>7 DEF Sort
    <2>2. ListInv(list') /\ LiveIn(list') = LiveIn(list)
      BY <2>1, Relinking DEF IInv, Live
    <2>3. ListInv(list)' /\ Live' = Live
      BY <2>2 DEF Live, ListInv, Sound, Counted, ListType, Linked, Ranks, LiveIn
    <2>4. UNCHANGED gen /\ \A g \in Gen : ~IsOpen(g)
      BY <1>7 DEF Sort
    <2>5. gen' \in [Gen -> Spots \union {NIL}] /\ SpotsAreLive'
      BY <2>4, SpotsStill
    <2> QED BY <2>3, <2>5 DEF IInv
  <1> QED BY <1>1, <1>4, <1>5, <1>6, <1>7 DEF ListCall

\* The calls that only move the spot.
LEMMA MoveInv ==
    ASSUME IInv, NEW g \in Gen, NEW s \in Spots \union {NIL}, s /= NIL => s.after \in Live \union {NIL},
           gen' = [gen EXCEPT ![g] = s], UNCHANGED list
    PROVE  IInv'
  <1>1. ListInv(list)' /\ Live' = Live
    BY DEF IInv, Live, ListInv, Sound, Counted, ListType, Linked, Ranks, LiveIn
  <1>2. \A h \in Gen \ {g} : IsOpen(h) => gen[h].after \in Live' \union {NIL}
    BY <1>1, AtASpot
  <1>3. gen' \in [Gen -> Spots \union {NIL}] /\ SpotsAreLive'
    BY <1>1, <1>2, SpotsStayLive
  <1> QED BY <1>1, <1>3 DEF IInv

\* A spot made of live elements is a spot.
LEMMA SpotType ==
    ASSUME IInv, NEW before \in Live \union {NIL}, NEW after \in Pointer
    PROVE  /\ Spot(before, after) \in Spots
           /\ Spot(before, after).before = before /\ Spot(before, after).after = after
  BY AtASpot DEF Spot, Spots, Pointer

\* The calls that open a generator.
LEMMA OpenInv ==
    ASSUME IInv, NEW g \in Gen, Start(g) \/ End(g) \/ \E c \in Live : GenHandle(g, c)
    PROVE  IInv'
  <1>1. ASSUME NEW before \in Live \union {NIL}, NEW after \in Live \union {NIL},
               OpenAt(g, before, after)
        PROVE  IInv'
    <2>1. after \in Pointer
      BY AtASpot DEF Pointer
    <2> QED BY <1>1, <2>1, SpotType, MoveInv DEF OpenAt
  <1>2. CASE Start(g) \/ End(g)
    BY <1>1, <1>2, AtASpot DEF Start, End
  <1>3. ASSUME NEW c \in Live, GenHandle(g, c)
        PROVE  IInv'
    BY <1>1, <1>3, AtASpot DEF GenHandle
  <1> QED BY <1>2, <1>3

\* The calls that step or close one.
LEMMA StepInv ==
    ASSUME IInv, NEW g \in Gen, Next(g) \/ Prev(g) \/ Finish(g)
    PROVE  IInv'
  <1>1. ASSUME UNCHANGED <<list, gen>>
        PROVE  IInv'
    BY <1>1 DEF IInv, ListInv, Sound, Counted, ListType, Linked, Ranks, LiveIn, SpotsAreLive, Live, IsOpen
  <1>2. ASSUME NEW before \in Live \union {NIL}, NEW after \in Live \union {NIL},
               gen' = [gen EXCEPT ![g] = Spot(before, after)], UNCHANGED list
        PROVE  IInv'
    <2>1. after \in Pointer
      BY AtASpot DEF Pointer
    <2> QED BY <1>2, <2>1, SpotType, MoveInv
  <1>3. CASE Next(g)
    <2>1. gen[g].after \in Live \union {NIL}
      BY <1>3, AtASpot DEF Next
    <2>2. CASE gen[g].after = NIL
      BY <1>1, <1>3, <2>2 DEF Next
    <2>3. CASE gen[g].after /= NIL
      <3>1. gen[g].after \in Live /\ list.elem[gen[g].after].next \in Live \union {NIL}
        BY <2>1, <2>3, AtASpot
      <3> QED BY <1>2, <1>3, <2>3, <3>1 DEF Next
    <2> QED BY <2>2, <2>3
  <1>4. CASE Prev(g)
    <2>1. gen[g].before \in Live \union {NIL}
      BY <1>4, InPlaceMeans DEF Prev
    <2>2. CASE gen[g].before = NIL
      BY <1>1, <1>4, <2>2 DEF Prev
    <2>3. CASE gen[g].before /= NIL
      <3>1. gen[g].before \in Live /\ list.elem[gen[g].before].prev \in Live \union {NIL}
        BY <2>1, <2>3, AtASpot
      <3> QED BY <1>2, <1>4, <2>3, <3>1 DEF Prev
    <2> QED BY <2>2, <2>3
  <1>5. CASE Finish(g)
    BY <1>5, MoveInv DEF Finish
  <1> QED BY <1>3, <1>4, <1>5

\* The calls that insert at a spot: the element that comes next is an old one
\* or the new one.
LEMMA InsertInv ==
    ASSUME IInv, NEW g \in Gen, NEW c \in Free, NEW d \in Data, InBefore(g, c, d) \/ InAfter(g, c, d)
    PROVE  IInv'
  <1> DEFINE before == gen[g].before
             after == gen[g].after
  <1>1. IsOpen(g) /\ InPlace(g)
    BY DEF InBefore, InAfter, InsertAtSpot, InPlace
  <1>2. /\ before \in Live \union {NIL} /\ after \in Live \union {NIL}
        /\ before = NIL => after = list.top
        /\ before /= NIL => list.elem[before].next = after
        /\ after = NIL => before = list.bot
        /\ gen[g] = Spot(before, after) /\ Live \subseteq Cell
    BY <1>1, InPlaceMeans, AtASpot
  <1>3. /\ lsNewBegin(list, c, d) = Splice(list, c, d, NIL, list.top) /\ Neighbours(list, NIL, list.top)
        /\ lsNewEnd(list, c, d) = Splice(list, c, d, list.bot, NIL) /\ Neighbours(list, list.bot, NIL)
        /\ \A b, a \in Live : /\ Between(list, c, d, b, a) = Splice(list, c, d, b, a)
                              /\ list.elem[b].next = a => Neighbours(list, b, a)
    BY OnlySplices DEF IInv, ListInv, Free, Live
  <1>4. PICK b \in Live \union {NIL}, a \in Live \union {NIL} :
          Neighbours(list, b, a) /\ list' = Splice(list, c, d, b, a)
    <2>1. CASE before = NIL
      BY <1>2, <1>3, <2>1 DEF InBefore, InAfter, InsertAtSpot
    <2>2. CASE before /= NIL /\ after = NIL
      BY <1>2, <1>3, <2>2 DEF InBefore, InAfter, InsertAtSpot
    <2>3. CASE before /= NIL /\ after /= NIL
      <3>1. list' = Between(list, c, d, before, after)
        BY <2>3 DEF InBefore, InAfter, InsertAtSpot
      <3>2. before \in Live /\ after \in Live /\ list.elem[before].next = after
        BY <1>2, <2>3
      <3> QED BY <1>3, <3>1, <3>2
    <2> QED BY <2>1, <2>2, <2>3
  <1>5. /\ ListInv(list)' /\ Live' = Live \union {c}
        /\ \A h \in Gen : IsOpen(h) => gen[h].after \in Live' \union {NIL}
    BY <1>4, InsertionSparesOthers
  <1>6. PICK s \in Spots : gen' = [gen EXCEPT ![g] = s] /\ s.after \in Live' \union {NIL}
    <2> DEFINE behind == [gen[g] EXCEPT !.before = c]
               ahead == [gen[g] EXCEPT !.after = c]
    <2>1. gen' = [gen EXCEPT ![g] = behind] \/ gen' = [gen EXCEPT ![g] = ahead]
      BY DEF InBefore, InAfter, InsertAtSpot
    <2>2. c \in Cell
      BY DEF Free
    <2>3. behind \in Spots /\ behind.after = after /\ ahead \in Spots /\ ahead.after = c
      BY <1>2, <2>2 DEF Spot, Spots, Pointer
    <2> HIDE DEF behind, ahead
    <2> QED BY <1>2, <1>5, <2>1, <2>3
  <1>7. gen' \in [Gen -> Spots \union {NIL}] /\ SpotsAreLive'
    BY <1>5, <1>6, SpotsStayLive
  <1> QED BY <1>5, <1>7 DEF IInv

\* The calls that delete at a spot: what comes next is not what is deleted.
LEMMA DeleteInv ==
    ASSUME IInv, NEW g \in Gen, DelBefore(g) \/ DelAfter(g)
    PROVE  IInv'
  <1> DEFINE before == gen[g].before
             after == gen[g].after
  <1>1. ASSUME UNCHANGED <<list, gen>>
        PROVE  IInv'
    BY <1>1 DEF IInv, ListInv, Sound, Counted, ListType, Linked, Ranks, LiveIn, SpotsAreLive, Live, IsOpen
  <1>2. IsOpen(g) /\ gen[g] = Spot(before, after) /\ before \in Pointer /\ after \in Live \union {NIL}
    BY AtASpot DEF DelBefore, DelAfter, InPlace
  <1>3. ASSUME NEW doomed \in Live, MayRemove(doomed, {g}), list' = Del(list, doomed),
               NEW s \in Spots, gen' = [gen EXCEPT ![g] = s],
               s.after \in Live \union {NIL}, s.after /= doomed
        PROVE  IInv'
    <2>1. Del(list, doomed) = Excise(list, doomed)
      BY OnlyExcises DEF IInv, ListInv, Live
    <2>2. /\ ListInv(list)' /\ Live' = Live \ {doomed}
          /\ \A h \in Gen \ {g} : IsOpen(h) => gen[h].after \in Live' \union {NIL}
      BY <1>3, <2>1, RemovalSparesOthers
    <2>3. gen' \in [Gen -> Spots \union {NIL}] /\ SpotsAreLive'
      BY <1>3, <2>2, SpotsStayLive
    <2> QED BY <2>2, <2>3 DEF IInv
  <1>4. \A c \in Live : /\ list.elem[c].next /= c
                        /\ {list.elem[c].prev, list.elem[c].next} \subseteq Live \union {NIL}
    BY Removal, AtASpot DEF IInv, Live
  <1>5. CASE DelBefore(g)
    <2>1. CASE before = NIL
      BY <1>1, <1>5, <2>1 DEF DelBefore
    <2>2. CASE before /= NIL
      <3> DEFINE s == [gen[g] EXCEPT !.before = list.elem[before].prev]
      <3>1. before \in Live /\ list.elem[before].next = after
        BY <1>5, <2>2, InPlaceMeans DEF DelBefore
      <3>2. /\ MayRemove(before, {g}) /\ list' = Del(list, before)
            /\ gen' = [gen EXCEPT ![g] = s]
        BY <1>5, <2>2 DEF DelBefore
      <3>3. s \in Spots /\ s.after = after
        BY <1>2, <1>4, <3>1, AtASpot DEF Spot, Spots, Pointer
      <3> HIDE DEF s
      <3> QED BY <1>2, <1>3, <1>4, <3>1, <3>2, <3>3
    <2> QED BY <2>1, <2>2
  <1>6. CASE DelAfter(g)
    <2>1. CASE after = NIL
      BY <1>1, <1>6, <2>1 DEF DelAfter
    <2>2. CASE after /= NIL
      <3> DEFINE s == [gen[g] EXCEPT !.after = list.elem[after].next]
      <3>1. after \in Live
        BY <1>2, <2>2
      <3>2. /\ MayRemove(after, {g}) /\ list' = Del(list, after)
            /\ gen' = [gen EXCEPT ![g] = s]
        BY <1>6, <2>2 DEF DelAfter
      <3>3. s \in Spots /\ s.after = list.elem[after].next
        BY <1>2, <1>4, <3>1, AtASpot DEF Spot, Spots, Pointer
      <3> HIDE DEF s
      <3> QED BY <1>3, <1>4, <3>1, <3>2, <3>3
    <2> QED BY <2>1, <2>2
  <1> QED BY <1>5, <1>6

-----------------------------------------------------------------------------
\* Every call keeps the invariant.
LEMMA Inductive ==
    ASSUME IInv, [ListCall \/ \E g \in Gen : GenCall(g)]_vars
    PROVE  IInv'
  <1>1. CASE ListCall
    BY <1>1, ListCallInv
  <1>2. ASSUME NEW g \in Gen, GenCall(g)
        PROVE  IInv'
    BY <1>2, OpenInv, StepInv, InsertInv, DeleteInv DEF GenCall
  <1>3. CASE UNCHANGED vars
    BY <1>3 DEF vars, IInv, ListInv, Sound, Counted, ListType, Linked, Ranks, LiveIn, SpotsAreLive, Live, IsOpen
  <1> QED BY <1>1, <1>2, <1>3

\* However insertions and deletions at the ends, at the spots of several
\* generators and of given elements interleave, no generator is left before
\* an element that has been freed (lsNext and lsDelAfter, list.c 433-462 and
\* 621-659, would follow its pointers).
THEOREM NoSpotDangles == Spec => []SpotsAreLive
  <1>1. Spec => []IInv
    BY InitInv, Inductive, PTL DEF Spec
  <1>2. IInv => SpotsAreLive
    BY DEF IInv
  <1> QED BY <1>1, <1>2, PTL

\* The pointers of neighbours agree in every state, and the length that the
\* descriptor keeps (lsLength, list.c 268-280) is the number of elements.
THEOREM ListIsLinked == Spec => [](Linked(list) /\ list.length = Cardinality(Live))
  <1>1. Spec => []IInv
    BY InitInv, Inductive, PTL DEF Spec
  <1>2. IInv => Linked(list) /\ list.length = Cardinality(Live)
    BY DEF IInv, ListInv, Sound, Counted, Live
  <1> QED BY <1>1, <1>2, PTL

-----------------------------------------------------------------------------
(* The elements from the top.                                              *)

LEMMA SetInduction ==
    ASSUME NEW S \in SUBSET Nat, 0 \in S, \A n \in S : n + 1 \in S
    PROVE  S = Nat
  <1> SUFFICES ASSUME Nat \ S /= {}  PROVE FALSE
    OBVIOUS
  <1>1. PICK x \in Nat \ S : \A y \in Nat \ S : ~ (<<y, x>> \in OpToRel(<, Nat))
    BY NatLessThanWellFounded, WFMin
  <1>2. x /= 0 /\ x - 1 \in Nat /\ x - 1 \notin S
    OBVIOUS
  <1>3. <<x - 1, x>> \in OpToRel(<, Nat)
    BY <1>2 DEF OpToRel
  <1> QED BY <1>1, <1>2, <1>3

\* The walk with its n-th element, and the walks to every element up to the
\* m-th.
Further(l, nearer, n) == Append(nearer, IF n = 1 THEN l.top ELSE l.elem[nearer[n - 1]].next)

AreWalks(f, l, m) == f = [n \in 0..m |-> IF n = 0 THEN <<>> ELSE Further(l, f[n - 1], n)]

WalkOf(l) == (CHOOSE f : AreWalks(f, l, l.length))[l.length]

LEMMA WalksExist ==
    ASSUME NEW l, NEW m \in Nat
    PROVE  \E f : AreWalks(f, l, m)
  <1> DEFINE S == {n \in Nat : \E f : AreWalks(f, l, n)}
  <1>1. 0 \in S
    <2>1. AreWalks([n \in 0..0 |-> <<>>], l, 0)
      BY DEF AreWalks
    <2> QED BY <2>1
  <1>2. ASSUME NEW n \in S
        PROVE  n + 1 \in S
    <2>1. PICK f : AreWalks(f, l, n)
      OBVIOUS
    <2> DEFINE g == [i \in 0..n + 1 |-> IF i = n + 1 THEN Further(l, f[n], n + 1) ELSE f[i]]
    <2>2. \A i \in 0..n : f[i] = IF i = 0 THEN <<>> ELSE Further(l, f[i - 1], i)
      BY <2>1 DEF AreWalks
    <2>3. ASSUME NEW i \in 0..n + 1
          PROVE  g[i] = IF i = 0 THEN <<>> ELSE Further(l, g[i - 1], i)
      <3>1. CASE i = n + 1
        <4>1. i /= 0 /\ g[i - 1] = f[n]
          BY <3>1
        <4> QED BY <3>1, <4>1
      <3>2. CASE i \in 0..n
        <4>1. g[i] = f[i] /\ (i /= 0 => g[i - 1] = f[i - 1])
          BY <3>2
        <4> HIDE DEF g
        <4> QED BY <2>2, <3>2, <4>1
      <3> QED BY <3>1, <3>2
    <2>4. AreWalks(g, l, n + 1)
      <3>1. g = [i \in 0..n + 1 |-> g[i]]
        OBVIOUS
      <3> HIDE DEF g
      <3> QED BY <2>3, <3>1 DEF AreWalks
    <2> QED BY <2>4
  <1>3. S = Nat
    <2> HIDE DEF S
    <2>1. S \in SUBSET Nat
      BY DEF S
    <2> QED BY <1>1, <1>2, <2>1, SetInduction
  <1> QED BY <1>3

LEMMA WalkIs == Walk = WalkOf(list) /\ Walk' = WalkOf(list')
  BY DEF Walk, WalkOf, AreWalks, Further

\* The elements of a list are those of a sequence, in its order.
Represents(l, s) ==
    /\ IsPath(l, s) /\ Len(s) = l.length
    /\ Range(s) = LiveIn(l) /\ IsInjective(s)

\* A path does not come by an element twice.
LEMMA PathInjective ==
    ASSUME NEW l, Sound(l), NEW s, IsPath(l, s)
    PROVE  IsInjective(s)
  <1>1. PICK rank \in [Cell -> Nat] : Ranks(rank, l)
    BY DEF Sound
  <1>2. s \in Seq(LiveIn(l)) /\ Len(s) \in Nat /\ DOMAIN s = 1..Len(s) /\ NIL \notin LiveIn(l)
        /\ LiveIn(l) \subseteq Cell
    BY NILAssumption DEF IsPath, LiveIn
  <1>3. \A i \in 1..Len(s) : s[i] \in LiveIn(l) /\ s[i] \in Cell /\ s[i] /= NIL /\ rank[s[i]] \in Nat
    BY <1>2, ElementOfSeq
  <1>4. ASSUME NEW i \in 1..Len(s), i + 1 \in 1..Len(s)
        PROVE  rank[s[i]] < rank[s[i + 1]]
    <2>1. l.elem[s[i]].next = s[i + 1]
      BY <1>2, <1>4 DEF IsPath
    <2> QED BY <1>1, <1>3, <1>4, <2>1 DEF Ranks
  <1> DEFINE S == {n \in Nat : \A i \in 1..Len(s) : i + n + 1 \in 1..Len(s) => rank[s[i]] < rank[s[i + n + 1]]}
  <1>5. 0 \in S
    BY <1>4
  <1>6. ASSUME NEW n \in S
        PROVE  n + 1 \in S
    <2>1. ASSUME NEW i \in 1..Len(s), i + (n + 1) + 1 \in 1..Len(s)
          PROVE  rank[s[i]] < rank[s[i + (n + 1) + 1]]
      <3> DEFINE j == i + n + 1
      <3>1. j \in 1..Len(s) /\ j + 1 \in 1..Len(s) /\ i + (n + 1) + 1 = j + 1
        BY <1>2, <2>1
      <3>2. rank[s[i]] < rank[s[j]]
        BY <3>1
      <3>3. rank[s[j]] < rank[s[j + 1]]
        BY <1>4, <3>1
      <3> HIDE DEF j
      <3>4. rank[s[i]] \in Nat /\ rank[s[j]] \in Nat /\ rank[s[j + 1]] \in Nat
        BY <1>3, <3>1
      <3>5. rank[s[i]] < rank[s[j + 1]]
        BY <3>2, <3>3, <3>4
      <3> QED BY <3>1, <3>5
    <2> QED BY <2>1
  <1>7. S = Nat
    <2>1. S \in SUBSET Nat
      OBVIOUS
    <2> HIDE DEF S
    <2> QED BY <1>5, <1>6, <2>1, SetInduction
  <1>8. ASSUME NEW i \in 1..Len(s), NEW j \in 1..Len(s), i < j
        PROVE  s[i] /= s[j]
    <2> DEFINE n == j - i - 1
    <2>1. n \in Nat /\ i + n + 1 = j
      <3>1. i \in Nat /\ j \in Nat
        BY <1>2
      <3> QED BY <1>8, <3>1
    <2>2. rank[s[i]] < rank[s[j]]
      <3> HIDE DEF n
      <3> QED BY <1>7, <2>1
    <2> QED BY <1>3, <2>2
  <1>9. ASSUME NEW i \in 1..Len(s), NEW j \in 1..Len(s), s[i] = s[j]
        PROVE  i = j
    <2>1. i < j \/ j < i \/ i = j
      BY <1>2
    <2> QED BY <1>8, <1>9, <2>1
  <1> QED BY <1>2, <1>9 DEF IsInjective

\* A path without repetition is as long as its elements are many.
LEMMA PathLength ==
    ASSUME NEW l, Sound(l), NEW s, IsPath(l, s)
    PROVE  /\ Range(s) \subseteq LiveIn(l) /\ IsFiniteSet(Range(s))
           /\ Cardinality(Range(s)) = Len(s)
  <1>1. s \in Seq(LiveIn(l)) /\ Len(s) \in Nat /\ DOMAIN s = 1..Len(s)
    BY DEF IsPath
  <1>2. Range(s) \subseteq LiveIn(l)
    BY <1>1, ElementOfSeq DEF Range
  <1>3. s \in [1..Len(s) -> Range(s)]
    <2>1. s = [i \in 1..Len(s) |-> s[i]]
      BY <1>1
    <2> QED BY <1>1, <2>1 DEF Range
  <1>4. s \in Injection(1..Len(s), Range(s))
    BY <1>1, <1>3, PathInjective DEF Injection, IsInjective
  <1>5. s \in Surjection(1..Len(s), Range(s))
    BY <1>1, <1>3 DEF Surjection, Range
  <1>6. IsFiniteSet(1..Len(s)) /\ Cardinality(1..Len(s)) = Len(s)
    BY <1>1, FS_Interval, SMTT(60)
  <1> QED BY <1>2, <1>4, <1>5, <1>6, FS_Surjection

\* A path that ends before all elements goes on: otherwise what it misses
\* would have no first element.
LEMMA PathGoesOn ==
    ASSUME NEW l, Sound(l), NEW s, IsPath(l, s), LiveIn(l) \ Range(s) /= {}
    PROVE  IF s = <<>> THEN l.top \in LiveIn(l) ELSE l.elem[s[Len(s)]].next \in LiveIn(l)
  <1>1. Linked(l) /\ NIL \notin LiveIn(l) /\ LiveIn(l) \subseteq Cell
    BY NILAssumption DEF Sound, LiveIn
  <1>2. s \in Seq(LiveIn(l)) /\ Len(s) \in Nat /\ DOMAIN s = 1..Len(s)
        /\ \A i \in 1..Len(s) : s[i] \in LiveIn(l)
    BY ElementOfSeq DEF IsPath
  <1>3. PICK rank \in [Cell -> Nat] : Ranks(rank, l)
    BY DEF Sound
  <1> DEFINE missed == LiveIn(l) \ Range(s)
             end == IF s = <<>> THEN l.top ELSE l.elem[s[Len(s)]].next
  <1>4. end \in LiveIn(l) \union {NIL}
    <2>1. CASE s = <<>>
      BY <1>1, <2>1 DEF Linked
    <2>2. CASE s /= <<>>
      <3>1. s[Len(s)] \in LiveIn(l)
        BY <1>2, <2>2
      <3> QED BY <1>1, <2>2, <3>1 DEF Linked
    <2> QED BY <2>1, <2>2
  <1>5. SUFFICES ASSUME end = NIL  PROVE FALSE
    BY <1>4
  <1>6. ASSUME NEW y \in missed
        PROVE  \E z \in missed : rank[z] < rank[y]
    <2> DEFINE z == l.elem[y].prev
    <2>1. y \in LiveIn(l) /\ y /= NIL
      BY <1>1
    <2>2. y /= l.top
      <3>1. CASE s = <<>>
        BY <1>5, <2>1, <3>1
      <3>2. CASE s /= <<>>
        <4>1. 1 \in DOMAIN s /\ s[1] = l.top
          BY <1>2, <3>2 DEF IsPath
        <4> QED BY <4>1 DEF Range
      <3> QED BY <3>1, <3>2
    <2>3. z \in LiveIn(l) /\ l.elem[z].next = y
      BY <1>1, <2>1, <2>2 DEF Linked
    <2>4. z \notin Range(s)
      <3> SUFFICES ASSUME NEW i \in 1..Len(s), s[i] = z  PROVE FALSE
        BY <1>2 DEF Range
      <3>1. CASE i = Len(s)
        BY <1>2, <1>5, <2>1, <2>3, <3>1
      <3>2. CASE i /= Len(s)
        <4>1. i \in 1..Len(s) - 1 /\ i + 1 \in 1..Len(s)
          <5>1. Len(s) \in Nat
            BY <1>2
          <5> QED BY <3>2, <5>1
        <4>2. s[i + 1] = y
          BY <2>3, <4>1 DEF IsPath
        <4> QED BY <1>2, <4>1, <4>2 DEF Range
      <3> QED BY <3>1, <3>2
    <2>5. rank[z] < rank[y]
      BY <1>3, <2>1, <2>3 DEF Ranks
    <2> QED BY <2>3, <2>4, <2>5
  <1> DEFINE S == {n \in Nat : \A y \in missed : rank[y] > n}
  <1>7. missed \subseteq Cell
    BY <1>1
  <1>8. 0 \in S
    <2>1. ASSUME NEW y \in missed  PROVE rank[y] > 0
      <3>1. PICK z \in missed : rank[z] < rank[y]
        BY <1>6
      <3> QED BY <1>7, <3>1
    <2> QED BY <2>1
  <1>9. ASSUME NEW n \in S
        PROVE  n + 1 \in S
    <2>1. ASSUME NEW y \in missed  PROVE rank[y] > n + 1
      <3>1. PICK z \in missed : rank[z] < rank[y]
        BY <1>6
      <3>2. rank[z] > n /\ rank[z] \in Nat /\ rank[y] \in Nat
        BY <1>7
      <3> QED BY <3>1, <3>2
    <2> QED BY <2>1
  <1>10. S = Nat
    <2>1. S \in SUBSET Nat
      OBVIOUS
    <2> HIDE DEF S
    <2> QED BY <1>8, <1>9, <2>1, SetInduction
  <1>11. PICK y \in missed : TRUE
    OBVIOUS
  <1>12. rank[y] \in S
    BY <1>7, <1>10
  <1> QED BY <1>7, <1>12

LEMMA WalkRepresents ==
    ASSUME NEW l, ListInv(l)
    PROVE  Represents(l, WalkOf(l))
  <1>1. /\ Sound(l) /\ IsFiniteSet(LiveIn(l)) /\ l.length = Cardinality(LiveIn(l))
        /\ l.length \in Nat
    BY FS_CardinalityType DEF ListInv, Counted
  <1>2. PICK f : AreWalks(f, l, l.length) /\ WalkOf(l) = f[l.length]
    BY <1>1, WalksExist DEF WalkOf
  <1>3. \A n \in 0..l.length : f[n] = IF n = 0 THEN <<>> ELSE Further(l, f[n - 1], n)
    BY <1>2 DEF AreWalks
  <1> DEFINE S == {n \in Nat : n <= l.length => IsPath(l, f[n]) /\ Len(f[n]) = n}
  <1>4. 0 \in S
    <2>1. f[0] = <<>>
      BY <1>1, <1>3
    <2>2. <<>> \in Seq(LiveIn(l)) /\ Len(<<>>) = 0
      BY EmptySeq
    <2>3. IsPath(l, <<>>)
      BY <2>2 DEF IsPath
    <2> QED BY <2>1, <2>2, <2>3
  <1>5. ASSUME NEW n \in S
        PROVE  n + 1 \in S
    <2> SUFFICES ASSUME n + 1 <= l.length
                 PROVE  IsPath(l, f[n + 1]) /\ Len(f[n + 1]) = n + 1
      OBVIOUS
    <2> DEFINE s == f[n]
               c == IF n + 1 = 1 THEN l.top ELSE l.elem[s[n]].next
    <2>1. IsPath(l, s) /\ Len(s) = n
      BY <1>1
    <2>2. f[n + 1] = Append(s, c)
      <3>1. n + 1 \in 0..l.length /\ n + 1 /= 0 /\ (n + 1) - 1 = n
        BY <1>1
      <3>2. f[n + 1] = Further(l, f[(n + 1) - 1], n + 1)
        BY <1>3, <3>1
      <3> QED BY <3>1, <3>2 DEF Further
    <2>3. LiveIn(l) \ Range(s) /= {}
      <3>1. Cardinality(Range(s)) = n /\ Range(s) \subseteq LiveIn(l)
        BY <1>1, <2>1, PathLength
      <3>2. Range(s) /= LiveIn(l)
        BY <1>1, <3>1
      <3> QED BY <3>1, <3>2
    <2>4. s \in Seq(LiveIn(l)) /\ (s = <<>> <=> n = 0)
      BY <2>1 DEF IsPath
    <2>5. c \in LiveIn(l)
      BY <1>1, <2>1, <2>3, <2>4, PathGoesOn
    <2>6. /\ Append(s, c) \in Seq(LiveIn(l)) /\ Len(Append(s, c)) = n + 1
          /\ \A i \in 1..n : Append(s, c)[i] = s[i]
          /\ Append(s, c)[n + 1] = c
      BY <2>1, <2>4, <2>5, AppendProperties
    <2>7. (IF n = 0 THEN c = l.top ELSE s[1] = l.top /\ l.elem[s[n]].next = c)
      BY <2>1, <2>4 DEF IsPath
    <2>8. \A i \in 1..n - 1 : l.elem[s[i]].next = s[i + 1]
      BY <2>1 DEF IsPath
    <2> DEFINE t == Append(s, c)
    <2>9. t \in Seq(LiveIn(l)) /\ t[1] = l.top
      BY <2>6, <2>7
    <2>10. ASSUME NEW i \in 1..n
           PROVE  l.elem[t[i]].next = t[i + 1]
      <3>1. CASE i = n
        BY <2>6, <2>7, <3>1
      <3>2. CASE i /= n
        <4>1. i \in 1..n - 1 /\ i + 1 \in 1..n
          BY <3>2
        <4> QED BY <2>6, <2>8, <4>1
      <3> QED BY <3>1, <3>2
    <2>11. Len(t) = n + 1
      BY <2>6
    <2> HIDE DEF t, c
    <2>12. IsPath(l, t)
      BY <2>9, <2>10, <2>11 DEF IsPath
    <2> QED BY <2>2, <2>11, <2>12 DEF t
  <1>6. S = Nat
    <2>1. S \in SUBSET Nat
      OBVIOUS
    <2> HIDE DEF S
    <2> QED BY <1>4, <1>5, <2>1, SetInduction
  <1>7. IsPath(l, WalkOf(l)) /\ Len(WalkOf(l)) = l.length
    BY <1>1, <1>2, <1>6
  <1>8. Range(WalkOf(l)) = LiveIn(l)
    BY <1>1, <1>7, PathLength, FS_Subset
  <1> QED BY <1>1, <1>7, <1>8, PathInjective DEF Represents

\* lsNext and lsPrev, lsDelBegin and lsDelEnd see one list, whoever inserted
\* or removed its elements at whatever spot: from the top the forward
\* pointers lead once to every element allocated for the list.
THEOREM ListStaysIntact == Spec => []ListIsIntact
  <1>1. Spec => []IInv
    BY InitInv, Inductive, PTL DEF Spec
  <1>2. IInv => ListIsIntact
    <2> SUFFICES ASSUME IInv  PROVE ListIsIntact
      OBVIOUS
    <2>1. ListInv(list)
      BY DEF IInv
    <2>2. Represents(list, Walk)
      BY <2>1, WalkRepresents, WalkIs
    <2> QED BY <2>1, <2>2 DEF ListIsIntact, Represents, ListInv, Sound, Counted, Live
  <1> QED BY <1>1, <1>2, PTL

-----------------------------------------------------------------------------
(* The items and the spots of LsApi.                                       *)

\* A sequence with one more item, and with one less.
WithItem(s, p, c) ==
    [i \in 1..Len(s) + 1 |-> IF i < p THEN s[i] ELSE IF i = p THEN c ELSE s[i - 1]]

WithoutItem(s, p) == [i \in 1..Len(s) - 1 |-> IF i < p THEN s[i] ELSE s[i + 1]]

LEMMA InsertAtIs ==
    ASSUME NEW S, NEW s \in Seq(S), NEW p \in 1..Len(s) + 1, NEW c \in S
    PROVE  InsertAt(s, p, c) = WithItem(s, p, c)
  <1> DEFINE left == SubSeq(s, 1, p - 1)
             right == SubSeq(s, p, Len(s))
  <1>1. Len(s) \in Nat /\ \A i \in 1..Len(s) : s[i] \in S
    BY ElementOfSeq
  <1>2. /\ left \in Seq(S) /\ Len(left) = p - 1
        /\ \A i \in 1..p - 1 : left[i] = s[i]
    <2>1. p - 1 \in Int /\ 1 \in Int /\ \A i \in 1..p - 1 : s[i] \in S
      BY <1>1
    <2>2. /\ left \in Seq(S)
          /\ Len(left) = IF 1 <= p - 1 THEN (p - 1) - 1 + 1 ELSE 0
          /\ \A i \in 1..(p - 1) - 1 + 1 : left[i] = s[1 + i - 1]
      BY <2>1, SubSeqProperties
    <2> HIDE DEF left
    <2>3. p \in Nat /\ p >= 1 /\ (p - 1) - 1 + 1 = p - 1
      BY <1>1
    <2>4. \A i \in 1..p - 1 : 1 + i - 1 = i
      BY <2>3
    <2> QED BY <2>2, <2>3, <2>4
  <1>3. /\ right \in Seq(S) /\ Len(right) = Len(s) - p + 1
        /\ \A i \in 1..Len(s) - p + 1 : right[i] = s[p + i - 1]
    <2>1. p \in Int /\ Len(s) \in Int /\ \A i \in p..Len(s) : s[i] \in S
      BY <1>1
    <2>2. /\ right \in Seq(S)
          /\ Len(right) = IF p <= Len(s) THEN Len(s) - p + 1 ELSE 0
          /\ \A i \in 1..Len(s) - p + 1 : right[i] = s[p + i - 1]
      BY <2>1, SubSeqProperties
    <2> HIDE DEF right
    <2> QED BY <1>1, <2>2
  <1>4. <<c>> \in Seq(S) /\ Len(<<c>>) = 1 /\ <<c>>[1] = c
    OBVIOUS
  <1> DEFINE leftc == left \o <<c>>
  <1> HIDE DEF left, right
  <1>5. /\ leftc \in Seq(S) /\ Len(leftc) = p
        /\ \A i \in 1..p : leftc[i] = IF i < p THEN s[i] ELSE c
    <2>1. /\ leftc \in Seq(S) /\ Len(leftc) = Len(left) + 1
          /\ \A i \in 1..Len(left) + 1 : leftc[i] = IF i <= Len(left) THEN left[i] ELSE <<c>>[i - Len(left)]
      BY <1>2, <1>4, ConcatProperties
    <2>2. Len(left) + 1 = p /\ \A i \in 1..p : (i <= Len(left) <=> i < p) /\ (~ i < p => i - Len(left) = 1)
      BY <1>1, <1>2
    <2> HIDE DEF leftc
    <2>3. ASSUME NEW i \in 1..p
          PROVE  leftc[i] = IF i < p THEN s[i] ELSE c
      <3>1. CASE i < p
        <4>1. i \in 1..p - 1
          BY <1>1, <3>1
        <4> QED BY <1>2, <2>1, <2>2, <3>1, <4>1
      <3>2. CASE ~ i < p
        BY <1>4, <2>1, <2>2, <3>2
      <3> QED BY <3>1, <3>2
    <2> QED BY <2>1, <2>2, <2>3
  <1> DEFINE t == leftc \o right
  <1>6. InsertAt(s, p, c) = t
    BY DEF InsertAt, left, right
  <1> HIDE DEF leftc
  <1>7. /\ t \in Seq(S) /\ Len(t) = Len(leftc) + Len(right)
        /\ \A i \in 1..Len(leftc) + Len(right) :
              t[i] = IF i <= Len(leftc) THEN leftc[i] ELSE right[i - Len(leftc)]
    BY <1>3, <1>5, ConcatProperties
  <1> HIDE DEF t
  <1>8. Len(t) = Len(s) + 1
    BY <1>1, <1>3, <1>5, <1>7
  <1>9. ASSUME NEW i \in 1..Len(s) + 1
        PROVE  t[i] = IF i < p THEN s[i] ELSE IF i = p THEN c ELSE s[i - 1]
    <2>1. i \in 1..Len(leftc) + Len(right)
      BY <1>7, <1>8
    <2>2. CASE i <= p
      <3>1. i \in 1..p
        BY <1>1, <2>2
      <3> QED BY <1>1, <1>5, <1>7, <2>1, <2>2, <3>1
    <2>3. CASE ~ i <= p
      <3>1. i - p \in 1..Len(s) - p + 1 /\ p + (i - p) - 1 = i - 1
        BY <1>1, <2>3
      <3>2. t[i] = right[i - p]
        BY <1>5, <1>7, <2>1, <2>3
      <3> QED BY <1>1, <1>3, <2>3, <3>1, <3>2
    <2> QED BY <2>2, <2>3
  <1>10. t = [i \in 1..Len(s) + 1 |-> t[i]]
    BY <1>7, <1>8, SMTT(60)
  <1> QED BY <1>6, <1>9, <1>10 DEF WithItem

LEMMA RemoveAtIs ==
    ASSUME NEW S, NEW s \in Seq(S), NEW p \in 1..Len(s)
    PROVE  RemoveAt(s, p) = WithoutItem(s, p)
  <1> DEFINE left == SubSeq(s, 1, p - 1)
             right == SubSeq(s, p + 1, Len(s))
             t == left \o right
  <1>1. Len(s) \in Nat /\ \A i \in 1..Len(s) : s[i] \in S
    BY ElementOfSeq
  <1>2. /\ left \in Seq(S) /\ Len(left) = p - 1
        /\ \A i \in 1..p - 1 : left[i] = s[i]
    <2>1. p - 1 \in Int /\ 1 \in Int /\ \A i \in 1..p - 1 : s[i] \in S
      BY <1>1
    <2>2. /\ left \in Seq(S)
          /\ Len(left) = IF 1 <= p - 1 THEN (p - 1) - 1 + 1 ELSE 0
          /\ \A i \in 1..(p - 1) - 1 + 1 : left[i] = s[1 + i - 1]
      BY <2>1, SubSeqProperties
    <2> HIDE DEF left
    <2>3. p \in Nat /\ p >= 1 /\ (p - 1) - 1 + 1 = p - 1
      BY <1>1
    <2>4. \A i \in 1..p - 1 : 1 + i - 1 = i
      BY <2>3
    <2> QED BY <2>2, <2>3, <2>4
  <1>3. /\ right \in Seq(S) /\ Len(right) = Len(s) - p
        /\ \A i \in 1..Len(s) - p : right[i] = s[p + i]
    <2>1. p + 1 \in Int /\ Len(s) \in Int /\ \A i \in p + 1..Len(s) : s[i] \in S
      BY <1>1
    <2>2. /\ right \in Seq(S)
          /\ Len(right) = IF p + 1 <= Len(s) THEN Len(s) - (p + 1) + 1 ELSE 0
          /\ \A i \in 1..Len(s) - (p + 1) + 1 : right[i] = s[(p + 1) + i - 1]
      BY <2>1, SubSeqProperties
    <2> HIDE DEF right
    <2>3. Len(s) - (p + 1) + 1 = Len(s) - p /\ \A i \in 1..Len(s) - p : (p + 1) + i - 1 = p + i
      BY <1>1
    <2>4. p \in Nat /\ (p + 1 <= Len(s) <=> p /= Len(s))
      BY <1>1
    <2>5. Len(right) = Len(s) - p
      <3>1. Len(right) = IF p + 1 <= Len(s) THEN Len(s) - p ELSE 0
        BY <2>2, <2>3
      <3>2. p /= Len(s) => Len(right) = Len(s) - p
        BY <2>4, <3>1
      <3>3. p = Len(s) => Len(right) = 0 /\ Len(s) - p = 0
        BY <2>4, <3>1, SMTT(60)
      <3> QED BY <3>2, <3>3
    <2>6. \A i \in 1..Len(s) - p : right[i] = s[p + i]
      BY <2>2, <2>3
    <2> QED BY <2>2, <2>5, <2>6
  <1>4. RemoveAt(s, p) = t
    BY DEF RemoveAt
  <1> HIDE DEF left, right
  <1>5. /\ t \in Seq(S) /\ Len(t) = Len(left) + Len(right)
        /\ \A i \in 1..Len(left) + Len(right) :
              t[i] = IF i <= Len(left) THEN left[i] ELSE right[i - Len(left)]
    BY <1>2, <1>3, ConcatProperties
  <1> HIDE DEF t
  <1>6. Len(t) = Len(s) - 1
    BY <1>1, <1>2, <1>3, <1>5
  <1>7. ASSUME NEW i \in 1..Len(s) - 1
        PROVE  t[i] = IF i < p THEN s[i] ELSE s[i + 1]
    <2>1. i \in 1..Len(left) + Len(right)
      BY <1>5, <1>6
    <2>2. CASE i < p
      <3>1. i \in 1..p - 1 /\ i <= Len(left)
        BY <1>1, <1>2, <2>2
      <3> QED BY <1>2, <1>5, <2>1, <2>2, <3>1
    <2>3. CASE ~ i < p
      <3>1. i - (p - 1) \in 1..Len(s) - p /\ p + (i - (p - 1)) = i + 1 /\ ~ i <= p - 1
        BY <1>1, <2>3
      <3>2. t[i] = right[i - (p - 1)]
        BY <1>2, <1>5, <2>1, <3>1
      <3> QED BY <1>3, <2>3, <3>1, <3>2
    <2> QED BY <2>2, <2>3
  <1>8. t = [i \in 1..Len(s) - 1 |-> t[i]]
    BY <1>5, <1>6
  <1> QED BY <1>4, <1>7, <1>8 DEF WithoutItem

-----------------------------------------------------------------------------
\* Where a path leads is settled by its length.
LEMMA PathsAgree ==
    ASSUME NEW l, NEW s, NEW t, IsPath(l, s), IsPath(l, t), Len(s) = Len(t)
    PROVE  s = t
  <1>1. s \in Seq(LiveIn(l)) /\ t \in Seq(LiveIn(l)) /\ Len(s) \in Nat
    BY DEF IsPath
  <1> DEFINE S == {n \in Nat : n + 1 \in 1..Len(s) => s[n + 1] = t[n + 1]}
  <1>2. 0 \in S
    <2>1. ASSUME 1 \in 1..Len(s)  PROVE s[1] = t[1]
      <3>1. s /= <<>> /\ t /= <<>>
        BY <1>1, <2>1, EmptySeq
      <3> QED BY <3>1 DEF IsPath
    <2> QED BY <2>1
  <1>3. ASSUME NEW n \in S
        PROVE  n + 1 \in S
    <2>1. ASSUME (n + 1) + 1 \in 1..Len(s)
          PROVE  s[(n + 1) + 1] = t[(n + 1) + 1]
      <3>1. n + 1 \in 1..Len(s) - 1 /\ n + 1 \in 1..Len(s)
        BY <1>1, <2>1
      <3>2. s[n + 1] = t[n + 1]
        BY <3>1
      <3> QED BY <3>1, <3>2 DEF IsPath
    <2> QED BY <2>1
  <1>4. S = Nat
    <2>1. S \in SUBSET Nat
      OBVIOUS
    <2> HIDE DEF S
    <2> QED BY <1>2, <1>3, <2>1, SetInduction
  <1>5. ASSUME NEW i \in 1..Len(s)
        PROVE  s[i] = t[i]
    <2> DEFINE n == i - 1
    <2>1. n \in Nat /\ n + 1 = i
      <3>1. i \in Nat /\ i >= 1
        BY <1>1
      <3> QED BY <3>1
    <2> HIDE DEF n
    <2>2. s[n + 1] = t[n + 1]
      BY <1>4, <2>1
    <2> QED BY <2>1, <2>2
  <1> QED BY <1>1, <1>5, SeqEqual

LEMMA OnlyWalk ==
    ASSUME NEW l, ListInv(l), NEW s, IsPath(l, s), Len(s) = l.length
    PROVE  s = WalkOf(l)
  <1>1. Represents(l, WalkOf(l))
    BY WalkRepresents
  <1> QED BY <1>1, PathsAgree DEF Represents

\* The pointers of the elements along a walk.
IsAlong(l, w) ==
    /\ w \in Seq(LiveIn(l)) /\ Len(w) = l.length /\ Len(w) \in Nat /\ DOMAIN w = 1..Len(w)
    /\ \A i \in 1..Len(w) : w[i] \in LiveIn(l)
    /\ \A c \in LiveIn(l) : \E i \in 1..Len(w) : w[i] = c
    /\ \A i, j \in 1..Len(w) : w[i] = w[j] => i = j
    /\ l.top = IF Len(w) = 0 THEN NIL ELSE w[1]
    /\ l.bot = IF Len(w) = 0 THEN NIL ELSE w[Len(w)]
    /\ \A i \in 1..Len(w) :
        /\ l.elem[w[i]].prev = IF i = 1 THEN NIL ELSE w[i - 1]
        /\ l.elem[w[i]].next = IF i = Len(w) THEN NIL ELSE w[i + 1]

LEMMA AlongWalk ==
    ASSUME NEW l, ListInv(l), NEW w, w = WalkOf(l)
    PROVE  IsAlong(l, w)
  <1>1. IsPath(l, w) /\ Len(w) = l.length /\ Range(w) = LiveIn(l) /\ IsInjective(w)
    BY WalkRepresents DEF Represents
  <1>2. w \in Seq(LiveIn(l)) /\ Len(w) \in Nat /\ DOMAIN w = 1..Len(w)
    BY <1>1 DEF IsPath
  <1>3. Linked(l) /\ NIL \notin LiveIn(l)
    BY NILAssumption DEF ListInv, Sound, LiveIn
  <1>4. /\ \A i \in 1..Len(w) : w[i] \in LiveIn(l)
        /\ \A c \in LiveIn(l) : \E i \in 1..Len(w) : w[i] = c
    <2>1. \A i \in 1..Len(w) : w[i] \in LiveIn(l)
      BY <1>2, ElementOfSeq
    <2>2. \A c \in LiveIn(l) : \E i \in 1..Len(w) : w[i] = c
      BY <1>1, <1>2 DEF Range
    <2> QED BY <2>1, <2>2
  <1>5. \A i, j \in 1..Len(w) : w[i] = w[j] => i = j
    BY <1>1, <1>2 DEF IsInjective
  <1>6. Len(w) = 0 => LiveIn(l) = {}
    BY <1>4
  <1>7. l.top = IF Len(w) = 0 THEN NIL ELSE w[1]
    <2>1. CASE Len(w) = 0
      BY <1>3, <1>6, <2>1 DEF Linked
    <2>2. CASE Len(w) /= 0
      <3>1. w /= <<>>
        BY <1>2, <2>2, EmptySeq
      <3> QED BY <1>1, <2>2, <3>1 DEF IsPath
    <2> QED BY <2>1, <2>2
  <1>8. \A i \in 1..Len(w) - 1 : l.elem[w[i]].next = w[i + 1]
    BY <1>1 DEF IsPath
  <1>9. ASSUME NEW i \in 1..Len(w)
        PROVE  l.elem[w[i]].prev = IF i = 1 THEN NIL ELSE w[i - 1]
    <2>1. CASE i = 1
      <3>1. w[i] = l.top
        BY <1>2, <1>7, <2>1
      <3> QED BY <1>3, <1>4, <2>1, <3>1 DEF Linked
    <2>2. CASE i /= 1
      <3>1. i - 1 \in 1..Len(w) - 1 /\ i - 1 \in 1..Len(w) /\ (i - 1) + 1 = i
        BY <1>2, <2>2
      <3>2. l.elem[w[i - 1]].next = w[i] /\ w[i - 1] \in LiveIn(l) /\ w[i] /= NIL
        BY <1>3, <1>4, <1>8, <3>1
      <3>3. l.elem[w[i]].prev = w[i - 1]
        BY <1>3, <3>2 DEF Linked
      <3> QED BY <2>2, <3>3
    <2> QED BY <2>1, <2>2
  <1>10. ASSUME NEW i \in 1..Len(w)
         PROVE  l.elem[w[i]].next = IF i = Len(w) THEN NIL ELSE w[i + 1]
    <2>1. CASE i = Len(w)
      <3> SUFFICES ASSUME l.elem[w[i]].next /= NIL  PROVE FALSE
        BY <2>1
      <3> DEFINE c == l.elem[w[i]].next
      <3>1. c \in LiveIn(l) /\ l.elem[c].prev = w[i]
        BY <1>3, <1>4 DEF Linked
      <3>2. PICK j \in 1..Len(w) : w[j] = c
        BY <1>4, <3>1
      <3>3. w[i] = IF j = 1 THEN NIL ELSE w[j - 1]
        BY <1>9, <3>1, <3>2
      <3>4. j /= 1
        BY <1>3, <1>4, <3>3
      <3>5. j - 1 \in 1..Len(w) /\ j - 1 /= Len(w)
        BY <1>2, <3>4
      <3> QED BY <1>5, <2>1, <3>3, <3>4, <3>5
    <2>2. CASE i /= Len(w)
      <3>1. i \in 1..Len(w) - 1
        <4>1. Len(w) \in Nat
          BY <1>2
        <4> QED BY <2>2, <4>1
      <3> QED BY <1>8, <2>2, <3>1
    <2> QED BY <2>1, <2>2
  <1>11. l.bot = IF Len(w) = 0 THEN NIL ELSE w[Len(w)]
    <2>1. CASE Len(w) = 0
      BY <1>3, <1>6, <2>1 DEF Linked
    <2>2. CASE Len(w) /= 0
      <3>1. Len(w) \in 1..Len(w)
        BY <1>2, <2>2
      <3>2. w[Len(w)] \in LiveIn(l) /\ l.elem[w[Len(w)]].next = NIL
        BY <1>4, <1>10, <3>1
      <3> QED BY <1>3, <2>2, <3>2 DEF Linked
    <2> QED BY <2>1, <2>2
  <1> QED BY <1>1, <1>2, <1>4, <1>5, <1>7, <1>9, <1>10, <1>11 DEF IsAlong

\* The walk of a list with one more element, and with one less.
LEMMA SplicedWalk ==
    ASSUME NEW l, ListInv(l), NEW c \in Cell \ LiveIn(l), NEW d \in Data,
           NEW w, w = WalkOf(l), NEW p \in 1..Len(w) + 1,
           NEW before, before = IF p = 1 THEN NIL ELSE w[p - 1],
           NEW after, after = IF p = Len(w) + 1 THEN NIL ELSE w[p],
           NEW m, m = Splice(l, c, d, before, after)
    PROVE  /\ Neighbours(l, before, after)
           /\ ListInv(m) /\ IsInserted(m, l, c, before, after)
           /\ \A x \in LiveIn(m) : m.elem[x].data = IF x = c THEN d ELSE l.elem[x].data
           /\ WalkOf(m) = WithItem(w, p, c)
  <1>0. IsAlong(l, w)
    BY AlongWalk
  <1>1. /\ w \in Seq(LiveIn(l)) /\ Len(w) = l.length /\ Len(w) \in Nat /\ DOMAIN w = 1..Len(w)
        /\ \A i \in 1..Len(w) : w[i] \in LiveIn(l)
        /\ \A i, j \in 1..Len(w) : w[i] = w[j] => i = j
        /\ l.top = IF Len(w) = 0 THEN NIL ELSE w[1]
        /\ l.bot = IF Len(w) = 0 THEN NIL ELSE w[Len(w)]
        /\ \A i \in 1..Len(w) :
             /\ l.elem[w[i]].prev = IF i = 1 THEN NIL ELSE w[i - 1]
             /\ l.elem[w[i]].next = IF i = Len(w) THEN NIL ELSE w[i + 1]
    BY <1>0 DEF IsAlong
  <1>2. Sound(l) /\ NIL \notin LiveIn(l) /\ c \notin LiveIn(l) /\ p \in Nat /\ p >= 1 /\ p <= Len(w) + 1
    BY <1>1, NILAssumption DEF ListInv, LiveIn
  <1>3. (p /= 1 => p - 1 \in 1..Len(w)) /\ (p /= Len(w) + 1 => p \in 1..Len(w))
    BY <1>1, <1>2
  <1>4. Neighbours(l, before, after)
    <2>1. {before, after} \subseteq LiveIn(l) \union {NIL}
      BY <1>1, <1>3
    <2>2. IF before = NIL THEN after = l.top ELSE l.elem[before].next = after
      <3>1. CASE p = 1
        BY <1>1, <3>1
      <3>2. CASE p /= 1
        <4>1. before = w[p - 1] /\ before /= NIL /\ (p - 1) + 1 = p
          BY <1>1, <1>2, <1>3, <3>2
        <4>2. l.elem[w[p - 1]].next = IF p - 1 = Len(w) THEN NIL ELSE w[p]
          BY <1>1, <1>3, <3>2, <4>1
        <4> QED BY <1>1, <1>2, <4>1, <4>2
      <3> QED BY <3>1, <3>2
    <2>3. IF after = NIL THEN before = l.bot ELSE l.elem[after].prev = before
      <3>1. CASE p = Len(w) + 1
        BY <1>1, <3>1
      <3>2. CASE p /= Len(w) + 1
        <4>1. after = w[p] /\ after /= NIL
          BY <1>1, <1>2, <1>3, <3>2
        <4> QED BY <1>1, <1>3, <3>2, <4>1
      <3> QED BY <3>1, <3>2
    <2> QED BY <2>1, <2>2, <2>3 DEF Neighbours
  <1>5. /\ Sound(m) /\ IsInserted(m, l, c, before, after)
        /\ \A x \in LiveIn(m) : m.elem[x].data = IF x = c THEN d ELSE l.elem[x].data
    BY <1>2, <1>4, Spliced
  <1>6. ListInv(m) /\ m.length = Len(w) + 1
    BY <1>1, <1>4, Insertion DEF Splice
  <1> DEFINE t == WithItem(w, p, c)
  <1>7. /\ t = [i \in 1..Len(w) + 1 |-> t[i]]
        /\ \A i \in 1..Len(w) + 1 : t[i] = IF i < p THEN w[i] ELSE IF i = p THEN c ELSE w[i - 1]
    BY DEF WithItem
  <1> HIDE DEF t
  <1>8. ASSUME NEW i \in 1..Len(w) + 1
        PROVE  /\ t[i] \in LiveIn(m)
               /\ i < p => i \in 1..Len(w) /\ t[i] = w[i]
               /\ i > p => i - 1 \in 1..Len(w) /\ t[i] = w[i - 1]
               /\ t[p] = c
    <2>1. i \in Nat /\ i >= 1 /\ i <= Len(w) + 1 /\ p \in 1..Len(w) + 1
      BY <1>1
    <2>2. (i < p => i \in 1..Len(w)) /\ (i > p => i - 1 \in 1..Len(w))
      BY <1>1, <1>2, <2>1
    <2>3. /\ i < p => t[i] = w[i]
          /\ i > p => t[i] = w[i - 1]
          /\ t[p] = c
      BY <1>2, <1>7, <2>1
    <2>4. t[i] \in LiveIn(l) \union {c}
      <3>1. i < p \/ i > p \/ i = p
        BY <1>2, <2>1
      <3> QED BY <1>1, <2>2, <2>3, <3>1
    <2> QED BY <1>5, <2>2, <2>3, <2>4 DEF IsInserted
  <1>9. t \in Seq(LiveIn(m)) /\ Len(t) = Len(w) + 1
    <2>1. t \in [1..Len(w) + 1 -> LiveIn(m)]
      BY <1>7, <1>8
    <2> QED BY <1>1, <2>1, SMTT(60)
  <1>10. t[1] = m.top
    <2>1. 1 \in 1..Len(w) + 1
      BY <1>1
    <2>2. CASE p = 1
      BY <1>5, <1>7, <2>1, <2>2 DEF IsInserted
    <2>3. CASE p /= 1
      <3>1. 1 < p /\ before /= NIL /\ Len(w) /= 0
        BY <1>1, <1>2, <1>3, <2>3
      <3> QED BY <1>1, <1>5, <1>8, <2>1, <3>1 DEF IsInserted
    <2> QED BY <2>2, <2>3
  <1>11. ASSUME NEW i \in 1..Len(w)
         PROVE  m.elem[t[i]].next = t[i + 1]
    <2>1. /\ i \in 1..Len(w) + 1 /\ i + 1 \in 1..Len(w) + 1 /\ (i + 1) - 1 = i
          /\ t[i] \in LiveIn(m)
      BY <1>1, <1>8
    <2>2. m.elem[t[i]].next = IF t[i] = c THEN after ELSE IF t[i] = before THEN c ELSE l.elem[t[i]].next
      BY <1>5, <2>1 DEF IsInserted
    <2>3. CASE i = p
      <3>1. t[i] = c /\ i + 1 > p /\ p /= Len(w) + 1
        BY <1>1, <1>2, <1>8, <2>1, <2>3
      <3>2. t[i + 1] = w[i] /\ after = w[p]
        BY <1>8, <2>1, <3>1
      <3> QED BY <2>2, <2>3, <3>1, <3>2
    <2>4. CASE i > p
      <3>1. i - 1 \in 1..Len(w) /\ t[i] = w[i - 1] /\ i + 1 > p
        BY <1>2, <1>8, <2>1, <2>4
      <3>2. t[i + 1] = w[i]
        BY <1>8, <2>1, <3>1
      <3>3. t[i] /= c
        BY <1>1, <1>2, <3>1
      <3>4. t[i] /= before
        <4>1. CASE p = 1
          BY <1>1, <1>2, <3>1, <4>1
        <4>2. CASE p /= 1
          <5>1. i - 1 /= p - 1
            BY <1>2, <2>4
          <5> QED BY <1>1, <1>3, <3>1, <4>2, <5>1
        <4> QED BY <4>1, <4>2
      <3>5. l.elem[t[i]].next = w[i]
        <4>1. i - 1 /= Len(w) /\ (i - 1) + 1 = i
          BY <1>1
        <4> QED BY <1>1, <3>1, <4>1
      <3> QED BY <2>2, <3>2, <3>3, <3>4, <3>5
    <2>5. CASE i < p
      <3>1. t[i] = w[i] /\ t[i] /= c
        BY <1>1, <1>2, <1>8, <2>1, <2>5
      <3>2. CASE i = p - 1
        <4>1. t[i] = before /\ i + 1 = p
          BY <1>2, <2>5, <3>1, <3>2
        <4> QED BY <1>8, <2>1, <2>2, <3>1, <4>1
      <3>3. CASE i /= p - 1
        <4>1. i + 1 < p /\ p - 1 \in 1..Len(w) /\ i /= Len(w) /\ p /= 1
          BY <1>1, <1>2, <2>5, <3>3
        <4>2. t[i] /= before
          BY <1>1, <3>1, <3>3, <4>1
        <4>3. t[i + 1] = w[i + 1]
          BY <1>8, <2>1, <4>1
        <4>4. l.elem[w[i]].next = w[i + 1]
          BY <1>1, <4>1
        <4> QED BY <2>2, <3>1, <4>2, <4>3, <4>4
      <3> QED BY <3>2, <3>3
    <2> QED BY <1>2, <2>3, <2>4, <2>5
  <1>12. IsPath(m, t)
    <2>1. Len(t) - 1 = Len(w)
      BY <1>1, <1>9
    <2> QED BY <1>9, <1>10, <1>11, <2>1 DEF IsPath
  <1>13. t = WalkOf(m)
    BY <1>6, <1>9, <1>12, OnlyWalk
  <1> QED BY <1>4, <1>5, <1>6, <1>13 DEF t

LEMMA ExcisedWalk ==
    ASSUME NEW l, ListInv(l), NEW w, w = WalkOf(l), NEW p \in 1..Len(w),
           NEW m, m = Excise(l, w[p])
    PROVE  /\ ListInv(m) /\ LiveIn(m) = LiveIn(l) \ {w[p]}
           /\ \A x \in LiveIn(m) : m.elem[x].data = l.elem[x].data
           /\ WalkOf(m) = WithoutItem(w, p)
  <1> DEFINE c == w[p]
  <1>0. IsAlong(l, w)
    BY AlongWalk
  <1>1. /\ w \in Seq(LiveIn(l)) /\ Len(w) = l.length /\ Len(w) \in Nat /\ DOMAIN w = 1..Len(w)
        /\ \A i \in 1..Len(w) : w[i] \in LiveIn(l)
        /\ \A i, j \in 1..Len(w) : w[i] = w[j] => i = j
        /\ l.top = IF Len(w) = 0 THEN NIL ELSE w[1]
        /\ \A i \in 1..Len(w) :
             /\ l.elem[w[i]].prev = IF i = 1 THEN NIL ELSE w[i - 1]
             /\ l.elem[w[i]].next = IF i = Len(w) THEN NIL ELSE w[i + 1]
    BY <1>0 DEF IsAlong
  <1>2. Sound(l) /\ NIL \notin LiveIn(l) /\ c \in LiveIn(l) /\ p \in Nat /\ p >= 1 /\ p <= Len(w)
    BY <1>1, NILAssumption DEF ListInv, LiveIn
  <1>3. /\ Sound(m) /\ IsRemoved(m, l, c)
        /\ \A x \in LiveIn(m) : m.elem[x].data = l.elem[x].data
    BY <1>2, Unspliced, SMTT(60)
  <1>4. ListInv(m) /\ m.length = Len(w) - 1
    BY <1>1, <1>2, Removal, Zenon DEF Excise
  <1> DEFINE t == WithoutItem(w, p)
  <1>5. /\ t = [i \in 1..Len(w) - 1 |-> t[i]]
        /\ \A i \in 1..Len(w) - 1 : t[i] = IF i < p THEN w[i] ELSE w[i + 1]
    BY DEF WithoutItem
  <1> HIDE DEF t
  <1>6. ASSUME NEW i \in 1..Len(w) - 1
        PROVE  /\ t[i] \in LiveIn(m)
               /\ i \in 1..Len(w) /\ i + 1 \in 1..Len(w)
               /\ i < p => t[i] = w[i]
               /\ i >= p => t[i] = w[i + 1]
    <2>1. i \in 1..Len(w) /\ i + 1 \in 1..Len(w) /\ i \in Nat
      BY <1>1
    <2>2. (i < p => t[i] = w[i] /\ i /= p) /\ (i >= p => t[i] = w[i + 1] /\ i + 1 /= p)
      BY <1>2, <1>5, <2>1
    <2>3. t[i] \in LiveIn(l) /\ t[i] /= c
      BY <1>1, <1>2, <2>1, <2>2
    <2> QED BY <1>3, <2>1, <2>2, <2>3 DEF IsRemoved
  <1>7. t \in Seq(LiveIn(m)) /\ Len(t) = Len(w) - 1
    <2>1. t \in [1..Len(w) - 1 -> LiveIn(m)]
      BY <1>5, <1>6
    <2> QED BY <1>1, <1>2, <2>1
  <1>8. t /= <<>> => t[1] = m.top
    <2> SUFFICES ASSUME t /= <<>>  PROVE t[1] = m.top
      OBVIOUS
    <2>1. 1 \in 1..Len(w) - 1
      <3>1. Len(t) \in Nat \ {0}
        BY <1>7, EmptySeq
      <3> QED BY <1>1, <1>7, <3>1
    <2>2. m.top = IF c = w[1] THEN l.elem[c].next ELSE w[1]
      BY <1>1, <1>2, <1>3 DEF IsRemoved
    <2>3. CASE p = 1
      <3>1. t[1] = w[2] /\ 1 /= Len(w)
        BY <1>6, <2>1, <2>3
      <3>2. l.elem[w[1]].next = w[2]
        <4>1. 1 \in 1..Len(w) /\ 1 + 1 = 2
          BY <1>6, <2>1
        <4> QED BY <1>1, <3>1, <4>1
      <3> QED BY <2>2, <2>3, <3>1, <3>2
    <2>4. CASE p /= 1
      <3>1. 1 < p /\ 1 \in 1..Len(w)
        BY <1>2, <1>6, <2>1, <2>4
      <3>2. t[1] = w[1] /\ c /= w[1]
        BY <1>1, <1>6, <2>1, <2>4, <3>1
      <3> QED BY <2>2, <3>2
    <2> QED BY <2>3, <2>4
  <1>9. ASSUME NEW i \in 1..(Len(w) - 1) - 1
        PROVE  m.elem[t[i]].next = t[i + 1]
    <2>1. /\ i \in 1..Len(w) - 1 /\ i + 1 \in 1..Len(w) - 1 /\ (i + 1) + 1 = i + 2 /\ i \in Nat
          /\ i \in 1..Len(w) /\ i + 1 \in 1..Len(w) /\ i + 2 \in 1..Len(w)
          /\ i /= Len(w) /\ i + 1 /= Len(w)
      BY <1>1
    <2>2. /\ t[i] \in LiveIn(m)
          /\ m.elem[t[i]].next = IF t[i] = l.elem[c].prev THEN l.elem[c].next ELSE l.elem[t[i]].next
      BY <1>3, <1>6, <2>1 DEF IsRemoved
    <2>3. l.elem[c].prev = IF p = 1 THEN NIL ELSE w[p - 1]
      BY <1>1
    <2>4. t[i] \in LiveIn(l) /\ t[i] /= NIL
      BY <1>2, <1>3, <2>2 DEF IsRemoved
    <2>5. l.elem[w[i]].next = w[i + 1] /\ l.elem[w[i + 1]].next = w[i + 2]
      BY <1>1, <2>1
    <2>6. CASE i + 1 = p
      <3>1. i < p /\ i + 1 >= p /\ p /= 1 /\ p - 1 = i
        BY <2>1, <2>6
      <3>2. t[i] = w[i] /\ t[i + 1] = w[i + 2]
        BY <1>6, <2>1, <3>1
      <3>3. m.elem[t[i]].next = l.elem[c].next
        BY <2>2, <2>3, <3>1, <3>2
      <3> QED BY <2>5, <2>6, <3>2, <3>3
    <2>7. CASE i + 1 < p
      <3>1. i < p /\ p /= 1 /\ p - 1 \in 1..Len(w) /\ p - 1 /= i
        BY <1>2, <2>1, <2>7
      <3>2. t[i] = w[i] /\ t[i + 1] = w[i + 1]
        BY <1>6, <2>1, <2>7, <3>1
      <3>3. t[i] /= l.elem[c].prev
        BY <1>1, <2>1, <2>3, <3>1, <3>2
      <3> QED BY <2>2, <2>5, <3>2, <3>3
    <2>8. CASE i >= p
      <3>1. i + 1 >= p /\ i + 1 /= p - 1 /\ (p /= 1 => p - 1 \in 1..Len(w))
        BY <1>2, <2>1, <2>8
      <3>2. t[i] = w[i + 1] /\ t[i + 1] = w[i + 2]
        BY <1>6, <2>1, <2>8, <3>1
      <3>3. t[i] /= l.elem[c].prev
        BY <1>1, <2>1, <2>3, <2>4, <3>1, <3>2
      <3> QED BY <2>2, <2>5, <3>2, <3>3
    <2> QED BY <1>2, <2>1, <2>6, <2>7, <2>8
  <1>10. IsPath(m, t)
    BY <1>7, <1>8, <1>9 DEF IsPath
  <1>11. t = WalkOf(m)
    BY <1>4, <1>7, <1>10, OnlyWalk
  <1> QED BY <1>3, <1>4, <1>11 DEF t, IsRemoved

-----------------------------------------------------------------------------
\* The elements on either side of the k-th spot of a walk.
BeforeAt(w, k) == IF k = 0 THEN NIL ELSE w[k]

AfterAt(w, k) == IF k = Len(w) THEN NIL ELSE w[k + 1]

PlaceOf(w, c) == SelectInSeq(w, LAMBDA x : x = c)

\* The items of a list, and where in it a generator is.
ItemsIn(l) == [i \in DOMAIN WalkOf(l) |-> l.elem[WalkOf(l)[i]].data]

SpotIn(l, s) ==
    IF s = NIL THEN NIL ELSE IF s.after = NIL THEN l.length ELSE PlaceOf(WalkOf(l), s.after) - 1

LEMMA Mapped ==
    /\ Items = ItemsIn(list) /\ Items' = ItemsIn(list')
    /\ [g \in Gen |-> SpotOf(g)] = [g \in Gen |-> SpotIn(list, gen[g])]
    /\ [g \in Gen |-> SpotOf(g)]' = [g \in Gen |-> SpotIn(list', gen'[g])]
  <1>1. Items = ItemsIn(list) /\ Items' = ItemsIn(list')
    BY WalkIs DEF Items, ItemsIn
  <1>2. ASSUME NEW g \in Gen
        PROVE  SpotOf(g) = SpotIn(list, gen[g]) /\ SpotOf(g)' = SpotIn(list', gen'[g])
    <2>1. SpotOf(g) = SpotIn(list, gen[g])
      BY WalkIs DEF SpotOf, SpotIn, PlaceOf, IsOpen, SelectInSeq
    <2>2. SpotOf(g)' = SpotIn(list', gen'[g])
      BY WalkIs DEF SpotOf, SpotIn, PlaceOf, IsOpen, SelectInSeq
    <2> QED BY <2>1, <2>2
  <1> QED BY <1>1, <1>2

LEMMA PlaceIs ==
    ASSUME NEW w, Len(w) \in Nat, \A i, j \in 1..Len(w) : w[i] = w[j] => i = j,
           NEW k \in 1..Len(w)
    PROVE  PlaceOf(w, w[k]) = k
  <1> DEFINE I == {i \in 1..Len(w) : w[i] = w[k]}
  <1>1. I = {k}
    OBVIOUS
  <1>2. PlaceOf(w, w[k]) = Min(I)
    BY <1>1 DEF PlaceOf, SelectInSeq
  <1> HIDE DEF I
  <1>3. k \in Int /\ k <= k
    OBVIOUS
  <1>4. Min(I) = k
    BY <1>1, <1>3 DEF Min
  <1> QED BY <1>2, <1>4

\* A generator is at the spot that is before its next element.
LEMMA SpotIs ==
    ASSUME NEW l, ListInv(l), NEW w, w = WalkOf(l), NEW s, s /= NIL,
           NEW k \in 0..Len(w), s.after = AfterAt(w, k)
    PROVE  SpotIn(l, s) = k
  <1>0. IsAlong(l, w)
    BY AlongWalk
  <1>1. /\ Len(w) = l.length /\ Len(w) \in Nat
        /\ \A i \in 1..Len(w) : w[i] \in LiveIn(l)
        /\ \A i, j \in 1..Len(w) : w[i] = w[j] => i = j
    BY <1>0 DEF IsAlong
  <1>2. NIL \notin LiveIn(l)
    BY NILAssumption DEF LiveIn
  <1>3. CASE k = Len(w)
    BY <1>1, <1>3 DEF AfterAt, SpotIn
  <1>4. CASE k /= Len(w)
    <2>1. k + 1 \in 1..Len(w) /\ (k + 1) - 1 = k
      BY <1>1, <1>4
    <2>2. s.after = w[k + 1] /\ s.after /= NIL
      BY <1>1, <1>2, <1>4, <2>1 DEF AfterAt
    <2>3. PlaceOf(w, s.after) = k + 1
      BY <1>1, <2>1, <2>2, PlaceIs
    <2> QED BY <2>1, <2>2, <2>3 DEF SpotIn
  <1> QED BY <1>3, <1>4

LEMMA SpotSomewhere ==
    ASSUME NEW l, ListInv(l), NEW w, w = WalkOf(l), NEW after \in LiveIn(l) \union {NIL}
    PROVE  \E k \in 0..Len(w) : after = AfterAt(w, k)
  <1>0. IsAlong(l, w)
    BY AlongWalk
  <1>1. /\ Len(w) \in Nat
        /\ \A c \in LiveIn(l) : \E i \in 1..Len(w) : w[i] = c
    BY <1>0 DEF IsAlong
  <1>2. CASE after = NIL
    <2>1. Len(w) \in 0..Len(w)
      BY <1>1
    <2> QED BY <1>2, <2>1 DEF AfterAt
  <1>3. CASE after \in LiveIn(l)
    <2>1. PICK i \in 1..Len(w) : w[i] = after
      BY <1>1, <1>3
    <2>2. i - 1 \in 0..Len(w) /\ i - 1 /= Len(w) /\ (i - 1) + 1 = i
      BY <1>1
    <2> QED BY <2>1, <2>2 DEF AfterAt
  <1> QED BY <1>2, <1>3

LEMMA ItemsAre ==
    ASSUME NEW l, ListInv(l), NEW w, w = WalkOf(l)
    PROVE  /\ ItemsIn(l) = [i \in 1..Len(w) |-> l.elem[w[i]].data]
           /\ ItemsIn(l) \in Seq(Data) /\ Len(ItemsIn(l)) = Len(w) /\ DOMAIN ItemsIn(l) = 1..Len(w)
  <1>1. Len(w) \in Nat /\ DOMAIN w = 1..Len(w) /\ \A i \in 1..Len(w) : w[i] \in LiveIn(l)
    BY AlongWalk DEF IsAlong
  <1>2. ListType(l)
    BY DEF ListInv, Sound
  <1>3. \A i \in 1..Len(w) : l.elem[w[i]].data \in Data
    BY <1>1, <1>2, LiveHolds DEF Elements
  <1>4. ItemsIn(l) = [i \in 1..Len(w) |-> l.elem[w[i]].data]
    BY <1>1 DEF ItemsIn
  <1>5. ItemsIn(l) \in [1..Len(w) -> Data]
    BY <1>3, <1>4
  <1> QED BY <1>1, <1>4, <1>5

-----------------------------------------------------------------------------
\* An insertion into the list is one into the items, and moves the spots as
\* LsApi says.
LEMMA SplicedApi ==
    ASSUME NEW l, ListInv(l), NEW c \in Cell \ LiveIn(l), NEW d \in Data,
           NEW w, w = WalkOf(l), NEW p \in 1..Len(w) + 1,
           NEW m, m = Splice(l, c, d, BeforeAt(w, p - 1), AfterAt(w, p - 1))
    PROVE  /\ ItemsIn(m) = InsertAt(ItemsIn(l), p, d)
           /\ \A s : s /= NIL /\ s.after = c => SpotIn(m, s) = p - 1
           /\ \A s, r : s /= NIL /\ r /= NIL /\ s.after = r.after /\ s.after \in LiveIn(l) \union {NIL}
                => SpotIn(m, r) = IF SpotIn(l, s) >= p - 1 THEN SpotIn(l, s) + 1 ELSE SpotIn(l, s)
  <1> DEFINE before == BeforeAt(w, p - 1)
             after == AfterAt(w, p - 1)
             t == WithItem(w, p, c)
  <1>0. IsAlong(l, w)
    BY AlongWalk
  <1>1. /\ w \in Seq(LiveIn(l)) /\ Len(w) \in Nat /\ \A i \in 1..Len(w) : w[i] \in LiveIn(l)
        /\ p \in Nat /\ p >= 1 /\ p <= Len(w) + 1
    BY <1>0 DEF IsAlong
  <1>2. /\ before = IF p = 1 THEN NIL ELSE w[p - 1]
        /\ after = IF p = Len(w) + 1 THEN NIL ELSE w[p]
    BY <1>1 DEF BeforeAt, AfterAt
  <1> HIDE DEF before, after
  <1>3. /\ ListInv(m) /\ IsInserted(m, l, c, before, after)
        /\ \A x \in LiveIn(m) : m.elem[x].data = IF x = c THEN d ELSE l.elem[x].data
        /\ WalkOf(m) = t
    BY <1>2, SplicedWalk, SMTT(60) DEF before, after
  <1>4. /\ t = [i \in 1..Len(w) + 1 |-> t[i]]
        /\ \A i \in 1..Len(w) + 1 : t[i] = IF i < p THEN w[i] ELSE IF i = p THEN c ELSE w[i - 1]
    BY DEF WithItem
  <1> HIDE DEF t
  <1>5. Len(t) = Len(w) + 1
    BY <1>1, <1>4
  <1>6. ItemsIn(m) = InsertAt(ItemsIn(l), p, d)
    <2> DEFINE items == ItemsIn(l)
    <2>1. items = [i \in 1..Len(w) |-> l.elem[w[i]].data] /\ items \in Seq(Data) /\ Len(items) = Len(w)
      BY ItemsAre
    <2>2. ItemsIn(m) = [i \in 1..Len(w) + 1 |-> m.elem[t[i]].data]
      BY <1>3, <1>5, ItemsAre
    <2> HIDE DEF items
    <2>3. InsertAt(items, p, d) = WithItem(items, p, d)
      <3>1. items \in Seq(Data) /\ p \in 1..Len(items) + 1
        BY <2>1
      <3> QED BY <3>1, InsertAtIs
    <2>4. ASSUME NEW i \in 1..Len(w) + 1
          PROVE  m.elem[t[i]].data = IF i < p THEN items[i] ELSE IF i = p THEN d ELSE items[i - 1]
      <3>1. i \in Nat /\ i >= 1 /\ i <= Len(w) + 1
        BY <1>1
      <3>2. CASE i = p
        <4>1. t[i] = c /\ c \in LiveIn(m)
          BY <1>1, <1>3, <1>4, <3>2 DEF IsInserted
        <4> QED BY <1>1, <1>3, <3>2, <4>1
      <3>3. CASE i < p
        <4>1. i \in 1..Len(w)
          BY <1>1, <3>1, <3>3
        <4>2. t[i] = w[i] /\ w[i] \in LiveIn(l)
          BY <1>1, <1>4, <3>3, <4>1
        <4>3. t[i] \in LiveIn(m) /\ t[i] /= c
          BY <1>3, <4>2 DEF IsInserted
        <4> QED BY <1>3, <2>1, <3>3, <4>1, <4>2, <4>3
      <3>4. CASE i > p
        <4>1. i - 1 \in 1..Len(w) /\ ~ i < p /\ i /= p
          BY <1>1, <3>1, <3>4
        <4>2. t[i] = w[i - 1] /\ w[i - 1] \in LiveIn(l)
          BY <1>1, <1>4, <4>1
        <4>3. t[i] \in LiveIn(m) /\ t[i] /= c
          BY <1>3, <4>2 DEF IsInserted
        <4> QED BY <1>3, <2>1, <4>1, <4>2, <4>3
      <3> QED BY <1>1, <3>1, <3>2, <3>3, <3>4
    <2>5. ItemsIn(m) = WithItem(items, p, d)
      <3>1. WithItem(items, p, d)
              = [i \in 1..Len(w) + 1 |-> IF i < p THEN items[i] ELSE IF i = p THEN d ELSE items[i - 1]]
        BY <2>1 DEF WithItem
      <3> QED BY <2>2, <2>4, <3>1
    <2> QED BY <2>3, <2>5 DEF items
  <1>7. ASSUME NEW k \in 0..Len(t)
        PROVE  /\ k < p - 1 => k \in 0..Len(w) /\ AfterAt(t, k) = AfterAt(w, k)
               /\ k = p - 1 => AfterAt(t, k) = c
               /\ k > p - 1 => k - 1 \in 0..Len(w) /\ AfterAt(t, k) = AfterAt(w, k - 1)
    <2>1. k \in Nat /\ k <= Len(w) + 1
      BY <1>1, <1>5
    <2>2. CASE k < p - 1
      <3>1. /\ k \in 0..Len(w) /\ k + 1 \in 1..Len(w) + 1 /\ k + 1 < p
            /\ k /= Len(w) /\ k /= Len(w) + 1 /\ ~ k > p - 1 /\ k /= p - 1
        BY <1>1, <2>1, <2>2
      <3> QED BY <1>4, <1>5, <3>1 DEF AfterAt
    <2>3. CASE k = p - 1
      <3>1. k + 1 = p /\ p \in 1..Len(w) + 1 /\ k /= Len(w) + 1 /\ ~ k < p - 1 /\ ~ k > p - 1 /\ ~ p < p
        BY <1>1, <2>1, <2>3
      <3> QED BY <1>4, <1>5, <3>1 DEF AfterAt
    <2>4. CASE k > p - 1
      <3>1. k - 1 \in 0..Len(w) /\ ~ k < p - 1 /\ k /= p - 1 /\ (k - 1) + 1 = k
        BY <1>1, <2>1, <2>4, SMTT(60)
      <3>2. CASE k = Len(w) + 1
        <4>1. k - 1 = Len(w)
          BY <1>1, <3>2
        <4> QED BY <1>5, <3>1, <3>2, <4>1 DEF AfterAt
      <3>3. CASE k /= Len(w) + 1
        <4>1. k + 1 \in 1..Len(w) + 1 /\ ~ k + 1 < p /\ k + 1 /= p /\ k - 1 /= Len(w) /\ (k + 1) - 1 = k
          BY <1>1, <2>1, <2>4, <3>3
        <4> QED BY <1>4, <1>5, <3>1, <3>3, <4>1 DEF AfterAt
      <3> QED BY <3>2, <3>3
    <2> QED BY <1>1, <2>1, <2>2, <2>3, <2>4
  <1>8. ASSUME NEW s, s /= NIL, s.after = c
        PROVE  SpotIn(m, s) = p - 1
    <2>1. p - 1 \in 0..Len(t)
      BY <1>1, <1>5
    <2>2. AfterAt(t, p - 1) = c
      BY <1>7, <2>1
    <2> QED BY <1>3, <1>8, <2>1, <2>2, SpotIs
  <1>9. ASSUME NEW s, NEW r, s /= NIL, r /= NIL, s.after = r.after, s.after \in LiveIn(l) \union {NIL}
        PROVE  SpotIn(m, r) = IF SpotIn(l, s) >= p - 1 THEN SpotIn(l, s) + 1 ELSE SpotIn(l, s)
    <2>1. PICK k \in 0..Len(w) : s.after = AfterAt(w, k)
      BY <1>9, SpotSomewhere
    <2>2. SpotIn(l, s) = k
      BY <1>9, <2>1, SpotIs
    <2>3. CASE k >= p - 1
      <3>1. k + 1 \in 0..Len(t) /\ k + 1 > p - 1 /\ (k + 1) - 1 = k
        BY <1>1, <1>5, <2>3
      <3>2. AfterAt(t, k + 1) = AfterAt(w, k)
        BY <1>7, <3>1
      <3>3. SpotIn(m, r) = k + 1
        <4>1. r.after = AfterAt(t, k + 1) /\ t = WalkOf(m) /\ ListInv(m)
          BY <1>3, <1>9, <2>1, <3>2
        <4> HIDE DEF AfterAt
        <4> QED BY <1>9, <3>1, <4>1, SpotIs
      <3> QED BY <2>2, <2>3, <3>3
    <2>4. CASE ~ k >= p - 1
      <3>1. k \in 0..Len(t) /\ k < p - 1
        BY <1>1, <1>5, <2>4
      <3>2. AfterAt(t, k) = AfterAt(w, k)
        BY <1>7, <3>1
      <3>3. SpotIn(m, r) = k
        <4>1. r.after = AfterAt(t, k) /\ t = WalkOf(m) /\ ListInv(m)
          BY <1>3, <1>9, <2>1, <3>2
        <4> HIDE DEF AfterAt
        <4> QED BY <1>9, <3>1, <4>1, SpotIs
      <3> QED BY <2>2, <2>4, <3>3
    <2> QED BY <2>3, <2>4
  <1> QED BY <1>6, <1>8, <1>9

LEMMA ExcisedApi ==
    ASSUME NEW l, ListInv(l), NEW w, w = WalkOf(l), NEW p \in 1..Len(w),
           NEW m, m = Excise(l, w[p])
    PROVE  /\ ItemsIn(m) = RemoveAt(ItemsIn(l), p)
           /\ \A s, r : /\ s /= NIL /\ r /= NIL /\ s.after = r.after
                        /\ s.after \in LiveIn(l) \union {NIL} /\ s.after /= w[p]
                => SpotIn(m, r) = IF SpotIn(l, s) >= p THEN SpotIn(l, s) - 1 ELSE SpotIn(l, s)
           /\ \A s : s /= NIL /\ s.after = AfterAt(w, p) => SpotIn(m, s) = p - 1
  <1> DEFINE t == WithoutItem(w, p)
  <1>0. IsAlong(l, w)
    BY AlongWalk
  <1>1. /\ w \in Seq(LiveIn(l)) /\ Len(w) \in Nat /\ \A i \in 1..Len(w) : w[i] \in LiveIn(l)
        /\ \A i, j \in 1..Len(w) : w[i] = w[j] => i = j
        /\ p \in Nat /\ p >= 1 /\ p <= Len(w)
    BY <1>0 DEF IsAlong
  <1>2. /\ ListInv(m) /\ LiveIn(m) = LiveIn(l) \ {w[p]}
        /\ \A x \in LiveIn(m) : m.elem[x].data = l.elem[x].data
        /\ WalkOf(m) = t
    BY ExcisedWalk
  <1>3. /\ t = [i \in 1..Len(w) - 1 |-> t[i]]
        /\ \A i \in 1..Len(w) - 1 : t[i] = IF i < p THEN w[i] ELSE w[i + 1]
    BY DEF WithoutItem
  <1> HIDE DEF t
  <1>4. Len(t) = Len(w) - 1
    BY <1>1, <1>3
  <1>5. ItemsIn(m) = RemoveAt(ItemsIn(l), p)
    <2> DEFINE items == ItemsIn(l)
    <2>1. items = [i \in 1..Len(w) |-> l.elem[w[i]].data] /\ items \in Seq(Data) /\ Len(items) = Len(w)
      BY ItemsAre
    <2>2. /\ ItemsIn(m) = [i \in 1..Len(w) - 1 |-> m.elem[t[i]].data]
          /\ \A i \in 1..Len(w) - 1 : t[i] \in LiveIn(m)
      <3>1. IsAlong(m, t)
        BY <1>2, AlongWalk
      <3>2. ItemsIn(m) = [i \in 1..Len(t) |-> m.elem[t[i]].data]
        BY <1>2, ItemsAre
      <3>3. \A i \in 1..Len(t) : t[i] \in LiveIn(m)
        BY <3>1 DEF IsAlong
      <3> QED BY <1>4, <3>2, <3>3
    <2> HIDE DEF items
    <2>3. RemoveAt(items, p) = WithoutItem(items, p)
      BY <2>1, RemoveAtIs
    <2>4. ASSUME NEW i \in 1..Len(w) - 1
          PROVE  m.elem[t[i]].data = IF i < p THEN items[i] ELSE items[i + 1]
      <3>1. i \in 1..Len(w) /\ i + 1 \in 1..Len(w)
        BY <1>1
      <3> QED BY <1>2, <1>3, <2>1, <2>2, <3>1
    <2>5. ItemsIn(m) = WithoutItem(items, p)
      <3>1. WithoutItem(items, p) = [i \in 1..Len(w) - 1 |-> IF i < p THEN items[i] ELSE items[i + 1]]
        BY <2>1 DEF WithoutItem
      <3> QED BY <2>2, <2>4, <3>1
    <2> QED BY <2>3, <2>5 DEF items
  <1>6. ASSUME NEW k \in 0..Len(t)
        PROVE  /\ k < p - 1 => AfterAt(t, k) = AfterAt(w, k)
               /\ k >= p - 1 => AfterAt(t, k) = AfterAt(w, k + 1)
    <2>1. k \in Nat /\ k <= Len(w) - 1
      BY <1>1, <1>4
    <2>2. CASE k < p - 1
      <3>1. k + 1 \in 1..Len(w) - 1 /\ k + 1 < p /\ k /= Len(w) /\ k /= Len(w) - 1 /\ ~ k >= p - 1
        BY <1>1, <2>1, <2>2
      <3> QED BY <1>3, <1>4, <3>1 DEF AfterAt
    <2>3. CASE k >= p - 1
      <3>1. ~ k < p - 1
        BY <1>1, <2>1, <2>3
      <3>2. CASE k = Len(w) - 1
        <4>1. k + 1 = Len(w)
          BY <1>1, <3>2
        <4> QED BY <1>4, <3>1, <3>2, <4>1 DEF AfterAt
      <3>3. CASE k /= Len(w) - 1
        <4>1. k + 1 \in 1..Len(w) - 1 /\ ~ k + 1 < p /\ k + 1 /= Len(w)
          BY <1>1, <2>1, <2>3, <3>3
        <4> QED BY <1>3, <1>4, <3>1, <3>3, <4>1 DEF AfterAt
      <3> QED BY <3>2, <3>3
    <2> QED BY <1>1, <2>1, <2>2, <2>3
  <1>7. ASSUME NEW s, NEW r, s /= NIL, r /= NIL, s.after = r.after,
               s.after \in LiveIn(l) \union {NIL}, s.after /= w[p]
        PROVE  SpotIn(m, r) = IF SpotIn(l, s) >= p THEN SpotIn(l, s) - 1 ELSE SpotIn(l, s)
    <2>1. PICK k \in 0..Len(w) : s.after = AfterAt(w, k)
      BY <1>7, SpotSomewhere
    <2>2. SpotIn(l, s) = k
      BY <1>7, <2>1, SpotIs
    <2>3. k /= p - 1
      <3> SUFFICES ASSUME k = p - 1  PROVE FALSE
        OBVIOUS
      <3>1. k /= Len(w) /\ k + 1 = p
        BY <1>1
      <3> QED BY <1>7, <2>1, <3>1 DEF AfterAt
    <2>4. CASE k >= p
      <3>1. k - 1 \in 0..Len(t) /\ k - 1 >= p - 1 /\ (k - 1) + 1 = k
        BY <1>1, <1>4, <2>4
      <3>2. AfterAt(t, k - 1) = AfterAt(w, k)
        BY <1>6, <3>1
      <3>3. SpotIn(m, r) = k - 1
        <4>1. r.after = AfterAt(t, k - 1) /\ t = WalkOf(m) /\ ListInv(m)
          BY <1>2, <1>7, <2>1, <3>2
        <4> HIDE DEF AfterAt
        <4> QED BY <1>7, <3>1, <4>1, SpotIs
      <3> QED BY <2>2, <2>4, <3>3
    <2>5. CASE ~ k >= p
      <3>1. k \in 0..Len(t) /\ k < p - 1
        BY <1>1, <1>4, <2>3, <2>5
      <3>2. AfterAt(t, k) = AfterAt(w, k)
        BY <1>6, <3>1
      <3>3. SpotIn(m, r) = k
        <4>1. r.after = AfterAt(t, k) /\ t = WalkOf(m) /\ ListInv(m)
          BY <1>2, <1>7, <2>1, <3>2
        <4> HIDE DEF AfterAt
        <4> QED BY <1>7, <3>1, <4>1, SpotIs
      <3> QED BY <2>2, <2>5, <3>3
    <2> QED BY <2>4, <2>5
  <1>8. ASSUME NEW s, s /= NIL, s.after = AfterAt(w, p)
        PROVE  SpotIn(m, s) = p - 1
    <2>1. p - 1 \in 0..Len(t) /\ (p - 1) + 1 = p /\ p - 1 >= p - 1
      BY <1>1, <1>4
    <2>2. AfterAt(t, p - 1) = AfterAt(w, p)
      BY <1>6, <2>1
    <2> QED BY <1>2, <1>8, <2>1, <2>2, SpotIs
  <1> QED BY <1>5, <1>7, <1>8

-----------------------------------------------------------------------------
(* The calls, one by one, are those of LsApi.                              *)

\* Where a generator is, in terms of the elements on either side.
LEMMA WhereItIs ==
    ASSUME IInv, NEW w, w = WalkOf(list), NEW g \in Gen
    PROVE  /\ ~IsOpen(g) => SpotIn(list, gen[g]) = NIL
           /\ IsOpen(g) => /\ SpotIn(list, gen[g]) \in 0..Len(w) /\ SpotIn(list, gen[g]) /= NIL
                           /\ gen[g].after = AfterAt(w, SpotIn(list, gen[g]))
           /\ InPlace(g) => gen[g].before = BeforeAt(w, SpotIn(list, gen[g]))
  <1>0. IsAlong(list, w)
    BY AlongWalk DEF IInv
  <1>1. /\ Len(w) \in Nat
        /\ \A c \in Live : \E i \in 1..Len(w) : w[i] = c
        /\ list.top = IF Len(w) = 0 THEN NIL ELSE w[1]
        /\ \A i \in 1..Len(w) : list.elem[w[i]].next = IF i = Len(w) THEN NIL ELSE w[i + 1]
    BY <1>0 DEF IsAlong, Live
  <1>2. ListInv(list)
    BY DEF IInv
  <1>3. ~IsOpen(g) => SpotIn(list, gen[g]) = NIL
    BY DEF IsOpen, SpotIn
  <1>4. ASSUME IsOpen(g)
        PROVE  /\ SpotIn(list, gen[g]) \in 0..Len(w) /\ SpotIn(list, gen[g]) /= NIL
               /\ gen[g].after = AfterAt(w, SpotIn(list, gen[g]))
    <2>1. gen[g].after \in LiveIn(list) \union {NIL} /\ gen[g] /= NIL
      BY <1>4, AtASpot DEF Live, IsOpen
    <2>2. PICK k \in 0..Len(w) : gen[g].after = AfterAt(w, k)
      BY <1>2, <2>1, SpotSomewhere
    <2>3. SpotIn(list, gen[g]) = k
      BY <1>2, <2>1, <2>2, SpotIs
    <2>4. k /= NIL
      BY <1>1, NILAssumption
    <2> QED BY <2>2, <2>3, <2>4
  <1>5. ASSUME InPlace(g)
        PROVE  gen[g].before = BeforeAt(w, SpotIn(list, gen[g]))
    <2>1. /\ gen[g] /= NIL
          /\ gen[g].before \in Live \union {NIL}
          /\ gen[g].before = NIL => gen[g].after = list.top
          /\ gen[g].before /= NIL => list.elem[gen[g].before].next = gen[g].after
      BY <1>5, InPlaceMeans DEF InPlace, IsOpen
    <2>2. CASE gen[g].before = NIL
      <3>1. 0 \in 0..Len(w) /\ gen[g].after = AfterAt(w, 0)
        BY <1>1, <2>1, <2>2 DEF AfterAt
      <3>2. SpotIn(list, gen[g]) = 0
        BY <1>2, <2>1, <3>1, SpotIs
      <3> QED BY <2>2, <3>2 DEF BeforeAt
    <2>3. CASE gen[g].before /= NIL
      <3>1. PICK i \in 1..Len(w) : w[i] = gen[g].before
        BY <1>1, <2>1, <2>3
      <3>2. i \in 0..Len(w) /\ i /= 0
        BY <1>1
      <3>3. gen[g].after = AfterAt(w, i)
        BY <1>1, <2>1, <2>3, <3>1 DEF AfterAt
      <3>4. SpotIn(list, gen[g]) = i
        BY <1>2, <2>1, <3>2, <3>3, SpotIs
      <3> QED BY <3>1, <3>2, <3>4 DEF BeforeAt
    <2> QED BY <2>2, <2>3
  <1> QED BY <1>3, <1>4, <1>5

\* What the operations of LsApi come to in terms of the list.
LEMMA ApiInsertAtEnd ==
    ASSUME NEW pos, NEW d, Items' = InsertAt(Items, pos, d), item' = NIL,
           \A h \in Gen : SpotIn(list', gen'[h]) =
               IF SpotIn(list, gen[h]) /= NIL /\ SpotIn(list, gen[h]) >= pos - 1
               THEN SpotIn(list, gen[h]) + 1 ELSE SpotIn(list, gen[h])
    PROVE  Api!InsertAtEnd(pos, d)
  <1> DEFINE spot == [h \in Gen |-> SpotIn(list, gen[h])]
             spotP == [h \in Gen |-> SpotIn(list', gen'[h])]
  <1>1. [h \in Gen |-> SpotOf(h)] = spot /\ [h \in Gen |-> SpotOf(h)]' = spotP
    BY Mapped
  <1>2. spotP = [h \in Gen |-> IF spot[h] /= NIL /\ spot[h] >= pos - 1 THEN spot[h] + 1 ELSE spot[h]]
    OBVIOUS
  <1> HIDE DEF spot, spotP
  <1> QED BY <1>1, <1>2 DEF Api!InsertAtEnd, Api!Inserted, Api!InsertAt, InsertAt

LEMMA ApiInsertHere ==
    ASSUME NEW g \in Gen, NEW d, NEW own, NEW pos, pos = SpotIn(list, gen[g]) + 1,
           SpotIn(list, gen[g]) \in Nat,
           Items' = InsertAt(Items, pos, d), item' = NIL,
           SpotIn(list', gen'[g]) = own,
           \A h \in Gen \ {g} : SpotIn(list', gen'[h]) =
               IF SpotIn(list, gen[h]) /= NIL /\ SpotIn(list, gen[h]) >= pos - 1
               THEN SpotIn(list, gen[h]) + 1 ELSE SpotIn(list, gen[h])
    PROVE  Api!InsertHere(g, d, own)
  <1> DEFINE spot == [h \in Gen |-> SpotIn(list, gen[h])]
             spotP == [h \in Gen |-> SpotIn(list', gen'[h])]
             inserted == [h \in Gen |-> IF spot[h] /= NIL /\ spot[h] >= pos - 1
                                        THEN spot[h] + 1 ELSE spot[h]]
  <1>1. [h \in Gen |-> SpotOf(h)] = spot /\ [h \in Gen |-> SpotOf(h)]' = spotP
    BY Mapped
  <1>2. spot[g] /= NIL /\ pos = spot[g] + 1
    BY NILAssumption
  <1>3. spotP = [inserted EXCEPT ![g] = own]
    <2>1. spotP[g] = own
      OBVIOUS
    <2>2. ASSUME NEW h \in Gen \ {g}
          PROVE  spotP[h] = inserted[h]
      OBVIOUS
    <2>3. spotP = [h \in Gen |-> spotP[h]] /\ inserted = [h \in Gen |-> inserted[h]]
      OBVIOUS
    <2> HIDE DEF spotP, inserted
    <2> QED BY <2>1, <2>2, <2>3
  <1> HIDE DEF spot, spotP
  <1>4. Api!Inserted(pos) = inserted
    BY <1>1 DEF Api!Inserted
  <1> HIDE DEF inserted
  <1>5. Items' = Api!InsertAt(Items, spot[g] + 1, d)
    BY <1>2 DEF Api!InsertAt, InsertAt
  <1> QED BY <1>1, <1>2, <1>3, <1>4, <1>5 DEF Api!InsertHere

LEMMA ApiRefuse ==
    ASSUME UNCHANGED <<list, gen>>, item' = NIL
    PROVE  Api!Refuse
  BY Mapped DEF Api!Refuse

LEMMA ApiDelete ==
    ASSUME NEW pos \in DOMAIN Items, Items' = RemoveAt(Items, pos), item' = Items[pos],
           \A h \in Gen : SpotIn(list', gen'[h]) =
               IF SpotIn(list, gen[h]) /= NIL /\ SpotIn(list, gen[h]) >= pos
               THEN SpotIn(list, gen[h]) - 1 ELSE SpotIn(list, gen[h])
    PROVE  Api!Delete(pos)
  <1> DEFINE spot == [h \in Gen |-> SpotIn(list, gen[h])]
             spotP == [h \in Gen |-> SpotIn(list', gen'[h])]
  <1>1. [h \in Gen |-> SpotOf(h)] = spot /\ [h \in Gen |-> SpotOf(h)]' = spotP
    BY Mapped
  <1>2. spotP = [h \in Gen |-> IF spot[h] /= NIL /\ spot[h] >= pos THEN spot[h] - 1 ELSE spot[h]]
    OBVIOUS
  <1> HIDE DEF spot, spotP
  <1> QED BY <1>1, <1>2 DEF Api!Delete, Api!RemoveAt, RemoveAt

LEMMA ApiDeleteNothing ==
    ASSUME NEW pos, pos \notin DOMAIN Items, UNCHANGED <<list, gen>>, item' = NIL
    PROVE  Api!Delete(pos)
  BY ApiRefuse DEF Api!Delete

\* The calls that move one spot leave the items.
LEMMA ApiMove ==
    ASSUME NEW g \in Gen, NEW s, gen \in [Gen -> Spots \union {NIL}],
           gen' = [gen EXCEPT ![g] = s], UNCHANGED list
    PROVE  /\ [h \in Gen |-> SpotOf(h)]' = [[h \in Gen |-> SpotOf(h)] EXCEPT ![g] = SpotIn(list, s)]
           /\ [h \in Gen |-> SpotOf(h)][g] = SpotIn(list, gen[g])
           /\ UNCHANGED Items
  <1>1. \A h \in Gen : SpotIn(list', gen'[h]) = IF h = g THEN SpotIn(list, s) ELSE SpotIn(list, gen[h])
    OBVIOUS
  <1> QED BY <1>1, Mapped

LEMMA ApiOpen ==
    ASSUME NEW g \in Gen, NEW s, gen \in [Gen -> Spots \union {NIL}],
           gen' = [gen EXCEPT ![g] = s], UNCHANGED list,
           SpotIn(list, gen[g]) = NIL
    PROVE  Api!Open(g, SpotIn(list, s), item')
  BY ApiMove DEF Api!Open

LEMMA ApiGoTo ==
    ASSUME NEW g \in Gen, NEW s, gen \in [Gen -> Spots \union {NIL}],
           gen' = [gen EXCEPT ![g] = s], UNCHANGED list,
           SpotIn(list, gen[g]) /= NIL, NEW pos \in DOMAIN Items, item' = Items[pos]
    PROVE  Api!GoTo(g, pos, SpotIn(list, s))
  BY ApiMove DEF Api!GoTo

LEMMA ApiGoNowhere ==
    ASSUME NEW g \in Gen, UNCHANGED <<list, gen>>, SpotIn(list, gen[g]) /= NIL,
           NEW pos, pos \notin DOMAIN Items, item' = NIL, NEW at
    PROVE  Api!GoTo(g, pos, at)
  BY ApiRefuse, Mapped DEF Api!GoTo

-----------------------------------------------------------------------------
\* What an insertion at a spot, and the removal of an element, do to what
\* LsApi sees.
LEMMA ListInserts ==
    ASSUME IInv, NEW c \in Free, NEW d \in Data, NEW w, w = WalkOf(list), NEW p \in 1..Len(w) + 1,
           list' = Splice(list, c, d, BeforeAt(w, p - 1), AfterAt(w, p - 1))
    PROVE  /\ Items' = InsertAt(Items, p, d) /\ Len(Items) = Len(w)
           /\ \A h \in Gen : gen'[h] = gen[h] => SpotIn(list', gen'[h]) =
                IF SpotIn(list, gen[h]) /= NIL /\ SpotIn(list, gen[h]) >= p - 1
                THEN SpotIn(list, gen[h]) + 1 ELSE SpotIn(list, gen[h])
           /\ \A h \in Gen : \A s : IsOpen(h) /\ s /= NIL /\ s.after = gen[h].after => SpotIn(list', s) =
                IF SpotIn(list, gen[h]) >= p - 1 THEN SpotIn(list, gen[h]) + 1 ELSE SpotIn(list, gen[h])
           /\ \A s : s /= NIL /\ s.after = c => SpotIn(list', s) = p - 1
  <1>1. /\ ItemsIn(list') = InsertAt(ItemsIn(list), p, d)
        /\ \A s : s /= NIL /\ s.after = c => SpotIn(list', s) = p - 1
        /\ \A s, r : s /= NIL /\ r /= NIL /\ s.after = r.after /\ s.after \in LiveIn(list) \union {NIL}
             => SpotIn(list', r) = IF SpotIn(list, s) >= p - 1 THEN SpotIn(list, s) + 1 ELSE SpotIn(list, s)
    <2>1. ListInv(list) /\ c \in Cell \ LiveIn(list)
      BY DEF IInv, Free, Live
    <2> QED BY <2>1, SplicedApi
  <1>2. Items' = InsertAt(Items, p, d) /\ Len(Items) = Len(w)
    BY <1>1, Mapped, ItemsAre DEF IInv
  <1>3. ASSUME NEW h \in Gen, NEW s, IsOpen(h), s /= NIL, s.after = gen[h].after
        PROVE  SpotIn(list', s) =
                 IF SpotIn(list, gen[h]) >= p - 1 THEN SpotIn(list, gen[h]) + 1 ELSE SpotIn(list, gen[h])
    <2>1. gen[h] /= NIL /\ gen[h].after \in LiveIn(list) \union {NIL}
      BY <1>3, AtASpot DEF IsOpen, Live
    <2> QED BY <1>1, <1>3, <2>1
  <1>4. ASSUME NEW h \in Gen, gen'[h] = gen[h]
        PROVE  SpotIn(list', gen'[h]) =
                 IF SpotIn(list, gen[h]) /= NIL /\ SpotIn(list, gen[h]) >= p - 1
                 THEN SpotIn(list, gen[h]) + 1 ELSE SpotIn(list, gen[h])
    <2>1. CASE IsOpen(h)
      <3>1. gen'[h] /= NIL /\ SpotIn(list, gen[h]) /= NIL
        BY <1>4, <2>1, WhereItIs DEF IsOpen
      <3> QED BY <1>3, <1>4, <2>1, <3>1
    <2>2. CASE ~ IsOpen(h)
      <3>1. SpotIn(list', gen'[h]) = NIL /\ SpotIn(list, gen[h]) = NIL
        BY <1>4, <2>2 DEF IsOpen, SpotIn
      <3> QED BY <3>1
    <2> QED BY <2>1, <2>2
  <1> QED BY <1>1, <1>2, <1>3, <1>4

LEMMA ListRemoves ==
    ASSUME IInv, NEW w, w = WalkOf(list), NEW p \in 1..Len(w), list' = Excise(list, w[p])
    PROVE  /\ Items' = RemoveAt(Items, p)
           /\ \A h \in Gen : gen'[h] = gen[h] /\ (IsOpen(h) => gen[h].after /= w[p])
                => SpotIn(list', gen'[h]) =
                     IF SpotIn(list, gen[h]) /= NIL /\ SpotIn(list, gen[h]) >= p
                     THEN SpotIn(list, gen[h]) - 1 ELSE SpotIn(list, gen[h])
           /\ \A h \in Gen : \A s : IsOpen(h) /\ s /= NIL /\ s.after = gen[h].after /\ s.after /= w[p]
                => SpotIn(list', s) =
                     IF SpotIn(list, gen[h]) >= p THEN SpotIn(list, gen[h]) - 1 ELSE SpotIn(list, gen[h])
           /\ \A s : s /= NIL /\ s.after = AfterAt(w, p) => SpotIn(list', s) = p - 1
  <1>1. /\ ItemsIn(list') = RemoveAt(ItemsIn(list), p)
        /\ \A s, r : /\ s /= NIL /\ r /= NIL /\ s.after = r.after
                     /\ s.after \in LiveIn(list) \union {NIL} /\ s.after /= w[p]
             => SpotIn(list', r) = IF SpotIn(list, s) >= p THEN SpotIn(list, s) - 1 ELSE SpotIn(list, s)
        /\ \A s : s /= NIL /\ s.after = AfterAt(w, p) => SpotIn(list', s) = p - 1
    <2>1. ListInv(list)
      BY DEF IInv
    <2> QED BY <2>1, ExcisedApi
  <1>2. Items' = RemoveAt(Items, p)
    BY <1>1, Mapped
  <1>3. ASSUME NEW h \in Gen, NEW s, IsOpen(h), s /= NIL, s.after = gen[h].after, s.after /= w[p]
        PROVE  SpotIn(list', s) =
                 IF SpotIn(list, gen[h]) >= p THEN SpotIn(list, gen[h]) - 1 ELSE SpotIn(list, gen[h])
    <2>1. gen[h] /= NIL /\ gen[h].after \in LiveIn(list) \union {NIL}
      BY <1>3, AtASpot DEF IsOpen, Live
    <2> QED BY <1>1, <1>3, <2>1
  <1>4. ASSUME NEW h \in Gen, gen'[h] = gen[h], IsOpen(h) => gen[h].after /= w[p]
        PROVE  SpotIn(list', gen'[h]) =
                 IF SpotIn(list, gen[h]) /= NIL /\ SpotIn(list, gen[h]) >= p
                 THEN SpotIn(list, gen[h]) - 1 ELSE SpotIn(list, gen[h])
    <2>1. CASE IsOpen(h)
      <3>1. gen'[h] /= NIL /\ SpotIn(list, gen[h]) /= NIL
        BY <1>4, <2>1, WhereItIs DEF IsOpen
      <3> QED BY <1>3, <1>4, <2>1, <3>1
    <2>2. CASE ~ IsOpen(h)
      <3>1. SpotIn(list', gen'[h]) = NIL /\ SpotIn(list, gen[h]) = NIL
        BY <1>4, <2>2 DEF IsOpen, SpotIn
      <3> QED BY <3>1
    <2> QED BY <2>1, <2>2
  <1> QED BY <1>1, <1>2, <1>3, <1>4

\* The items, seen from the elements.
LEMMA ItemsSeen ==
    ASSUME IInv, NEW w, w = WalkOf(list)
    PROVE  /\ IsAlong(list, w) /\ DOMAIN Items = 1..Len(w) /\ Len(Items) = Len(w) /\ Items \in Seq(Data)
           /\ \A i \in 1..Len(w) : Items[i] = list.elem[w[i]].data
  <1>1. IsAlong(list, w)
    BY AlongWalk DEF IInv
  <1>2. /\ ItemsIn(list) = [i \in 1..Len(w) |-> list.elem[w[i]].data]
        /\ ItemsIn(list) \in Seq(Data) /\ Len(ItemsIn(list)) = Len(w) /\ DOMAIN ItemsIn(list) = 1..Len(w)
    BY ItemsAre DEF IInv
  <1> QED BY <1>1, <1>2, Mapped

\* The removal of an element that nobody generates next, when no spot moves.
LEMMA RemovalIsDelete ==
    ASSUME IInv, NEW w, w = WalkOf(list), NEW p \in 1..Len(w), MayRemove(w[p], {}),
           list' = Excise(list, w[p]), UNCHANGED gen, item' = list.elem[w[p]].data
    PROVE  Api!Delete(p) /\ p \in DOMAIN Items
  <1>1. p \in DOMAIN Items /\ item' = Items[p]
    BY ItemsSeen
  <1>2. Items' = RemoveAt(Items, p)
    BY ListRemoves
  <1>3. \A h \in Gen : SpotIn(list', gen'[h]) =
          IF SpotIn(list, gen[h]) /= NIL /\ SpotIn(list, gen[h]) >= p
          THEN SpotIn(list, gen[h]) - 1 ELSE SpotIn(list, gen[h])
    BY ListRemoves DEF MayRemove
  <1> QED BY <1>1, <1>2, <1>3, ApiDelete

LEMMA ListCallApi ==
    ASSUME IInv, ListCall
    PROVE  Api!ListCall
  <1> DEFINE w == WalkOf(list)
  <1>1. /\ IsAlong(list, w) /\ DOMAIN Items = 1..Len(w) /\ Len(Items) = Len(w)
        /\ Items \in Seq(Data) /\ ListInv(list) /\ Sound(list) /\ NIL \notin Live
    BY ItemsSeen, AtASpot DEF IInv, ListInv
  <1>2. /\ Len(w) \in Nat /\ Len(w) = list.length
        /\ \A i \in 1..Len(w) : w[i] \in Live
        /\ \A c \in Live : \E i \in 1..Len(w) : w[i] = c
        /\ list.top = IF Len(w) = 0 THEN NIL ELSE w[1]
        /\ list.bot = IF Len(w) = 0 THEN NIL ELSE w[Len(w)]
    BY <1>1 DEF IsAlong, Live
  <1> HIDE DEF w
  <1>3. ASSUME NEW c \in Free, NEW d \in Data, NewBegin(c, d)
        PROVE  Api!InsertAtEnd(1, d)
    <2>1. 1 \in 1..Len(w) + 1 /\ BeforeAt(w, 1 - 1) = NIL /\ AfterAt(w, 1 - 1) = list.top
      BY <1>2 DEF BeforeAt, AfterAt
    <2>2. list' = Splice(list, c, d, BeforeAt(w, 1 - 1), AfterAt(w, 1 - 1))
      <3>1. lsNewBegin(list, c, d) = Splice(list, c, d, NIL, list.top)
        BY <1>1, OnlySplices DEF Free, Live
      <3> QED BY <1>3, <2>1, <3>1 DEF NewBegin
    <2>3. UNCHANGED gen /\ item' = NIL
      BY <1>3 DEF NewBegin, Returns
    <2>4. /\ Items' = InsertAt(Items, 1, d)
          /\ \A h \in Gen : gen'[h] = gen[h] => SpotIn(list', gen'[h]) =
                IF SpotIn(list, gen[h]) /= NIL /\ SpotIn(list, gen[h]) >= 1 - 1
                THEN SpotIn(list, gen[h]) + 1 ELSE SpotIn(list, gen[h])
      BY <2>1, <2>2, ListInserts DEF w
    <2> QED BY <2>3, <2>4, ApiInsertAtEnd
  <1>4. ASSUME NEW c \in Free, NEW d \in Data, NewEnd(c, d)
        PROVE  Api!InsertAtEnd(Len(w) + 1, d)
    <2> DEFINE p == Len(w) + 1
    <2>1. p \in 1..Len(w) + 1 /\ BeforeAt(w, p - 1) = list.bot /\ AfterAt(w, p - 1) = NIL
      BY <1>2 DEF BeforeAt, AfterAt
    <2>2. list' = Splice(list, c, d, BeforeAt(w, p - 1), AfterAt(w, p - 1))
      <3>1. lsNewEnd(list, c, d) = Splice(list, c, d, list.bot, NIL)
        BY <1>1, OnlySplices DEF Free, Live
      <3> QED BY <1>4, <2>1, <3>1 DEF NewEnd
    <2>3. UNCHANGED gen /\ item' = NIL
      BY <1>4 DEF NewEnd, Returns
    <2> HIDE DEF p
    <2>4. /\ Items' = InsertAt(Items, p, d)
          /\ \A h \in Gen : gen'[h] = gen[h] => SpotIn(list', gen'[h]) =
                IF SpotIn(list, gen[h]) /= NIL /\ SpotIn(list, gen[h]) >= p - 1
                THEN SpotIn(list, gen[h]) + 1 ELSE SpotIn(list, gen[h])
      BY <2>1, <2>2, ListInserts DEF w
    <2>5. Api!InsertAtEnd(p, d)
      BY <2>3, <2>4, ApiInsertAtEnd
    <2> QED BY <2>5 DEF p
  <1>5. CASE DelBegin
    <2>1. CASE list.top = NIL
      <3>1. Len(w) = 0
        <4> SUFFICES ASSUME Len(w) /= 0  PROVE FALSE
          OBVIOUS
        <4>1. 1 \in 1..Len(w)
          BY <1>2
        <4> QED BY <1>1, <1>2, <2>1, <4>1
      <3>2. 1 \notin DOMAIN Items
        BY <1>1, <3>1
      <3>3. UNCHANGED <<list, gen>> /\ item' = NIL
        BY <1>5, <2>1 DEF DelBegin, Returns
      <3>4. Api!Delete(1)
        BY <3>2, <3>3, ApiDeleteNothing
      <3>5. call' = "lsDelBegin"
        BY <1>5, <2>1 DEF DelBegin, Returns
      <3> QED BY <3>4, <3>5 DEF Api!ListCall
    <2>2. CASE list.top /= NIL
      <3>1. 1 \in 1..Len(w) /\ list.top = w[1] /\ w[1] \in Live
        BY <1>2, <2>2
      <3>2. list' = Excise(list, w[1]) /\ MayRemove(w[1], {}) /\ item' = list.elem[w[1]].data
            /\ UNCHANGED gen /\ call' = "lsDelBegin"
        <4>1. lsDelBegin(list) = Excise(list, w[1])
          BY <1>1, <3>1, OnlyExcises DEF Live
        <4> QED BY <1>5, <2>2, <3>1, <4>1 DEF DelBegin, Returns
      <3>3. Api!Delete(1)
        BY <3>1, <3>2, RemovalIsDelete DEF w
      <3> QED BY <3>2, <3>3 DEF Api!ListCall
    <2> QED BY <2>1, <2>2
  <1>6. CASE DelEnd
    <2>1. CASE list.bot = NIL
      <3>1. Len(w) = 0
        <4> SUFFICES ASSUME Len(w) /= 0  PROVE FALSE
          OBVIOUS
        <4>1. Len(w) \in 1..Len(w)
          BY <1>2
        <4> QED BY <1>1, <1>2, <2>1, <4>1
      <3>2. Len(Items) \notin DOMAIN Items
        BY <1>1, <3>1
      <3>3. UNCHANGED <<list, gen>> /\ item' = NIL
        BY <1>6, <2>1 DEF DelEnd, Returns
      <3>4. Api!Delete(Len(Items))
        BY <3>2, <3>3, ApiDeleteNothing
      <3>5. call' = "lsDelEnd"
        BY <1>6, <2>1 DEF DelEnd, Returns
      <3> QED BY <3>4, <3>5 DEF Api!ListCall
    <2>2. CASE list.bot /= NIL
      <3>1. Len(w) \in 1..Len(w) /\ list.bot = w[Len(w)] /\ w[Len(w)] \in Live
        BY <1>2, <2>2
      <3>2. list' = Excise(list, w[Len(w)]) /\ MayRemove(w[Len(w)], {}) /\ item' = list.elem[w[Len(w)]].data
            /\ UNCHANGED gen /\ call' = "lsDelEnd"
        <4>1. lsDelEnd(list) = Excise(list, w[Len(w)])
          BY <1>1, <3>1, OnlyExcises DEF Live
        <4> QED BY <1>6, <2>2, <3>1, <4>1 DEF DelEnd, Returns
      <3>3. Api!Delete(Len(w))
        BY <3>1, <3>2, RemovalIsDelete DEF w
      <3> QED BY <1>1, <3>2, <3>3 DEF Api!ListCall
    <2> QED BY <2>1, <2>2
  <1>7. ASSUME NEW c \in Live, RemoveItem(c)
        PROVE  Api!ListCall
    <2>1. PICK p \in 1..Len(w) : w[p] = c
      BY <1>2
    <2>2. list' = Excise(list, w[p]) /\ MayRemove(w[p], {}) /\ item' = list.elem[w[p]].data
          /\ UNCHANGED gen /\ call' = "lsRemoveItem"
      <3>1. Del(list, c) = Excise(list, c)
        BY <1>1, OnlyExcises DEF Live
      <3> QED BY <1>7, <2>1, <3>1 DEF RemoveItem, Returns
    <2>3. Api!Delete(p) /\ p \in DOMAIN Items
      BY <2>2, RemovalIsDelete DEF w
    <2> QED BY <2>2, <2>3 DEF Api!ListCall
  <1>8. CASE Sort
    <2>1. PICK order \in [1..list.length -> Live] :
            /\ IsInjective(order) /\ Range(order) = Live
            /\ \A i \in 2..list.length : list.elem[order[i - 1]].data <= list.elem[order[i]].data
            /\ list' = Relinked(list, order)
      BY <1>8 DEF Sort
    <2>2. UNCHANGED gen /\ item' = NIL /\ call' = "lsSort" /\ \A g \in Gen : ~IsOpen(g)
      BY <1>8 DEF Sort, Returns
    <2>3. /\ ListInv(list') /\ IsPath(list', order) /\ LiveIn(list') = Live
          /\ \A x \in Live : list'.elem[x].data = list.elem[x].data
      <3>1. order \in [1..list.length -> LiveIn(list)] /\ Range(order) = LiveIn(list) /\ list.length \in Nat
        BY <1>2, <2>1 DEF Live
      <3> QED BY <1>1, <2>1, <3>1, Relinking, RelinkedSound DEF Live
    <2>4. DOMAIN order = 1..Len(w) /\ \A i \in 1..Len(w) : order[i] \in Live
      BY <1>2, <2>1
    <2>5. order = WalkOf(list') /\ Len(order) = Len(w)
      <3>1. order \in Seq(LiveIn(list')) /\ DOMAIN order = 1..Len(order)
        BY <2>3 DEF IsPath
      <3>2. Len(order) = Len(w)
        BY <1>2, <2>4, <3>1
      <3>3. list'.length = Len(w)
        BY <1>2, <2>1 DEF Relinked
      <3> QED BY <2>3, <3>2, <3>3, OnlyWalk
    <2>6. Items' = [i \in 1..Len(w) |-> list.elem[order[i]].data]
      <3>1. ItemsIn(list') = [i \in DOMAIN order |-> list'.elem[order[i]].data]
        BY <2>5 DEF ItemsIn
      <3>2. Items' = [i \in 1..Len(w) |-> list'.elem[order[i]].data]
        BY <2>4, <3>1, Mapped
      <3>3. \A i \in 1..Len(w) : list'.elem[order[i]].data = list.elem[order[i]].data
        BY <2>3, <2>4
      <3> QED BY <3>2, <3>3
    <2> DEFINE place == [i \in 1..Len(w) |-> CHOOSE j \in 1..Len(w) : w[j] = order[i]]
    <2>7. \A i \in 1..Len(w) : place[i] \in 1..Len(w) /\ w[place[i]] = order[i]
      BY <1>2, <2>4
    <2>8. place \in [DOMAIN Items -> DOMAIN Items]
      BY <1>1, <2>7
    <2> HIDE DEF place
    <2>9. \A i, j \in DOMAIN Items : place[i] = place[j] => i = j
      BY <1>1, <2>1, <2>4, <2>7 DEF IsInjective
    <2>10. Items' = [i \in DOMAIN Items |-> Items[place[i]]]
      <3>1. \A i \in 1..Len(w) : Items[place[i]] = list.elem[order[i]].data
        BY <2>7, ItemsSeen DEF w
      <3> QED BY <1>1, <2>6, <3>1
    <2>11. \A i \in 2..Len(Items') : Items'[i - 1] <= Items'[i]
      <3>1. Len(Items') = Len(w)
        BY <2>3, <2>5, Mapped, ItemsAre
      <3>2. ASSUME NEW i \in 2..Len(w)
            PROVE  Items'[i - 1] <= Items'[i]
        <4>1. i \in 1..Len(w) /\ i - 1 \in 1..Len(w)
          BY <1>2
        <4>2. list.elem[order[i - 1]].data <= list.elem[order[i]].data
          BY <1>2, <2>1
        <4> QED BY <2>6, <4>1, <4>2
      <3> QED BY <3>1, <3>2
    <2>12. \A g \in Gen : SpotIn(list', gen'[g]) = NIL /\ SpotIn(list, gen[g]) = NIL
      BY <2>2 DEF IsOpen, SpotIn
    <2>13. UNCHANGED [g \in Gen |-> SpotOf(g)] /\ \A g \in Gen : [h \in Gen |-> SpotOf(h)][g] = NIL
      BY <2>12, Mapped
    <2>14. Api!IsInjective(place)
      BY <2>8, <2>9 DEF Api!IsInjective
    <2>15. Api!Sort
      BY <2>2, <2>8, <2>10, <2>11, <2>13, <2>14 DEF Api!Sort
    <2> QED BY <2>2, <2>15 DEF Api!ListCall
  <1>9. ASSUME NEW c \in Free, NEW d \in Data, NewBegin(c, d) \/ NewEnd(c, d)
        PROVE  Api!ListCall
    <2>1. CASE NewBegin(c, d)
      <3>1. call' = "lsNewBegin"
        BY <2>1 DEF NewBegin, Returns
      <3> QED BY <1>3, <2>1, <3>1 DEF Api!ListCall
    <2>2. CASE NewEnd(c, d)
      <3>1. call' = "lsNewEnd"
        BY <2>2 DEF NewEnd, Returns
      <3> QED BY <1>1, <1>4, <2>2, <3>1 DEF Api!ListCall
    <2> QED BY <1>9, <2>1, <2>2
  <1> QED BY <1>5, <1>6, <1>7, <1>8, <1>9 DEF ListCall

-----------------------------------------------------------------------------
\* The list, its items and their number, as the calls of generators need them.
LEMMA WalkFacts ==
    ASSUME IInv, NEW w, w = WalkOf(list)
    PROVE  /\ ListInv(list) /\ Sound(list) /\ NIL \notin Live /\ Live \subseteq Cell
           /\ Len(w) \in Nat /\ DOMAIN Items = 1..Len(w) /\ Len(Items) = Len(w)
           /\ \A i \in 1..Len(w) : w[i] \in Live /\ Items[i] = list.elem[w[i]].data
           /\ \A c \in Live : \E i \in 1..Len(w) : w[i] = c
           /\ list.top = IF Len(w) = 0 THEN NIL ELSE w[1]
           /\ list.bot = IF Len(w) = 0 THEN NIL ELSE w[Len(w)]
           /\ \A i \in 1..Len(w) :
                /\ list.elem[w[i]].prev = IF i = 1 THEN NIL ELSE w[i - 1]
                /\ list.elem[w[i]].next = IF i = Len(w) THEN NIL ELSE w[i + 1]
           /\ \A i, j \in 1..Len(w) : w[i] = w[j] => i = j
           /\ gen \in [Gen -> Spots \union {NIL}]
  <1>1. /\ IsAlong(list, w) /\ DOMAIN Items = 1..Len(w) /\ Len(Items) = Len(w)
        /\ \A i \in 1..Len(w) : Items[i] = list.elem[w[i]].data
    BY ItemsSeen
  <1>2. ListInv(list) /\ Sound(list) /\ NIL \notin Live /\ Live \subseteq Cell
    BY AtASpot DEF IInv, ListInv
  <1>3. gen \in [Gen -> Spots \union {NIL}]
    BY DEF IInv
  <1> QED BY <1>1, <1>2, <1>3 DEF IsAlong, Live

\* The spot that a generator is given.
LEMMA NewSpot ==
    ASSUME IInv, NEW w, w = WalkOf(list), NEW k \in 0..Len(w),
           NEW before \in Pointer, NEW after, after = AfterAt(w, k)
    PROVE  /\ Spot(before, after) /= NIL /\ Spot(before, after).after = after
           /\ SpotIn(list, Spot(before, after)) = k
  <1>1. /\ ListInv(list) /\ Len(w) \in Nat
        /\ \A i \in 1..Len(w) : w[i] \in Cell
    BY WalkFacts
  <1>2. after \in Pointer
    BY <1>1 DEF AfterAt, Pointer
  <1>3. Spot(before, after) \in Spots /\ Spot(before, after).after = after
    BY <1>2 DEF Spot, Spots
  <1>4. Spot(before, after) /= NIL
    BY <1>3, NILAssumption
  <1> QED BY <1>1, <1>3, <1>4, SpotIs

\* The calls that open a generator.
LEMMA OpenApi ==
    ASSUME IInv, NEW g \in Gen, Start(g) \/ End(g) \/ \E c \in Live : GenHandle(g, c)
    PROVE  Api!GenCall(g)
  <1> DEFINE w == WalkOf(list)
  <1>0. Len(w) \in Nat
    BY WalkFacts
  <1>1. /\ NIL \notin Live /\ Live \subseteq Cell
        /\ Len(w) \in Nat /\ DOMAIN Items = 1..Len(w) /\ Len(Items) = Len(w)
        /\ \A i \in 1..Len(w) : w[i] \in Live /\ Items[i] = list.elem[w[i]].data
        /\ \A c \in Live : \E i \in 1..Len(w) : w[i] = c
        /\ list.top = IF Len(w) = 0 THEN NIL ELSE w[1]
        /\ list.bot = IF Len(w) = 0 THEN NIL ELSE w[Len(w)]
        /\ \A i \in 1..Len(w) :
             /\ list.elem[w[i]].prev = IF i = 1 THEN NIL ELSE w[i - 1]
             /\ list.elem[w[i]].next = IF i = Len(w) THEN NIL ELSE w[i + 1]
        /\ gen \in [Gen -> Spots \union {NIL}]
    BY WalkFacts
  <1> HIDE DEF w
  <1>2. ASSUME NEW before, before \in Live \union {NIL}, NEW after, OpenAt(g, before, after),
               NEW k \in 0..Len(w), after = AfterAt(w, k)
        PROVE  Api!Open(g, k, item')
    <2>1. before \in Pointer
      BY <1>1, <1>2 DEF Pointer
    <2>2. SpotIn(list, Spot(before, after)) = k
      BY <1>2, <2>1, NewSpot DEF w
    <2>3. SpotIn(list, gen[g]) = NIL
      BY <1>2 DEF OpenAt, IsOpen, SpotIn
    <2>4. gen' = [gen EXCEPT ![g] = Spot(before, after)] /\ UNCHANGED list
      BY <1>2, SMTT(60) DEF OpenAt
    <2>5. Api!Open(g, SpotIn(list, Spot(before, after)), item')
      BY <1>1, <2>3, <2>4, ApiOpen
    <2> QED BY <2>2, <2>5, SMTT(60)
  <1>3. CASE Start(g)
    <2>1. 0 \in 0..Len(w) /\ list.top = AfterAt(w, 0)
      <3>1. 0 \in 0..Len(w) /\ 0 + 1 = 1
        BY <1>0, SMTT(60)
      <3>2. list.top = IF Len(w) = 0 THEN NIL ELSE w[1]
        BY <1>1
      <3> QED BY <3>1, <3>2 DEF AfterAt
    <2>2. Api!Open(g, 0, item')
      BY <1>2, <1>3, <2>1, SMTT(60) DEF Start
    <2>3. call' = "lsStart" /\ item' = NIL
      BY <1>3 DEF Start, Returns
    <2> QED BY <2>2, <2>3 DEF Api!GenCall
  <1>4. CASE End(g)
    <2>1. Len(w) \in 0..Len(w) /\ NIL = AfterAt(w, Len(w)) /\ list.bot \in Live \union {NIL}
      <3>1. Len(w) \in 0..Len(w) /\ NIL = AfterAt(w, Len(w))
        BY <1>0 DEF AfterAt
      <3> QED BY <3>1, AtASpot
    <2>2. Api!Open(g, Len(w), item')
      BY <1>2, <1>4, <2>1 DEF End
    <2>3. call' = "lsEnd" /\ item' = NIL
      BY <1>4 DEF End, Returns
    <2> QED BY <1>1, <2>2, <2>3 DEF Api!GenCall
  <1>5. ASSUME NEW c \in Live, GenHandle(g, c)
        PROVE  Api!GenCall(g)
    <2>1. PICK p \in 1..Len(w) : w[p] = c
      BY <1>1, ZenonT(60)
    <2>2. p \in DOMAIN Items /\ p - 1 \in 0..Len(w) /\ p - 0 \in 0..Len(w) /\ p - 1 /= Len(w) /\ (p - 1) + 1 = p
      <3>1. p \in 1..Len(w) /\ p - 1 \in 0..Len(w) /\ p - 0 \in 0..Len(w) /\ p - 1 /= Len(w) /\ (p - 1) + 1 = p
        BY <1>0, SMTT(60)
      <3> QED BY <1>1, <3>1
    <2>3. call' = "lsGenHandle" /\ item' = Items[p]
      BY <1>1, <1>5, <2>1 DEF GenHandle, Returns
    <2>4. CASE OpenAt(g, list.elem[c].prev, c)
      <3>1. list.elem[c].prev \in Live \union {NIL} /\ c = AfterAt(w, p - 1)
        BY <2>1, <2>2, AtASpot DEF AfterAt
      <3>2. Api!Open(g, p - 1, Items[p])
        BY <1>2, <2>2, <2>3, <2>4, <3>1
      <3>3. 1 \in {0, 1}
        OBVIOUS
      <3> QED BY <2>2, <2>3, <3>2, <3>3 DEF Api!GenCall
    <2>5. CASE OpenAt(g, c, list.elem[c].next)
      <3>1. list.elem[c].next = AfterAt(w, p - 0)
        <4>1. p - 0 = p
          BY <1>0, SMTT(60)
        <4>2. list.elem[w[p]].next = IF p = Len(w) THEN NIL ELSE w[p + 1]
          BY <1>1, Zenon
        <4> QED BY <2>1, <4>1, <4>2 DEF AfterAt
      <3>2. Api!Open(g, p - 0, Items[p])
        BY <1>2, <2>2, <2>3, <2>5, <3>1
      <3>3. 0 \in {0, 1}
        OBVIOUS
      <3> QED BY <2>2, <2>3, <3>2, <3>3 DEF Api!GenCall
    <2> QED BY <1>5, <2>4, <2>5, SMTT(60) DEF GenHandle
  <1> QED BY <1>3, <1>4, <1>5

\* The calls that step a generator or close it.
LEMMA StepApi ==
    ASSUME IInv, NEW g \in Gen, Next(g) \/ Prev(g) \/ Finish(g)
    PROVE  Api!GenCall(g)
  <1> DEFINE w == WalkOf(list)
             k == SpotIn(list, gen[g])
             before == gen[g].before
             after == gen[g].after
  <1>1. /\ NIL \notin Live /\ Live \subseteq Cell
        /\ Len(w) \in Nat /\ DOMAIN Items = 1..Len(w)
        /\ \A i \in 1..Len(w) : w[i] \in Live /\ Items[i] = list.elem[w[i]].data
        /\ \A i \in 1..Len(w) :
             /\ list.elem[w[i]].prev = IF i = 1 THEN NIL ELSE w[i - 1]
             /\ list.elem[w[i]].next = IF i = Len(w) THEN NIL ELSE w[i + 1]
        /\ gen \in [Gen -> Spots \union {NIL}]
    BY WalkFacts
  <1>2. /\ k \in 0..Len(w) /\ k /= NIL /\ after = AfterAt(w, k)
        /\ InPlace(g) => before = BeforeAt(w, k)
    BY WhereItIs DEF Next, Prev, Finish, InPlace
  <1>3. [h \in Gen |-> SpotOf(h)][g] = k
    BY Mapped
  <1> HIDE DEF w, k
  <1>4. CASE Next(g)
    <2>0. call' = "lsNext"
      BY <1>4 DEF Next, Returns
    <2>1. CASE k = Len(w)
      <3>1. after = NIL /\ k + 1 \notin DOMAIN Items
        BY <1>1, <1>2, <2>1 DEF AfterAt
      <3>2. UNCHANGED <<list, gen>> /\ item' = NIL
        BY <1>4, <3>1 DEF Next, Returns
      <3>3. Api!GoTo(g, k + 1, k + 1)
        BY <1>2, <3>1, <3>2, ApiGoNowhere DEF k
      <3> QED BY <1>3, <2>0, <3>3 DEF Api!GenCall
    <2>2. CASE k /= Len(w)
      <3>1. k + 1 \in 1..Len(w) /\ k + 1 \in 0..Len(w)
        BY <1>1, <1>2, <2>2
      <3>2. after = w[k + 1] /\ after \in Live /\ after /= NIL
        BY <1>1, <1>2, <2>2, <3>1 DEF AfterAt
      <3> DEFINE s == Spot(after, list.elem[after].next)
      <3>3. item' = Items[k + 1] /\ gen' = [gen EXCEPT ![g] = s] /\ UNCHANGED list
        BY <1>1, <1>4, <3>1, <3>2 DEF Next, Returns
      <3>4. list.elem[after].next = AfterAt(w, k + 1) /\ after \in Pointer
        BY <1>1, <3>1, <3>2 DEF AfterAt, Pointer
      <3>5. SpotIn(list, s) = k + 1
        BY <3>1, <3>4, NewSpot DEF w
      <3> HIDE DEF s
      <3>6. Api!GoTo(g, k + 1, SpotIn(list, s))
        BY <1>1, <1>2, <3>1, <3>3, ApiGoTo DEF k
      <3> QED BY <1>3, <2>0, <3>5, <3>6 DEF Api!GenCall
    <2> QED BY <2>1, <2>2
  <1>5. CASE Prev(g)
    <2>0. call' = "lsPrev" /\ before = BeforeAt(w, k)
      BY <1>2, <1>5 DEF Prev, Returns
    <2>1. CASE k = 0
      <3>1. before = NIL /\ k \notin DOMAIN Items
        BY <1>1, <2>0, <2>1 DEF BeforeAt
      <3>2. UNCHANGED <<list, gen>> /\ item' = NIL
        BY <1>5, <3>1 DEF Prev, Returns
      <3>3. Api!GoTo(g, k, k - 1)
        BY <1>2, <3>1, <3>2, ApiGoNowhere DEF k
      <3> QED BY <1>3, <2>0, <3>3 DEF Api!GenCall
    <2>2. CASE k /= 0
      <3>1. k \in 1..Len(w) /\ k - 1 \in 0..Len(w) /\ k - 1 /= Len(w) /\ (k - 1) + 1 = k
        BY <1>1, <1>2, <2>2
      <3>2. before = w[k] /\ before \in Live /\ before /= NIL
        BY <1>1, <2>0, <2>2, <3>1 DEF BeforeAt
      <3> DEFINE s == Spot(list.elem[before].prev, before)
      <3>3. item' = Items[k] /\ gen' = [gen EXCEPT ![g] = s] /\ UNCHANGED list
        BY <1>1, <1>5, <3>1, <3>2 DEF Prev, Returns
      <3>4. before = AfterAt(w, k - 1) /\ list.elem[before].prev \in Pointer
        BY <1>1, <3>1, <3>2, AtASpot DEF AfterAt, Pointer
      <3>5. SpotIn(list, s) = k - 1
        BY <3>1, <3>4, NewSpot DEF w
      <3> HIDE DEF s
      <3>6. Api!GoTo(g, k, SpotIn(list, s))
        BY <1>1, <1>2, <3>1, <3>3, ApiGoTo DEF k
      <3> QED BY <1>3, <2>0, <3>5, <3>6 DEF Api!GenCall
    <2> QED BY <2>1, <2>2
  <1>6. CASE Finish(g)
    <2>1. call' = "lsFinish" /\ item' = NIL /\ gen' = [gen EXCEPT ![g] = NIL] /\ UNCHANGED list
      BY <1>6 DEF Finish, Returns
    <2>2. SpotIn(list, NIL) = NIL
      BY DEF SpotIn
    <2>3. Api!Close(g)
      <3>1. gen \in [Gen -> Spots \union {NIL}]
        BY <1>1
      <3>2. /\ [h \in Gen |-> SpotOf(h)]' = [[h \in Gen |-> SpotOf(h)] EXCEPT ![g] = SpotIn(list, NIL)]
            /\ UNCHANGED Items
        BY <2>1, <3>1, ApiMove
      <3> QED BY <1>2, <1>3, <2>1, <2>2, <3>2 DEF Api!Close
    <2> QED BY <2>1, <2>3 DEF Api!GenCall
  <1> QED BY <1>4, <1>5, <1>6

\* The calls that insert at a spot.
LEMMA InsertApi ==
    ASSUME IInv, NEW g \in Gen, NEW c \in Free, NEW d \in Data, InBefore(g, c, d) \/ InAfter(g, c, d)
    PROVE  IF AtFarEnd(g) THEN OnOtherSide(g) ELSE Api!GenCall(g)
  <1> DEFINE w == WalkOf(list)
             k == SpotIn(list, gen[g])
             before == gen[g].before
             after == gen[g].after
             behind == [gen[g] EXCEPT !.before = c]
             ahead == [gen[g] EXCEPT !.after = c]
  <1>0. Len(w) \in Nat
    BY WalkFacts
  <1>1. /\ ListInv(list) /\ Sound(list) /\ NIL \notin Live /\ Live \subseteq Cell
        /\ DOMAIN Items = 1..Len(w) /\ Len(Items) = Len(w)
        /\ \A i \in 1..Len(w) : w[i] \in Live
        /\ gen \in [Gen -> Spots \union {NIL}]
    BY WalkFacts
  <1>2. /\ IsOpen(g) /\ InPlace(g) /\ item' = NIL
        /\ k \in 0..Len(w) /\ k /= NIL /\ after = AfterAt(w, k) /\ before = BeforeAt(w, k)
    <2>1. IsOpen(g) /\ InPlace(g) /\ item' = NIL
      BY DEF InBefore, InAfter, InsertAtSpot, InPlace, Returns
    <2> QED BY <2>1, WhereItIs
  <1>3. gen[g] \in Spots /\ c \in Cell /\ NIL \notin Spots
    BY <1>2, AtASpot, NILAssumption DEF Free
  <1>4. /\ behind \in Spots /\ behind /= NIL /\ behind.after = after
        /\ ahead \in Spots /\ ahead /= NIL /\ ahead.after = c
    BY <1>3 DEF Spots, Pointer
  <1>5. [h \in Gen |-> SpotOf(h)][g] = k /\ SpotOf(g) = k /\ list.length = Len(w)
    BY Mapped, ItemsSeen DEF IsAlong
  <1> HIDE DEF w, k, behind, ahead
  <1>6. (before = NIL <=> k = 0) /\ (after = NIL <=> k = Len(w))
    <2>1. k /= 0 => k \in 1..Len(w)
      BY <1>0, <1>2
    <2>2. k /= Len(w) => k + 1 \in 1..Len(w)
      BY <1>0, <1>2
    <2> QED BY <1>1, <1>2, <2>1, <2>2 DEF AfterAt, BeforeAt
  <1>7. k + 1 \in 1..Len(w) + 1 /\ (k + 1) - 1 = k /\ k \in Nat /\ k >= k
    BY <1>0, <1>2
  <1>8. list' = Splice(list, c, d, before, after)
    <2>1. /\ before \in Live \union {NIL} /\ after \in Live \union {NIL}
          /\ before = NIL => after = list.top
          /\ after = NIL => before = list.bot
      BY <1>2, InPlaceMeans
    <2>2. /\ lsNewBegin(list, c, d) = Splice(list, c, d, NIL, list.top)
          /\ lsNewEnd(list, c, d) = Splice(list, c, d, list.bot, NIL)
          /\ \A b, a \in Live : Between(list, c, d, b, a) = Splice(list, c, d, b, a)
      BY <1>1, OnlySplices DEF Free, Live
    <2>3. CASE before = NIL
      BY <2>1, <2>2, <2>3 DEF InBefore, InAfter, InsertAtSpot
    <2>4. CASE before /= NIL /\ after = NIL
      BY <2>1, <2>2, <2>4 DEF InBefore, InAfter, InsertAtSpot
    <2>5. CASE before /= NIL /\ after /= NIL
      <3>1. list' = Between(list, c, d, before, after)
        BY <2>5 DEF InBefore, InAfter, InsertAtSpot
      <3> QED BY <2>1, <2>2, <2>5, <3>1
    <2> QED BY <2>3, <2>4, <2>5
  <1>9. /\ Items' = InsertAt(Items, k + 1, d)
        /\ \A h \in Gen : gen'[h] = gen[h] => SpotIn(list', gen'[h]) =
              IF SpotIn(list, gen[h]) /= NIL /\ SpotIn(list, gen[h]) >= (k + 1) - 1
              THEN SpotIn(list, gen[h]) + 1 ELSE SpotIn(list, gen[h])
        /\ SpotIn(list', behind) = k + 1
        /\ SpotIn(list', ahead) = k
    <2>1. PICK p \in 1..Len(w) + 1 : p = k + 1
      BY <1>7
    <2>2. /\ Items' = InsertAt(Items, p, d)
          /\ \A h \in Gen : gen'[h] = gen[h] => SpotIn(list', gen'[h]) =
                IF SpotIn(list, gen[h]) /= NIL /\ SpotIn(list, gen[h]) >= p - 1
                THEN SpotIn(list, gen[h]) + 1 ELSE SpotIn(list, gen[h])
          /\ \A h \in Gen : \A s : IsOpen(h) /\ s /= NIL /\ s.after = gen[h].after => SpotIn(list', s) =
                IF SpotIn(list, gen[h]) >= p - 1 THEN SpotIn(list, gen[h]) + 1 ELSE SpotIn(list, gen[h])
          /\ \A s : s /= NIL /\ s.after = c => SpotIn(list', s) = p - 1
      <3>1. w = WalkOf(list) /\ list' = Splice(list, c, d, BeforeAt(w, p - 1), AfterAt(w, p - 1))
        BY <1>2, <1>7, <1>8, <2>1 DEF w
      <3> QED BY <3>1, ListInserts
    <2>3. SpotIn(list', behind) = IF k >= (k + 1) - 1 THEN k + 1 ELSE k
      BY <1>2, <1>4, <2>1, <2>2 DEF k
    <2> QED BY <1>4, <1>7, <2>1, <2>2, <2>3
  <1>10. ASSUME NEW s, gen' = [gen EXCEPT ![g] = s]
         PROVE  Api!InsertHere(g, d, SpotIn(list', s))
    <2>1. gen'[g] = s /\ \A h \in Gen \ {g} : gen'[h] = gen[h]
      BY <1>1, <1>10
    <2>2. /\ k + 1 = SpotIn(list, gen[g]) + 1 /\ SpotIn(list, gen[g]) \in Nat
          /\ Items' = InsertAt(Items, k + 1, d) /\ item' = NIL
          /\ SpotIn(list', gen'[g]) = SpotIn(list', s)
          /\ \A h \in Gen \ {g} : SpotIn(list', gen'[h]) =
               IF SpotIn(list, gen[h]) /= NIL /\ SpotIn(list, gen[h]) >= (k + 1) - 1
               THEN SpotIn(list, gen[h]) + 1 ELSE SpotIn(list, gen[h])
      BY <1>2, <1>7, <1>9, <2>1 DEF k
    <2> QED BY <2>2, ApiInsertHere
  <1>11. CASE InBefore(g, c, d)
    <2>1. gen' = [gen EXCEPT ![g] = IF k /= 0 /\ k = Len(w) THEN ahead ELSE behind]
      BY <1>6, <1>11 DEF InBefore, InsertAtSpot, behind, ahead
    <2>2. call' = "lsInBefore"
      BY <1>11 DEF InBefore, Returns
    <2>3. AtFarEnd(g) <=> k /= 0 /\ k = Len(w)
      BY <1>0, <1>5, <2>2 DEF AtFarEnd
    <2>4. CASE AtFarEnd(g)
      <3>1. Api!InsertHere(g, d, k)
        BY <1>9, <1>10, <2>1, <2>3, <2>4
      <3>2. Api!InsertAfter(g, d)
        BY <1>5, <3>1 DEF Api!InsertAfter
      <3> QED BY <2>2, <2>4, <3>2 DEF OnOtherSide
    <2>5. CASE ~AtFarEnd(g)
      <3>1. Api!InsertHere(g, d, k + 1)
        BY <1>9, <1>10, <2>1, <2>3, <2>5
      <3>2. Api!InsertBefore(g, d)
        BY <1>5, <3>1 DEF Api!InsertBefore
      <3> QED BY <2>2, <2>5, <3>2 DEF Api!GenCall
    <2> QED BY <2>4, <2>5
  <1>12. CASE InAfter(g, c, d)
    <2>1. gen' = [gen EXCEPT ![g] = IF k = 0 THEN behind ELSE ahead]
      BY <1>6, <1>12 DEF InAfter, InsertAtSpot, behind, ahead
    <2>2. call' = "lsInAfter"
      BY <1>12 DEF InAfter, Returns
    <2>3. AtFarEnd(g) <=> k = 0
      BY <1>5, <2>2 DEF AtFarEnd
    <2>4. CASE AtFarEnd(g)
      <3>1. Api!InsertHere(g, d, k + 1)
        BY <1>9, <1>10, <2>1, <2>3, <2>4
      <3>2. Api!InsertBefore(g, d)
        BY <1>5, <3>1 DEF Api!InsertBefore
      <3> QED BY <2>2, <2>4, <3>2 DEF OnOtherSide
    <2>5. CASE ~AtFarEnd(g)
      <3>1. Api!InsertHere(g, d, k)
        BY <1>9, <1>10, <2>1, <2>3, <2>5
      <3>2. Api!InsertAfter(g, d)
        BY <1>5, <3>1 DEF Api!InsertAfter
      <3> QED BY <2>2, <2>5, <3>2 DEF Api!GenCall
    <2> QED BY <2>4, <2>5
  <1> QED BY <1>11, <1>12

\* The removal of an element at a spot.
LEMMA RemovalAtSpot ==
    ASSUME IInv, NEW g \in Gen, NEW w, w = WalkOf(list), NEW p \in 1..Len(w), MayRemove(w[p], {g}),
           list' = Del(list, w[p]), item' = list.elem[w[p]].data,
           NEW s, s /= NIL, s.after = AfterAt(w, p), gen' = [gen EXCEPT ![g] = s],
           NEW k \in {p - 1, p}, k = SpotIn(list, gen[g]), k /= NIL
    PROVE  Api!Delete(p)
  <1>1. /\ ListInv(list) /\ Sound(list) /\ gen \in [Gen -> Spots \union {NIL}]
        /\ DOMAIN Items = 1..Len(w) /\ Items[p] = list.elem[w[p]].data /\ w[p] \in Live
    BY WalkFacts
  <1>2. list' = Excise(list, w[p])
    BY <1>1, OnlyExcises DEF Live
  <1>3. /\ Items' = RemoveAt(Items, p)
        /\ \A h \in Gen : gen'[h] = gen[h] /\ (IsOpen(h) => gen[h].after /= w[p])
             => SpotIn(list', gen'[h]) =
                  IF SpotIn(list, gen[h]) /= NIL /\ SpotIn(list, gen[h]) >= p
                  THEN SpotIn(list, gen[h]) - 1 ELSE SpotIn(list, gen[h])
        /\ SpotIn(list', s) = p - 1
    BY <1>2, ListRemoves
  <1>4. gen'[g] = s /\ \A h \in Gen \ {g} : gen'[h] = gen[h]
    BY <1>1
  <1>5. p \in Int
    OBVIOUS
  <1>6. SpotIn(list', gen'[g]) = IF k /= NIL /\ k >= p THEN k - 1 ELSE k
    <2>1. CASE k = p
      BY <1>3, <1>4, <1>5, <2>1
    <2>2. CASE k = p - 1
      BY <1>3, <1>4, <1>5, <2>2
    <2> QED BY <2>1, <2>2
  <1>7. \A h \in Gen : SpotIn(list', gen'[h]) =
          IF SpotIn(list, gen[h]) /= NIL /\ SpotIn(list, gen[h]) >= p
          THEN SpotIn(list, gen[h]) - 1 ELSE SpotIn(list, gen[h])
    <2>1. ASSUME NEW h \in Gen \ {g}
          PROVE  SpotIn(list', gen'[h]) =
                   IF SpotIn(list, gen[h]) /= NIL /\ SpotIn(list, gen[h]) >= p
                   THEN SpotIn(list, gen[h]) - 1 ELSE SpotIn(list, gen[h])
      BY <1>3, <1>4, <2>1 DEF MayRemove
    <2> QED BY <1>6, <2>1
  <1>8. p \in DOMAIN Items /\ item' = Items[p]
    BY <1>1
  <1> QED BY <1>3, <1>7, <1>8, ApiDelete

\* The calls that delete at a spot.
LEMMA DeleteApi ==
    ASSUME IInv, NEW g \in Gen, DelBefore(g) \/ DelAfter(g)
    PROVE  Api!GenCall(g)
  <1> DEFINE w == WalkOf(list)
             k == SpotIn(list, gen[g])
             before == gen[g].before
             after == gen[g].after
  <1>0. Len(w) \in Nat
    BY WalkFacts
  <1>1. /\ NIL \notin Live /\ Live \subseteq Cell /\ DOMAIN Items = 1..Len(w)
        /\ \A i \in 1..Len(w) : w[i] \in Live
        /\ \A i \in 1..Len(w) : list.elem[w[i]].next = IF i = Len(w) THEN NIL ELSE w[i + 1]
    BY WalkFacts
  <1>2. /\ IsOpen(g) /\ k \in 0..Len(w) /\ k /= NIL /\ after = AfterAt(w, k)
        /\ InPlace(g) => before = BeforeAt(w, k)
    <2>1. IsOpen(g)
      BY DEF DelBefore, DelAfter, InPlace
    <2> QED BY <2>1, WhereItIs
  <1>3. gen[g] \in Spots /\ NIL \notin Spots
    BY <1>2, AtASpot, NILAssumption
  <1>4. [h \in Gen |-> SpotOf(h)][g] = k
    BY Mapped
  <1> HIDE DEF w, k
  <1>5. CASE DelBefore(g)
    <2>0. call' = "lsDelBefore" /\ before = BeforeAt(w, k)
      BY <1>2, <1>5 DEF DelBefore, Returns
    <2>1. CASE k = 0
      <3>1. before = NIL /\ k \notin DOMAIN Items
        BY <1>1, <2>0, <2>1 DEF BeforeAt
      <3>2. UNCHANGED <<list, gen>> /\ item' = NIL
        BY <1>5, <3>1 DEF DelBefore, Returns
      <3>3. Api!Delete(k)
        BY <3>1, <3>2, ApiDeleteNothing
      <3> QED BY <1>2, <1>4, <2>0, <3>3 DEF Api!GenCall
    <2>2. CASE k /= 0
      <3>1. k \in 1..Len(w) /\ k \in {k - 1, k}
        BY <1>0, <1>2, <2>2
      <3>2. before = w[k] /\ before \in Live /\ before /= NIL
        BY <1>1, <2>0, <2>2, <3>1 DEF BeforeAt
      <3> DEFINE s == [gen[g] EXCEPT !.before = list.elem[before].prev]
      <3>3. s /= NIL /\ s.after = AfterAt(w, k)
        <4>1. list.elem[before].prev \in Pointer
          BY <1>1, <3>2, AtASpot DEF Pointer
        <4>2. s \in Spots /\ s.after = gen[g].after
          BY <1>3, <4>1 DEF Spots
        <4> QED BY <1>2, <1>3, <4>2
      <3>4. /\ MayRemove(w[k], {g}) /\ list' = Del(list, w[k]) /\ item' = list.elem[w[k]].data
            /\ gen' = [gen EXCEPT ![g] = s]
        BY <1>5, <3>2 DEF DelBefore, Returns
      <3> HIDE DEF s
      <3>5. w = WalkOf(list) /\ k = SpotIn(list, gen[g])
        BY DEF w, k
      <3>6. Api!Delete(k)
        BY <1>2, <3>1, <3>3, <3>4, <3>5, RemovalAtSpot
      <3> QED BY <1>2, <1>4, <2>0, <3>6 DEF Api!GenCall
    <2> QED BY <2>1, <2>2
  <1>6. CASE DelAfter(g)
    <2>0. call' = "lsDelAfter"
      BY <1>6 DEF DelAfter, Returns
    <2>1. CASE k = Len(w)
      <3>1. after = NIL
        BY <1>2, <2>1 DEF AfterAt
      <3>2. k + 1 \notin DOMAIN Items
        BY <1>0, <1>1, <2>1
      <3>3. UNCHANGED <<list, gen>> /\ item' = NIL
        BY <1>6, <3>1 DEF DelAfter, Returns
      <3>4. Api!Delete(k + 1)
        BY <3>2, <3>3, ApiDeleteNothing
      <3> QED BY <1>2, <1>4, <2>0, <3>4 DEF Api!GenCall
    <2>2. CASE k /= Len(w)
      <3>1. k + 1 \in 1..Len(w) /\ k \in {(k + 1) - 1, k + 1}
        BY <1>0, <1>2, <2>2
      <3>2. after = w[k + 1] /\ after \in Live /\ after /= NIL
        BY <1>1, <1>2, <2>2, <3>1 DEF AfterAt
      <3> DEFINE s == [gen[g] EXCEPT !.after = list.elem[after].next]
      <3>3. s /= NIL /\ s.after = AfterAt(w, k + 1)
        <4>1. list.elem[after].next \in Pointer
          BY <1>1, <3>2, AtASpot DEF Pointer
        <4>2. s \in Spots /\ s.after = list.elem[after].next
          BY <1>3, <4>1 DEF Spots
        <4>3. list.elem[w[k + 1]].next = AfterAt(w, k + 1)
          BY <1>1, <3>1 DEF AfterAt
        <4> QED BY <1>3, <3>2, <4>2, <4>3
      <3>4. /\ MayRemove(w[k + 1], {g}) /\ list' = Del(list, w[k + 1]) /\ item' = list.elem[w[k + 1]].data
            /\ gen' = [gen EXCEPT ![g] = s]
        BY <1>6, <3>2 DEF DelAfter, Returns
      <3> HIDE DEF s
      <3>5. w = WalkOf(list) /\ k = SpotIn(list, gen[g])
        BY DEF w, k
      <3>6. Api!Delete(k + 1)
        BY <1>2, <3>1, <3>3, <3>4, <3>5, RemovalAtSpot
      <3> QED BY <1>2, <1>4, <2>0, <3>6 DEF Api!GenCall
    <2> QED BY <2>1, <2>2
  <1> QED BY <1>5, <1>6

\* The other calls of a generator insert nothing.
LEMMA OnlyInsertions ==
    ASSUME NEW g \in Gen,
           \/ Start(g) \/ End(g) \/ Next(g) \/ Prev(g) \/ DelBefore(g) \/ DelAfter(g) \/ Finish(g)
           \/ \E c \in Live : GenHandle(g, c)
    PROVE  ~AtFarEnd(g)
  <1>1. call' \in {"lsStart", "lsEnd", "lsNext", "lsPrev", "lsDelBefore", "lsDelAfter", "lsFinish",
                   "lsGenHandle"}
    BY DEF Start, End, Next, Prev, DelBefore, DelAfter, Finish, GenHandle, Returns
  <1> QED BY <1>1 DEF AtFarEnd

\* Every step is one of LsApi, or an insertion at the far end, or changes
\* nothing that LsApi sees.
LEMMA StepRefines ==
    ASSUME IInv, [ListCall \/ \E g \in Gen : GenCall(g)]_vars
    PROVE  [\/ Api!ListCall
            \/ \E g \in Gen : IF AtFarEnd(g) THEN OnOtherSide(g) ELSE Api!GenCall(g)]_Api!avars
  <1>1. CASE ListCall
    BY <1>1, ListCallApi
  <1>2. ASSUME NEW g \in Gen, GenCall(g)
        PROVE  IF AtFarEnd(g) THEN OnOtherSide(g) ELSE Api!GenCall(g)
    <2>1. CASE \E c \in Free, d \in Data : InBefore(g, c, d) \/ InAfter(g, c, d)
      BY <2>1, InsertApi
    <2>2. CASE \/ Start(g) \/ End(g) \/ Next(g) \/ Prev(g) \/ DelBefore(g) \/ DelAfter(g) \/ Finish(g)
               \/ \E c \in Live : GenHandle(g, c)
      BY <2>2, OnlyInsertions, OpenApi, StepApi, DeleteApi
    <2> QED BY <1>2, <2>1, <2>2 DEF GenCall
  <1>3. CASE UNCHANGED vars
    <2>1. UNCHANGED <<list, gen, call, item>>
      BY <1>3 DEF vars
    <2>2. UNCHANGED Items /\ UNCHANGED [g \in Gen |-> SpotOf(g)]
      BY <2>1, Mapped
    <2> QED BY <2>1, <2>2 DEF Api!avars
  <1> QED BY <1>1, <1>2, <1>3

LEMMA InitRefines ==
    ASSUME Init
    PROVE  Api!AInit
  <1>1. ListInv(list)
    BY InitInv DEF IInv
  <1> DEFINE w == WalkOf(list)
  <1>2. Items \in Seq(Data) /\ Len(Items) = Len(w) /\ Len(w) = list.length
    BY InitInv, ItemsSeen DEF IsAlong
  <1>3. list.length = 0
    BY DEF Init, lsCreate
  <1>4. Items = <<>>
    BY <1>2, <1>3, EmptySeq
  <1>5. [g \in Gen |-> SpotOf(g)] = [g \in Gen |-> NIL]
    BY DEF Init, SpotOf, IsOpen
  <1>6. call = "lsCreate" /\ item = NIL
    BY DEF Init
  <1> QED BY <1>4, <1>5, <1>6 DEF Api!AInit

\* The doubly linked list with generators that hold pointers into it does what
\* list.txt says of a sequence of items and of spots between them, whatever
\* generators are open: every call inserts, removes, returns and moves the
\* items and the spots it should, and the other generators still generate what
\* they would have generated next. Two insertions are the exception, and their
\* callers' own spot is all that is wrong: lsInBefore at the end of a list and
\* lsInAfter at its beginning each do what is promised of the other.
THEOREM PromiseKeptButAtFarEnd == Spec => KeepsPromiseButAtFarEnd
  <1>1. Init => IInv
    BY InitInv
  <1>2. IInv /\ [ListCall \/ \E g \in Gen : GenCall(g)]_vars => IInv'
    BY Inductive
  <1>3. Init => Api!AInit
    BY InitRefines
  <1>4. IInv /\ [ListCall \/ \E g \in Gen : GenCall(g)]_vars
          => [\/ Api!ListCall
              \/ \E g \in Gen : IF AtFarEnd(g) THEN OnOtherSide(g) ELSE Api!GenCall(g)]_Api!avars
    BY StepRefines
  <1> QED BY <1>1, <1>2, <1>3, <1>4, PTL DEF Spec, KeepsPromiseButAtFarEnd

=============================================================================
