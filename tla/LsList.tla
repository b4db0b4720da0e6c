------------------------------- MODULE LsList -------------------------------
(***************************************************************************)
(* The list package (sis/list): a doubly linked list and its generators,   *)
(* each with the element before its spot and the element after it.         *)
(*                                                                         *)
(* elem gives each cell of memory the list element in it, NIL if it is     *)
(* free: to follow a pointer to a free cell is an error.  A generator is   *)
(* out of place when its two elements are not neighbours any more, because *)
(* somebody else has inserted or removed an element there.  The package    *)
(* knows nothing of that; its callers go on, with lsNext, lsDelAfter or    *)
(* lsFinish only, and nobody removes the element another's generator will  *)
(* generate next.  Both are conditions of the actions here.                *)
(***************************************************************************)
EXTENDS Integers, SequencesExt

CONSTANTS Cell, Data, Gen, NIL

Pointer == Cell \union {NIL}
Elements == [data : Data, prev : Pointer, next : Pointer]
Spots == [before : Pointer, after : Pointer]

ASSUME NILAssumption == NIL \notin Cell \union Elements \union Spots \union Nat

\* The compare function of lsSort is taken to be the order of numbers.
ASSUME DataAssumption == Data \subseteq Int

VARIABLES
    list,       \* the descriptor, and the memory the elements are in
    gen,        \* of each generator, NIL if it is not open
    call,       \* the last call
    item        \* what it returned: an item, or NIL

vars == <<list, gen, call, item>>

Returns(name, value) == call' = name /\ item' = value

lsCreate == [elem |-> [c \in Cell |-> NIL], top |-> NIL, bot |-> NIL, length |-> 0]

LiveIn(l) == {c \in Cell : l.elem[c] /= NIL}

Live == LiveIn(list)

Init == list = lsCreate /\ gen = [g \in Gen |-> NIL] /\ call = "lsCreate" /\ item = NIL

-----------------------------------------------------------------------------
\* Elements in and out of the list. A pointer field of NIL is not followed.
SetPrev(elem, c, p) == IF c = NIL THEN elem ELSE [elem EXCEPT ![c].prev = p]

SetNext(elem, c, n) == IF c = NIL THEN elem ELSE [elem EXCEPT ![c].next = n]

Element(d, p, n) == [data |-> d, prev |-> p, next |-> n]

lsNewBegin(l, c, d) ==
    [elem |-> SetPrev([l.elem EXCEPT ![c] = Element(d, NIL, l.top)], l.top, c),
     top |-> c, bot |-> IF l.top = NIL THEN c ELSE l.bot, length |-> l.length + 1]

lsNewEnd(l, c, d) ==
    [elem |-> SetNext([l.elem EXCEPT ![c] = Element(d, l.bot, NIL)], l.bot, c),
     top |-> IF l.top = NIL THEN c ELSE l.top, bot |-> c, length |-> l.length + 1]

lsDelBegin(l) ==
    LET second == l.elem[l.top].next
    IN [elem |-> [SetPrev(l.elem, second, NIL) EXCEPT ![l.top] = NIL],
        top |-> second, bot |-> IF second = NIL THEN NIL ELSE l.bot, length |-> l.length - 1]

lsDelEnd(l) ==
    LET last == l.elem[l.bot].prev
    IN [elem |-> [SetNext(l.elem, last, NIL) EXCEPT ![l.bot] = NIL],
        top |-> IF last = NIL THEN NIL ELSE l.top, bot |-> last, length |-> l.length - 1]

\* Between two elements
Between(l, c, d, before, after) ==
    [l EXCEPT !.elem = SetPrev(SetNext([@ EXCEPT ![c] = Element(d, before, after)], before, c), after, c),
              !.length = @ + 1]

\* A slip: the element before the last one keeps its pointer.
DelLeavingNext(l, doomed) ==
    IF doomed = l.top THEN lsDelBegin(l)
    ELSE LET e == l.elem[doomed]
         IN [l EXCEPT !.elem = [SetPrev(SetNext(@, e.prev, e.next), e.next, e.prev) EXCEPT ![doomed] = NIL],
                      !.length = @ - 1]

\* The deletion of lsDelBefore and lsDelAfter.
Del(l, doomed) ==
    IF doomed = l.top THEN lsDelBegin(l)
    ELSE IF doomed = l.bot THEN lsDelEnd(l)
    ELSE LET e == l.elem[doomed]
         IN [l EXCEPT !.elem = [SetPrev(SetNext(@, e.prev, e.next), e.next, e.prev) EXCEPT ![doomed] = NIL],
                      !.length = @ - 1]

-----------------------------------------------------------------------------
Spot(before, after) == [before |-> before, after |-> after]

IsOpen(g) == gen[g] /= NIL

NextOf(c) == IF c = NIL THEN list.top ELSE list.elem[c].next

InPlace(g) ==
    /\ IsOpen(g)
    /\ gen[g].before \in Live \union {NIL}
    /\ NextOf(gen[g].before) = gen[g].after

\* The callers' discipline: the element is not what another will generate.
MayRemove(c, own) == \A g \in Gen \ own : IsOpen(g) => gen[g].after /= c

Free == Cell \ Live

NewBegin(c, d) == list' = lsNewBegin(list, c, d) /\ Returns("lsNewBegin", NIL) /\ UNCHANGED gen

NewEnd(c, d) == list' = lsNewEnd(list, c, d) /\ Returns("lsNewEnd", NIL) /\ UNCHANGED gen

DelBegin ==
    /\ IF list.top = NIL THEN Returns("lsDelBegin", NIL) /\ UNCHANGED list
       ELSE /\ MayRemove(list.top, {})
            /\ Returns("lsDelBegin", list.elem[list.top].data) /\ list' = lsDelBegin(list)
    /\ UNCHANGED gen

DelEnd ==
    /\ IF list.bot = NIL THEN Returns("lsDelEnd", NIL) /\ UNCHANGED list
       ELSE /\ MayRemove(list.bot, {})
            /\ Returns("lsDelEnd", list.elem[list.bot].data) /\ list' = lsDelEnd(list)
    /\ UNCHANGED gen

OpenAt(g, before, after) ==
    ~IsOpen(g) /\ gen' = [gen EXCEPT ![g] = Spot(before, after)] /\ UNCHANGED list

Start(g) == OpenAt(g, NIL, list.top) /\ Returns("lsStart", NIL)

End(g) == OpenAt(g, list.bot, NIL) /\ Returns("lsEnd", NIL)

GenHandle(g, c) ==
    /\ OpenAt(g, list.elem[c].prev, c) \/ OpenAt(g, c, list.elem[c].next)
    /\ Returns("lsGenHandle", list.elem[c].data)

Next(g) ==
    /\ IsOpen(g)
    /\ LET after == gen[g].after
       IN IF after = NIL THEN Returns("lsNext", NIL) /\ UNCHANGED gen
          ELSE /\ Returns("lsNext", list.elem[after].data)
               /\ gen' = [gen EXCEPT ![g] = Spot(after, list.elem[after].next)]
    /\ UNCHANGED list

Prev(g) ==
    /\ InPlace(g)
    /\ LET before == gen[g].before
       IN IF before = NIL THEN Returns("lsPrev", NIL) /\ UNCHANGED gen
          ELSE /\ Returns("lsPrev", list.elem[before].data)
               /\ gen' = [gen EXCEPT ![g] = Spot(list.elem[before].prev, before)]
    /\ UNCHANGED list

\* At the ends of the list lsInBefore and lsInAfter do the same.
InsertAtSpot(g, c, d, middle) ==
    LET before == gen[g].before
        after == gen[g].after
    IN /\ InPlace(g)
       /\ CASE before = NIL -> /\ list' = lsNewBegin(list, c, d)
                               /\ gen' = [gen EXCEPT ![g].before = c]
            [] before /= NIL /\ after = NIL -> /\ list' = lsNewEnd(list, c, d)
                                               /\ gen' = [gen EXCEPT ![g].after = c]
            [] OTHER -> list' = Between(list, c, d, before, after) /\ gen' = [gen EXCEPT ![g] = middle]

InBefore(g, c, d) ==
    InsertAtSpot(g, c, d, [gen[g] EXCEPT !.before = c]) /\ Returns("lsInBefore", NIL)

\* A slip: copied from lsInBefore.
InAfterLikeBefore(g, c, d) ==
    InsertAtSpot(g, c, d, [gen[g] EXCEPT !.before = c]) /\ Returns("lsInAfter", NIL)

InAfter(g, c, d) ==
    InsertAtSpot(g, c, d, [gen[g] EXCEPT !.after = c]) /\ Returns("lsInAfter", NIL)

DelBefore(g) ==
    /\ InPlace(g)
    /\ LET doomed == gen[g].before
       IN IF doomed = NIL THEN Returns("lsDelBefore", NIL) /\ UNCHANGED <<list, gen>>
          ELSE /\ MayRemove(doomed, {g})
               /\ gen' = [gen EXCEPT ![g].before = list.elem[doomed].prev]
               /\ Returns("lsDelBefore", list.elem[doomed].data) /\ list' = Del(list, doomed)

\* A slip: the generator stays before the element that is gone.
DelAfterStaying(g) ==
    /\ IsOpen(g)
    /\ LET doomed == gen[g].after
       IN IF doomed = NIL THEN Returns("lsDelAfter", NIL) /\ UNCHANGED list
          ELSE /\ MayRemove(doomed, {g})
               /\ Returns("lsDelAfter", list.elem[doomed].data) /\ list' = Del(list, doomed)
    /\ UNCHANGED gen

DelAfter(g) ==
    /\ IsOpen(g)
    /\ LET doomed == gen[g].after
       IN IF doomed = NIL THEN Returns("lsDelAfter", NIL) /\ UNCHANGED <<list, gen>>
          ELSE /\ MayRemove(doomed, {g})
               /\ gen' = [gen EXCEPT ![g].after = list.elem[doomed].next]
               /\ Returns("lsDelAfter", list.elem[doomed].data) /\ list' = Del(list, doomed)

Finish(g) ==
    IsOpen(g) /\ gen' = [gen EXCEPT ![g] = NIL] /\ Returns("lsFinish", NIL) /\ UNCHANGED list

RemoveItem(c) ==
    /\ MayRemove(c, {})
    /\ list' = Del(list, c) /\ Returns("lsRemoveItem", list.elem[c].data) /\ UNCHANGED gen

-----------------------------------------------------------------------------
\* The forward pointers are sorted, and the backward pointers and the bottom
\* are set from them.
Relinked(l, order) ==
    [elem |-> [c \in Cell |->
         IF l.elem[c] = NIL THEN NIL
         ELSE LET i == CHOOSE j \in DOMAIN order : order[j] = c
              IN Element(l.elem[c].data, IF i = 1 THEN NIL ELSE order[i - 1],
                                         IF i = l.length THEN NIL ELSE order[i + 1])],
     top |-> IF l.length = 0 THEN NIL ELSE order[1],
     bot |-> IF l.length = 0 THEN NIL ELSE order[l.length],
     length |-> l.length]

Sort ==
    /\ \A g \in Gen : ~IsOpen(g)
    /\ \E order \in [1..list.length -> Live] :
        /\ IsInjective(order) /\ Range(order) = Live
        /\ \A i \in 2..list.length : list.elem[order[i - 1]].data <= list.elem[order[i]].data
        /\ list' = Relinked(list, order)
    /\ Returns("lsSort", NIL) /\ UNCHANGED gen

GenCall(g) ==
    \/ Start(g) \/ End(g) \/ Next(g) \/ Prev(g) \/ DelBefore(g) \/ DelAfter(g) \/ Finish(g)
    \/ \E c \in Live : GenHandle(g, c)
    \/ \E c \in Free, d \in Data : InBefore(g, c, d) \/ InAfter(g, c, d)

ListCall ==
    \/ \E c \in Free, d \in Data : NewBegin(c, d) \/ NewEnd(c, d)
    \/ DelBegin \/ DelEnd \/ Sort
    \/ \E c \in Live : RemoveItem(c)

Spec == Init /\ [][ListCall \/ \E g \in Gen : GenCall(g)]_vars

-----------------------------------------------------------------------------
\* The elements from the top: the first n of them.
Walk ==
    LET From[n \in 0..list.length] ==
            IF n = 0 THEN <<>>
            ELSE LET nearer == From[n - 1]
                 IN Append(nearer, IF n = 1 THEN list.top ELSE list.elem[nearer[n - 1]].next)
    IN From[list.length]

\* The pointers of neighbours agree, from top to bottom.
Linked(l) ==
    /\ l.top = NIL <=> l.bot = NIL
    /\ {l.top, l.bot} \subseteq LiveIn(l) \union {NIL}
    /\ \A c \in LiveIn(l) :
        /\ l.elem[c].next = NIL <=> c = l.bot
        /\ l.elem[c].prev = NIL <=> c = l.top
        /\ l.elem[c].next /= NIL =>
            l.elem[c].next \in LiveIn(l) /\ l.elem[l.elem[c].next].prev = c
        /\ l.elem[c].prev /= NIL =>
            l.elem[c].prev \in LiveIn(l) /\ l.elem[l.elem[c].prev].next = c

\* lsNext and lsPrev, lsDelBegin and lsDelEnd see one list, whoever inserted
\* or removed its elements, and no element allocated for it is off it.
ListIsIntact ==
    /\ Linked(list)
    /\ Len(Walk) = Cardinality(Live) /\ Range(Walk) = Live

\* What a generator will generate next has not been freed, even when the
\* element before its spot has been removed behind its back.
SpotsAreLive ==
    \A g \in Gen : IsOpen(g) =>
        /\ gen[g].after \in Live \union {NIL}
        /\ gen[g].before \in Cell \union {NIL}

\* The list implements the sequence and the spots of LsApi.
Items == LET walk == Walk IN [i \in DOMAIN walk |-> list.elem[walk[i]].data]

SpotOf(g) ==
    IF ~IsOpen(g) THEN NIL
    ELSE IF gen[g].after = NIL THEN list.length
    ELSE SelectInSeq(Walk, LAMBDA c : c = gen[g].after) - 1

Api == INSTANCE LsApi WITH items <- Items, spot <- [g \in Gen |-> SpotOf(g)]

\* Every call does to the items and the spots what list.txt documents, and
\* returns the item it says.
KeepsPromise == Api!Spec

\* lsInBefore with an item before the spot and none after it, lsInAfter with
\* none before it.
AtFarEnd(g) ==
    \/ call' = "lsInBefore" /\ SpotOf(g) = list.length /\ list.length > 0
    \/ call' = "lsInAfter" /\ SpotOf(g) = 0

\* Each of the two calls does what is promised of the other one.
OnOtherSide(g) ==
    \/ call' = "lsInBefore" /\ \E d \in Data : Api!InsertAfter(g, d)
    \/ call' = "lsInAfter" /\ \E d \in Data : Api!InsertBefore(g, d)

\* Every call keeps its promise, except that lsInBefore at the end of a list
\* and lsInAfter at its beginning put the new item on the other side of the
\* caller's spot (list.c:520, 556): the items and the spots of the others are
\* those promised there too, and the calls that follow keep their promises.
KeepsPromiseButAtFarEnd ==
    Api!AInit /\ [][\/ Api!ListCall
                   \/ \E g \in Gen : IF AtFarEnd(g) THEN OnOtherSide(g) ELSE Api!GenCall(g)]_Api!avars

=============================================================================
