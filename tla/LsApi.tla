------------------------------- MODULE LsApi --------------------------------
(***************************************************************************)
(* What the list package (sis/list) promises: a sequence of items, and     *)
(* generators, each at a spot between two items.  The spot of an open      *)
(* generator is the number of items before it.  Whoever inserts or removes *)
(* an item, the other generators still generate the item they would have   *)
(* generated next.                                                         *)
(***************************************************************************)
EXTENDS Integers, SequencesExt

CONSTANTS Data, Gen, NIL

VARIABLES
    items,
    spot,       \* of each generator, NIL if it is not open
    call,       \* the last call
    item        \* what it returned: an item, or NIL

avars == <<items, spot, call, item>>

AInit == items = <<>> /\ spot = [g \in Gen |-> NIL] /\ call = "lsCreate" /\ item = NIL

\* A spot at the place of the new item is behind it.
Inserted(pos) ==
    [g \in Gen |-> IF spot[g] /= NIL /\ spot[g] >= pos - 1 THEN spot[g] + 1 ELSE spot[g]]

InsertAtEnd(pos, d) == items' = InsertAt(items, pos, d) /\ spot' = Inserted(pos) /\ item' = NIL

\* The caller's own spot is own afterwards.
InsertHere(g, d, own) ==
    /\ spot[g] /= NIL
    /\ items' = InsertAt(items, spot[g] + 1, d)
    /\ spot' = [Inserted(spot[g] + 1) EXCEPT ![g] = own]
    /\ item' = NIL

\* "The item generated by lsNext will be unchanged; the inserted item will be
\* generated by lsPrev" (list.txt:228)
InsertBefore(g, d) == InsertHere(g, d, spot[g] + 1)

\* "The next item generated by lsNext will be the new element. The next item
\* generated by lsPrev is unchanged" (list.txt:239)
InsertAfter(g, d) == InsertHere(g, d, spot[g])

Refuse == item' = NIL /\ UNCHANGED <<items, spot>>

Delete(pos) ==
    IF pos \notin DOMAIN items THEN Refuse
    ELSE /\ items' = RemoveAt(items, pos)
         /\ spot' = [g \in Gen |-> IF spot[g] /= NIL /\ spot[g] >= pos THEN spot[g] - 1 ELSE spot[g]]
         /\ item' = items[pos]

Open(g, at, value) ==
    /\ spot[g] = NIL
    /\ spot' = [spot EXCEPT ![g] = at]
    /\ item' = value
    /\ UNCHANGED items

\* The spot moves across the pos-th item, if there is one.
GoTo(g, pos, at) ==
    /\ spot[g] /= NIL
    /\ IF pos \notin DOMAIN items THEN Refuse
       ELSE spot' = [spot EXCEPT ![g] = at] /\ item' = items[pos] /\ UNCHANGED items

Close(g) == spot[g] /= NIL /\ spot' = [spot EXCEPT ![g] = NIL] /\ item' = NIL /\ UNCHANGED items

\* While no generator is open, the items are put in order.
Sort ==
    /\ \A g \in Gen : spot[g] = NIL
    /\ \E order \in [DOMAIN items -> DOMAIN items] :
        IsInjective(order) /\ items' = [i \in DOMAIN items |-> items[order[i]]]
    /\ \A i \in 2..Len(items') : items'[i - 1] <= items'[i]
    /\ item' = NIL /\ UNCHANGED spot

ListCall ==
    \/ call' = "lsNewBegin" /\ \E d \in Data : InsertAtEnd(1, d)
    \/ call' = "lsNewEnd" /\ \E d \in Data : InsertAtEnd(Len(items) + 1, d)
    \/ call' = "lsDelBegin" /\ Delete(1)
    \/ call' = "lsDelEnd" /\ Delete(Len(items))
    \/ call' = "lsRemoveItem" /\ \E pos \in DOMAIN items : Delete(pos)
    \/ call' = "lsSort" /\ Sort

GenCall(g) ==
    \/ call' = "lsStart" /\ Open(g, 0, NIL)
    \/ call' = "lsEnd" /\ Open(g, Len(items), NIL)
    \/ call' = "lsGenHandle" /\ \E pos \in DOMAIN items, before \in {0, 1} :
                                   Open(g, pos - before, items[pos])
    \/ call' = "lsNext" /\ GoTo(g, spot[g] + 1, spot[g] + 1)
    \/ call' = "lsPrev" /\ GoTo(g, spot[g], spot[g] - 1)
    \/ call' = "lsInBefore" /\ \E d \in Data : InsertBefore(g, d)
    \/ call' = "lsInAfter" /\ \E d \in Data : InsertAfter(g, d)
    \/ call' = "lsDelBefore" /\ spot[g] /= NIL /\ Delete(spot[g])
    \/ call' = "lsDelAfter" /\ spot[g] /= NIL /\ Delete(spot[g] + 1)
    \/ call' = "lsFinish" /\ Close(g)

Spec == AInit /\ [][ListCall \/ \E g \in Gen : GenCall(g)]_avars

=============================================================================
