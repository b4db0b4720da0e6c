------------------------------- MODULE BddIte -------------------------------
(***************************************************************************)
(* The rewriting bdd__ITE_ performs on its three arguments before it looks *)
(* in the ITE cache: variables become constants where the arguments allow  *)
(* it, and equivalent triples are mapped to one representative so that     *)
(* they share a cache entry.                                               *)
(*                                                                         *)
(* The representative depends on an order of pointers, and the code has    *)
(* two of them: the one written inline in bdd__ITE_, and greaterthan_equalp*)
(* which the garbage collector's rescan of the cache uses.  Both read      *)
(* addresses, which a collection changes.  The rewriting is therefore      *)
(* parameterised by the relation gt, a set of pairs of pointers.           *)
(***************************************************************************)
EXTENDS BddPtr, Naturals

Triple == [f: Ptr, g: Ptr, h: Ptr]

\* BDD_IS_CONSTANT, where one is the cell of manager->bdd.one.
IS_CONSTANT(one, p) == p.cell = one

ONE(one) == Reg(one)

ZERO(one) == NOT(Reg(one))

-----------------------------------------------------------------------------
(* ITE(F, F, H) = ITE(F, 1, H), ITE(F, !F, H) = ITE(F, 0, H) and the same  *)
(* for the third argument.                                                 *)

\* p, unless it is f or !f.
Substituted(f, p, same, opposite) ==
    IF f = p THEN same ELSE IF f = NOT(p) THEN opposite ELSE p

VarToConst(one, k) ==
    [f |-> k.f,
     g |-> Substituted(k.f, k.g, ONE(one), ZERO(one)),
     h |-> Substituted(k.f, k.h, ZERO(one), ONE(one))]

\* bdd__ITE_ returns one of its arguments without a lookup.
Trivial(one, k) ==
    \/ k.g = k.h
    \/ k.g = ONE(one) /\ k.h = ZERO(one)
    \/ k.g = ZERO(one) /\ k.h = ONE(one)

TrivialValue(one, k) ==
    CASE k.g = k.h                            -> k.g
      [] k.g = ONE(one) /\ k.h = ZERO(one)    -> k.f
      [] k.g = ZERO(one) /\ k.h = ONE(one)    -> NOT(k.f)

-----------------------------------------------------------------------------
(* The rewriting of two-argument expressions.  Each rule swaps f with the  *)
(* other free argument when f is the greater of the two.                   *)

\* A slip: the two negations of ITE(F, 0, H) = ITE(!H, 0, !F) are left out.
ReorderPlainSwap(one, gt, k) ==
    IF IS_CONSTANT(one, k.g) /\ <<k.f, k.h>> \in gt
    THEN [k EXCEPT !.f = k.h, !.h = k.f]
    ELSE k

\* A slip: those of ITE(F, G, 1) = ITE(!G, !F, 1) are.
ReorderPlainSwap1(one, gt, k) ==
    IF ~IS_CONSTANT(one, k.g) /\ IS_CONSTANT(one, k.h) /\ <<k.f, k.g>> \in gt
    THEN [k EXCEPT !.f = k.g, !.g = k.f]
    ELSE k

Reorder(one, gt, k) ==
    CASE IS_CONSTANT(one, k.g) ->
           IF <<k.f, k.h>> \notin gt THEN k
           ELSE IF k.g = ONE(one)
                THEN [k EXCEPT !.f = k.h, !.h = k.f]
                ELSE [k EXCEPT !.f = NOT(k.h), !.h = NOT(k.f)]
      [] ~IS_CONSTANT(one, k.g) /\ IS_CONSTANT(one, k.h) ->
           IF <<k.f, k.g>> \notin gt THEN k
           ELSE IF k.h = ONE(one)
                THEN [k EXCEPT !.f = NOT(k.g), !.g = NOT(k.f)]
                ELSE [k EXCEPT !.f = k.g, !.g = k.f]
      [] ~IS_CONSTANT(one, k.g) /\ ~IS_CONSTANT(one, k.h) /\ k.g = NOT(k.h) ->
           IF <<k.f, k.g>> \notin gt THEN k
           ELSE [f |-> k.g, g |-> k.f, h |-> NOT(k.f)]
      [] OTHER -> k

\* ITE(!F, G, H) = ITE(F, H, G)
PositiveFirst(k) ==
    IF IS_COMPLEMENT(k.f) THEN [f |-> NOT(k.f), g |-> k.h, h |-> k.g] ELSE k

\* A slip: the second argument is left as it is.
PositiveSecondSkipped(k) == [key |-> k, complement |-> FALSE]

\* ITE(F, !G, H) = ! ITE(F, G, !H); the caller is told with *pcomplement.
PositiveSecond(k) ==
    IF IS_COMPLEMENT(k.g)
    THEN [key |-> [f |-> k.f, g |-> NOT(k.g), h |-> NOT(k.h)],
          complement |-> TRUE]
    ELSE [key |-> k, complement |-> FALSE]

Canonicalize(one, gt, k) == PositiveSecond(PositiveFirst(Reorder(one, gt, k)))

-----------------------------------------------------------------------------
(* The two orders.  id gives each cell its variable, addr each pointer a   *)
(* number: (int) of the address, sign bit included.                        *)

\* bdd__ITE_: a greater variable, or the same one at a greater address.
InlineGreater(id, addr) ==
    {pair \in Ptr \X Ptr :
        LET f == pair[1]
            g == pair[2]
        IN \/ id[f.cell] > id[g.cell]
           \/ id[f.cell] = id[g.cell] /\ addr[f] > addr[g]}

\* greaterthan_equalp.  "if (arbitraryp);" ends in an empty statement: the
\* comparison of addresses is made and its outcome discarded.
GreaterThanEqual(id) ==
    {pair \in Ptr \X Ptr : id[pair[1].cell] >= id[pair[2].cell]}

-----------------------------------------------------------------------------
(* What a pointer and a triple mean, under a valuation of the cells.       *)

Valuation(one) == {v \in [Cell -> BOOLEAN] : v[one]}

Val(v, p) == v[p.cell] /= p.neg

IteVal(v, k) == IF Val(v, k.f) THEN Val(v, k.g) ELSE Val(v, k.h)

=============================================================================
