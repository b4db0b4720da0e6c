---------------------------- MODULE BddIteCache ----------------------------
(***************************************************************************)
(* One bucket of the ITE cache over a sequence of ITE calls and garbage    *)
(* collections.  A cell here is a node whatever its present address is; a  *)
(* collection gives every node a new address and rewrites the key stored   *)
(* in the bucket, because the key's canonical form reads addresses.        *)
(*                                                                         *)
(* The bucket is shared by every key, the worst case of a hash function;   *)
(* what the recursion of bdd__ITE_ computes is taken to be the function it *)
(* should compute (BddEngine models the recursion itself), so that a wrong   *)
(* answer here can only come from the rewriting.                           *)
(***************************************************************************)
EXTENDS BddIte

CONSTANTS
    One,        \* the cell of manager->bdd.one
    Id,         \* the variable of each cell
    Addr        \* the addresses a cell may have, as the comparison sees them

ASSUME IdAssumption == Id \in [Cell -> Nat] /\ Addr \subseteq Nat /\ One \in Cell

VARIABLES
    addr,       \* where each cell is now
    bucket,     \* the entry of the bucket: its key and the function of its data
    last        \* the call that has just returned: its arguments and its value

vars == <<addr, bucket, last>>

None == [none |-> TRUE]

\* A function is the set of valuations of the cells that satisfy it.
Meaning(p) == {v \in Valuation(One) : Val(v, p)}

IteMeaning(k) == {v \in Valuation(One) : IteVal(v, k)}

Complement(fn) == Valuation(One) \ fn

\* The sign is the low-order bit of an address.
PtrAddr == [p \in Ptr |-> 2 * addr[p.cell] + (IF p.neg THEN 1 ELSE 0)]

Inline(k) == Canonicalize(One, InlineGreater(Id, PtrAddr), k)

Called(k) == Canonicalize(One, GreaterThanEqual(Id), k)

-----------------------------------------------------------------------------

Init ==
    /\ addr \in [Cell -> Addr]
    /\ bucket = None
    /\ last = None

\* f is a constant, or the other two arguments decide.
AnswerTrivial(k) ==
    LET c == VarToConst(One, k)
    IN /\ IF IS_CONSTANT(One, k.f)
          THEN last' = [args |-> k,
                        fn |-> Meaning(IF k.f = ONE(One) THEN k.g ELSE k.h)]
          ELSE /\ Trivial(One, c)
               /\ last' = [args |-> k, fn |-> Meaning(TrivialValue(One, c))]
       /\ UNCHANGED <<addr, bucket>>

\* The canonical triple is looked up.  A hit answers with the data; a miss
\* computes the answer and stores it, over whatever the bucket held.
AnswerCached(k) ==
    LET c == VarToConst(One, k)
        can == Inline(c)
        hit == bucket /= None /\ bucket.key = can.key
        fn == IF hit THEN bucket.fn ELSE IteMeaning(can.key)
    IN /\ ~IS_CONSTANT(One, k.f)
       /\ ~Trivial(One, c)
       /\ last' = [args |-> k,
                   fn |-> IF can.complement THEN Complement(fn) ELSE fn]
       /\ bucket' = [key |-> can.key, fn |-> fn]
       /\ UNCHANGED addr

\* Addresses change, and scan_hashcache stores the entry under the key
\* bdd_ite_canonicalize_ite_inputs makes of it, its fourth result unused.
Rescan ==
    /\ addr' \in [Cell -> Addr]
    /\ bucket' = IF bucket = None THEN None
                 ELSE [bucket EXCEPT !.key = Called(bucket.key).key]
    /\ UNCHANGED last

\* One of the four pointers of the entry was not forwarded.
RescanDrops ==
    /\ bucket /= None
    /\ addr' \in [Cell -> Addr]
    /\ bucket' = None
    /\ UNCHANGED last

\* The caller goes on with the value.
Resume == last /= None /\ last' = None /\ UNCHANGED <<addr, bucket>>

Next ==
    \/ last = None /\ \E k \in Triple : AnswerTrivial(k) \/ AnswerCached(k)
    \/ last = None /\ (Rescan \/ RescanDrops)
    \/ Resume

Spec == Init /\ [][Next]_vars

-----------------------------------------------------------------------------
(* Every call of bdd__ITE_ returns the function it was asked for, whether  *)
(* it was decided by a rewriting rule, found in the cache under a key      *)
(* written before or after a collection, or computed.                      *)
AnswersAreRight == last /= None => last.fn = IteMeaning(last.args)

(* An entry keeps meaning what it meant when it was stored.  scan_hashcache*)
(* drops the complement flag of the rewriting, so this holds only because  *)
(* rewriting a stored key never sets it.                                   *)
EntryIsSound == bucket /= None => bucket.fn = IteMeaning(bucket.key)

(* The first two arguments of a stored key are regular: the shortcut of    *)
(* bdd__ITE_ passes the second one to bdd_find_or_add as a T pointer, which*)
(* may not be complemented, and the key must be found again in this form.  *)
KeyIsPositive ==
    bucket /= None => ~IS_COMPLEMENT(bucket.key.f) /\ ~IS_COMPLEMENT(bucket.key.g)

(* The inline rewriting is "Equivalent to call to                          *)
(* bdd_ite_canonicalize_ite_inputs" (ite.c:165): both give the key that a  *)
(* call is looked up under.                                                *)
InlineIsTheCall ==
    (last /= None /\ ~IS_CONSTANT(One, last.args.f)) =>
        LET c == VarToConst(One, last.args)
        IN ~Trivial(One, c) => Inline(c) = Called(c)

=============================================================================
