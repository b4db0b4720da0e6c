------------------------------- MODULE MCBddGc -------------------------------
(***************************************************************************)
(* Two half spaces of a few cells, two variables, and a cache entry of a   *)
(* key and a value, which may be NIL.  Roots are assigned one at a time.   *)
(***************************************************************************)
EXTENDS BddGc, TLC

CONSTANTS a1, a2, a3, b1, b2, b3, one, t, e, x

MCCell == {a1, a2, a3, b1, b2, b3}
MCHalfOf == [c \in MCCell |-> IF c \in {a1, a2, a3} THEN 0 ELSE 1]
MCSymmetry == Permutations({a1, a2, a3}) \union Permutations({b1, b2, b3})

MCEntries == {entry \in [Slot -> Held \union {NIL}] : entry["key"] /= NIL}

MCNext ==
    \/ \E l \in Loc, p \in Obtainable : Assign(l, p)
    \/ FindOrAdd
    \/ \E entry \in MCEntries, lost \in SUBSET weak : CacheInsert(entry, lost)
    \/ \E lost \in SUBSET weak : CacheDrop(lost)
    \/ StartGc
    \/ AbortGc
    \/ Collect

MCSpec == Init /\ [][MCNext]_vars

=============================================================================
