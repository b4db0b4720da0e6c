------------------------------- MODULE Cover -------------------------------
(***************************************************************************)
(* The logic functions of nodes (sis/node): sums of cubes.                 *)
(*                                                                         *)
(* A node nd keeps its cover nd.F over its pins: a cube gives each pin 0,  *)
(* 1 or 2 (don't care), and two pins may have the same fanin; the flag     *)
(* nd.dup_free remembers that they do not.  To combine two functions the   *)
(* package puts them over a common base, their fanins without repetition:  *)
(* here a cube over a base is the set of its literals <<fanin, value>>,    *)
(* both literals of a fanin being the bad literal 00, and a cover is a set *)
(* of such cubes.  The order of the cubes is not kept, and a combined node *)
(* gets its pins in the order of its fanins' ids, also where the package   *)
(* keeps the order it finds (the complement of one node, the removal of a  *)
(* constant).  A look for repeated fanins that finds none sets the flag in *)
(* the package (nodemisc.c:121); here it stays FALSE until the node is     *)
(* replaced, and the next look finds none either.                          *)
(***************************************************************************)
EXTENDS Integers, SequencesExt

IsFunction(nd) == nd.F \subseteq [DOMAIN nd.fanin -> {0, 1, 2}]

HasDup(nd) == ~IsInjective(nd.fanin)

Consistent(cube) == \A l \in cube : <<l[1], 1 - l[2]>> \notin cube

\* node_sf_adjust: a cube that asks both values of a repeated fanin is
\* dropped, unless the node says that no fanin of its is repeated.
OverBase(nd) ==
    LET cubes == {{<<nd.fanin[i], c[i]>> : i \in {j \in DOMAIN nd.fanin : c[j] /= 2}} : c \in nd.F}
    IN IF nd.dup_free THEN cubes ELSE {c \in cubes : Consistent(c)}

\* sf_contain
Contained(cover) == {c \in cover : ~\E d \in cover : d \subseteq c /\ d /= c}

Or(f, g) == Contained(f \union g)

And(f, g) == Contained({cube \in {c \union d : c \in f, d \in g} : Consistent(cube)})

Base(cover) == {l[1] : l \in UNION cover}

\* node_not: the sum of all the primes of the complement.
Not(f) ==
    LET cubes == {c \in SUBSET (Base(f) \X {0, 1}) : Consistent(c)}
    IN Contained({c \in cubes : \A d \in f : \E l \in d : <<l[1], 1 - l[2]>> \in c})

\* node_algebraic_cofactor: nd = p fanin + q fanin' + r, by the first pin of
\* the fanin.
Quotient(nd, pin, value) ==
    Contained(OverBase([nd EXCEPT !.F = {[c EXCEPT ![pin] = 2] : c \in {d \in @ : d[pin] = value}}]))

\* A slip: the negative quotient is not multiplied by the complement.
SubstituteUncomplemented(nd, pin, g) ==
    Or(Quotient(nd, pin, 2), Or(And(Quotient(nd, pin, 1), g), And(Quotient(nd, pin, 0), g)))

\* The function of nd with g in the place of the pin's fanin.
Substitute(nd, pin, g) ==
    Or(Quotient(nd, pin, 2), Or(And(Quotient(nd, pin, 1), g), And(Quotient(nd, pin, 0), Not(g))))

\* node_minimum_base: the pins are the fanins that occur in a cube.
PinsOf(cover) ==
    [i \in 1..Cardinality(Base(cover)) |->
        CHOOSE x \in Base(cover) : Cardinality({y \in Base(cover) : y < x}) = i - 1]

OverPins(cover, fanin) ==
    {[i \in DOMAIN fanin |-> IF <<fanin[i], 1>> \in c THEN 1
                             ELSE IF <<fanin[i], 0>> \in c THEN 0 ELSE 2] : c \in cover}

\* node_check: the node is minimum base and SCC-minimal.
IsMinimumBase(nd) == \A i \in DOMAIN nd.fanin : \E c \in nd.F : c[i] /= 2

IsSccMinimal(nd) ==
    \A c, d \in nd.F : c /= d => \E i \in DOMAIN c : d[i] /= 2 /\ d[i] /= c[i]

\* node_function, as far as the sweep tells functions apart.
IsConstant(nd) == nd.type = "INTERNAL" /\ nd.fanin = <<>>

IsBuffer(nd) == nd.type = "INTERNAL" /\ nd.F = {<<1>>}

IsInverter(nd) == nd.type = "INTERNAL" /\ nd.F = {<<0>>}

=============================================================================
