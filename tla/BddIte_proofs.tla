--------------------------- MODULE BddIte_proofs ---------------------------
(***************************************************************************)
(* The rewriting of ITE arguments keeps the function, for every order of   *)
(* pointers it may be given, and the ITE cache therefore answers rightly   *)
(* however often collections move nodes and rewrite its keys.              *)
(***************************************************************************)
EXTENDS BddIteCache, TLAPS

-----------------------------------------------------------------------------
(* Pointers.                                                               *)

LEMMA PtrFacts ==
    ASSUME NEW p \in Ptr
    PROVE  /\ NOT(p) \in Ptr
           /\ NOT(NOT(p)) = p
           /\ IS_COMPLEMENT(NOT(p)) <=> ~IS_COMPLEMENT(p)
           /\ NOT(p).cell = p.cell
           /\ \A q \in Ptr : p.cell = q.cell => p = q \/ p = NOT(q)
<1>1. /\ p.cell \in Cell /\ p.neg \in BOOLEAN
      /\ p = [cell |-> p.cell, neg |-> p.neg]
  BY DEF Ptr
<1>2. (~p.neg) \in BOOLEAN  OBVIOUS
<1>3. NOT(p) \in Ptr  BY <1>1, <1>2 DEF Ptr, NOT
<1>4. NOT(p).cell = p.cell /\ NOT(p).neg = ~p.neg  BY DEF NOT
<1>5. NOT(NOT(p)) = [cell |-> p.cell, neg |-> ~~p.neg]  BY <1>4 DEF NOT
<1>6. (~~p.neg) = p.neg  BY <1>1
<1>7. NOT(NOT(p)) = p  BY <1>1, <1>5, <1>6
<1>8. ASSUME NEW q \in Ptr, p.cell = q.cell PROVE p = q \/ p = NOT(q)
  <2>1. q.neg \in BOOLEAN /\ q = [cell |-> q.cell, neg |-> q.neg]  BY DEF Ptr
  <2>2. p.neg = q.neg \/ p.neg = ~q.neg  BY <1>1, <2>1
  <2>. QED  BY <1>1, <1>8, <2>1, <2>2 DEF NOT
<1>. QED  BY <1>3, <1>4, <1>7, <1>8 DEF IS_COMPLEMENT

LEMMA ValFacts ==
    ASSUME NEW p \in Ptr, NEW v \in [Cell -> BOOLEAN]
    PROVE  Val(v, p) \in BOOLEAN /\ (Val(v, NOT(p)) <=> ~Val(v, p))
BY DEF Ptr, NOT, Val

LEMMA ConstantFacts ==
    ASSUME NEW one \in Cell
    PROVE  /\ ONE(one) \in Ptr /\ ZERO(one) \in Ptr
           /\ ZERO(one) = NOT(ONE(one)) /\ NOT(ZERO(one)) = ONE(one)
           /\ ~IS_COMPLEMENT(ONE(one)) /\ IS_COMPLEMENT(ZERO(one))
           /\ \A p \in Ptr : IS_CONSTANT(one, p) <=> p = ONE(one) \/ p = ZERO(one)
           /\ \A v \in Valuation(one) : Val(v, ONE(one)) /\ ~Val(v, ZERO(one))
<1>1. ONE(one) \in Ptr /\ ONE(one).cell = one /\ ONE(one).neg = FALSE
  BY DEF ONE, Reg, Ptr
<1>2. ZERO(one) = NOT(ONE(one))  BY DEF ONE, ZERO
<1>3. /\ ZERO(one) \in Ptr /\ NOT(ZERO(one)) = ONE(one)
      /\ ZERO(one).cell = one
      /\ \A p \in Ptr : p.cell = one => p = ONE(one) \/ p = ZERO(one)
  BY <1>1, <1>2, PtrFacts
<1>4. ~IS_COMPLEMENT(ONE(one)) /\ IS_COMPLEMENT(ZERO(one))
  BY <1>1, <1>2, PtrFacts DEF IS_COMPLEMENT
<1>5. ASSUME NEW v \in Valuation(one) PROVE Val(v, ONE(one)) /\ ~Val(v, ZERO(one))
  <2>1. v \in [Cell -> BOOLEAN] /\ v[one]  BY DEF Valuation
  <2>2. Val(v, ONE(one))  BY <1>1, <2>1 DEF Val
  <2>. QED  BY <1>1, <1>2, <2>1, <2>2, ValFacts
<1>. QED  BY <1>1, <1>2, <1>3, <1>4, <1>5 DEF IS_CONSTANT

-----------------------------------------------------------------------------
(* Each stage of the rewriting.                                            *)

LEMMA VarToConstMeaning ==
    ASSUME NEW one \in Cell, NEW k \in Triple
    PROVE  /\ VarToConst(one, k) \in Triple
           /\ VarToConst(one, k).f = k.f
           /\ \A v \in Valuation(one) : IteVal(v, VarToConst(one, k)) <=> IteVal(v, k)
<1>. DEFINE c == VarToConst(one, k)
<1>1. k.f \in Ptr /\ k.g \in Ptr /\ k.h \in Ptr  BY DEF Triple
<1>2. /\ c = [f |-> c.f, g |-> c.g, h |-> c.h]
      /\ c.f = k.f
      /\ c.g = Substituted(k.f, k.g, ONE(one), ZERO(one))
      /\ c.h = Substituted(k.f, k.h, ZERO(one), ONE(one))
  BY DEF VarToConst
<1>3. \/ c.g = ONE(one) /\ k.f = k.g
      \/ c.g = ZERO(one) /\ k.f = NOT(k.g)
      \/ c.g = k.g
  BY <1>2 DEF Substituted
<1>4. \/ c.h = ZERO(one) /\ k.f = k.h
      \/ c.h = ONE(one) /\ k.f = NOT(k.h)
      \/ c.h = k.h
  BY <1>2 DEF Substituted
<1>5. c \in Triple
  <2>1. c.f \in Ptr /\ c.g \in Ptr /\ c.h \in Ptr
    BY <1>1, <1>2, <1>3, <1>4, ConstantFacts
  <2>. QED  BY <1>2, <2>1 DEF Triple
<1>6. ASSUME NEW v \in Valuation(one) PROVE IteVal(v, c) <=> IteVal(v, k)
  <2>1. v \in [Cell -> BOOLEAN]  BY DEF Valuation
  <2>2. Val(v, k.f) => (Val(v, c.g) <=> Val(v, k.g))
    BY <1>1, <1>3, <2>1, ValFacts, ConstantFacts
  <2>3. ~Val(v, k.f) => (Val(v, c.h) <=> Val(v, k.h))
    BY <1>1, <1>4, <2>1, ValFacts, ConstantFacts
  <2>. QED  BY <1>2, <2>2, <2>3 DEF IteVal
<1>. QED  BY <1>2, <1>5, <1>6

\* The rule of Reorder that applies to k, with what is known of its arguments.
LEMMA ReorderCases ==
    ASSUME NEW one \in Cell, NEW gt, NEW k \in Triple
    PROVE  \/ Reorder(one, gt, k) = k
           \/ /\ k.g = ONE(one)
              /\ Reorder(one, gt, k) = [f |-> k.h, g |-> k.g, h |-> k.f]
           \/ /\ k.g = ZERO(one)
              /\ Reorder(one, gt, k) = [f |-> NOT(k.h), g |-> k.g, h |-> NOT(k.f)]
           \/ /\ k.h = ONE(one)
              /\ Reorder(one, gt, k) = [f |-> NOT(k.g), g |-> NOT(k.f), h |-> k.h]
           \/ /\ k.h = ZERO(one)
              /\ Reorder(one, gt, k) = [f |-> k.g, g |-> k.f, h |-> k.h]
           \/ /\ k.g = NOT(k.h)
              /\ Reorder(one, gt, k) = [f |-> k.g, g |-> k.f, h |-> NOT(k.f)]
<1>1. k.f \in Ptr /\ k.g \in Ptr /\ k.h \in Ptr
      /\ k = [f |-> k.f, g |-> k.g, h |-> k.h]
  BY DEF Triple
<1>2. CASE IS_CONSTANT(one, k.g)
  BY <1>1, <1>2, ConstantFacts DEF Reorder
<1>3. CASE ~IS_CONSTANT(one, k.g) /\ IS_CONSTANT(one, k.h)
  BY <1>1, <1>3, ConstantFacts DEF Reorder
<1>4. CASE ~IS_CONSTANT(one, k.g) /\ ~IS_CONSTANT(one, k.h) /\ k.g = NOT(k.h)
  BY <1>1, <1>4 DEF Reorder
<1>5. CASE ~IS_CONSTANT(one, k.g) /\ ~IS_CONSTANT(one, k.h) /\ k.g /= NOT(k.h)
  BY <1>5 DEF Reorder
<1>. QED  BY <1>2, <1>3, <1>4, <1>5

LEMMA ReorderMeaning ==
    ASSUME NEW one \in Cell, NEW gt, NEW k \in Triple
    PROVE  /\ Reorder(one, gt, k) \in Triple
           /\ \A v \in Valuation(one) : IteVal(v, Reorder(one, gt, k)) <=> IteVal(v, k)
<1>. DEFINE r == Reorder(one, gt, k)
<1>1. k.f \in Ptr /\ k.g \in Ptr /\ k.h \in Ptr  BY DEF Triple
<1>2. NOT(k.f) \in Ptr /\ NOT(k.g) \in Ptr /\ NOT(k.h) \in Ptr  BY <1>1, PtrFacts
<1>3. r \in Triple  BY <1>1, <1>2, ReorderCases DEF Triple
<1>4. ASSUME NEW v \in Valuation(one) PROVE IteVal(v, r) <=> IteVal(v, k)
  <2>1. /\ Val(v, k.f) \in BOOLEAN /\ (Val(v, NOT(k.f)) <=> ~Val(v, k.f))
        /\ Val(v, k.g) \in BOOLEAN /\ (Val(v, NOT(k.g)) <=> ~Val(v, k.g))
        /\ Val(v, k.h) \in BOOLEAN /\ (Val(v, NOT(k.h)) <=> ~Val(v, k.h))
        /\ Val(v, ONE(one)) /\ ~Val(v, ZERO(one))
    BY <1>1, ValFacts, ConstantFacts DEF Valuation
  <2>2. CASE k.g = ONE(one) /\ r = [f |-> k.h, g |-> k.g, h |-> k.f]
    BY <2>1, <2>2 DEF IteVal
  <2>3. CASE k.g = ZERO(one) /\ r = [f |-> NOT(k.h), g |-> k.g, h |-> NOT(k.f)]
    BY <2>1, <2>3 DEF IteVal
  <2>4. CASE k.h = ONE(one) /\ r = [f |-> NOT(k.g), g |-> NOT(k.f), h |-> k.h]
    BY <2>1, <2>4 DEF IteVal
  <2>5. CASE k.h = ZERO(one) /\ r = [f |-> k.g, g |-> k.f, h |-> k.h]
    BY <2>1, <2>5 DEF IteVal
  <2>6. CASE k.g = NOT(k.h) /\ r = [f |-> k.g, g |-> k.f, h |-> NOT(k.f)]
    BY <2>1, <2>6 DEF IteVal
  <2>. QED  BY <2>2, <2>3, <2>4, <2>5, <2>6, ReorderCases
<1>. QED  BY <1>3, <1>4

LEMMA PositiveFirstMeaning ==
    ASSUME NEW one \in Cell, NEW k \in Triple
    PROVE  /\ PositiveFirst(k) \in Triple
           /\ ~IS_COMPLEMENT(PositiveFirst(k).f)
           /\ \A v \in Valuation(one) : IteVal(v, PositiveFirst(k)) <=> IteVal(v, k)
<1>1. k.f \in Ptr /\ k.g \in Ptr /\ k.h \in Ptr /\ NOT(k.f) \in Ptr
      /\ (IS_COMPLEMENT(NOT(k.f)) <=> ~IS_COMPLEMENT(k.f))
  BY PtrFacts DEF Triple
<1>2. CASE ~IS_COMPLEMENT(k.f)  BY <1>1, <1>2 DEF PositiveFirst
<1>3. CASE IS_COMPLEMENT(k.f)
  <2>1. PositiveFirst(k) = [f |-> NOT(k.f), g |-> k.h, h |-> k.g]
    BY <1>3 DEF PositiveFirst
  <2>2. PositiveFirst(k) \in Triple  BY <1>1, <2>1 DEF Triple
  <2>3. \A v \in Valuation(one) : Val(v, NOT(k.f)) <=> ~Val(v, k.f)
    BY <1>1, ValFacts DEF Valuation
  <2>. QED  BY <1>1, <1>3, <2>1, <2>2, <2>3 DEF IteVal
<1>. QED  BY <1>2, <1>3

LEMMA PositiveSecondMeaning ==
    ASSUME NEW one \in Cell, NEW k \in Triple
    PROVE  /\ PositiveSecond(k).key \in Triple
           /\ PositiveSecond(k).complement \in BOOLEAN
           /\ PositiveSecond(k).key.f = k.f
           /\ ~IS_COMPLEMENT(PositiveSecond(k).key.g)
           /\ \A v \in Valuation(one) :
                  IF PositiveSecond(k).complement
                  THEN IteVal(v, PositiveSecond(k).key) <=> ~IteVal(v, k)
                  ELSE IteVal(v, PositiveSecond(k).key) <=> IteVal(v, k)
<1>1. /\ k.f \in Ptr /\ k.g \in Ptr /\ k.h \in Ptr
      /\ NOT(k.g) \in Ptr /\ NOT(k.h) \in Ptr
      /\ (IS_COMPLEMENT(NOT(k.g)) <=> ~IS_COMPLEMENT(k.g))
  BY PtrFacts DEF Triple
<1>2. CASE ~IS_COMPLEMENT(k.g)  BY <1>2 DEF PositiveSecond
<1>3. CASE IS_COMPLEMENT(k.g)
  <2>1. /\ PositiveSecond(k).key = [f |-> k.f, g |-> NOT(k.g), h |-> NOT(k.h)]
        /\ PositiveSecond(k).complement = TRUE
    BY <1>3 DEF PositiveSecond
  <2>2. PositiveSecond(k).key \in Triple  BY <1>1, <2>1 DEF Triple
  <2>3. \A v \in Valuation(one) :
            /\ Val(v, k.f) \in BOOLEAN
            /\ Val(v, k.g) \in BOOLEAN /\ Val(v, NOT(k.g)) \in BOOLEAN
            /\ Val(v, k.h) \in BOOLEAN /\ Val(v, NOT(k.h)) \in BOOLEAN
            /\ Val(v, NOT(k.g)) <=> ~Val(v, k.g)
            /\ Val(v, NOT(k.h)) <=> ~Val(v, k.h)
    BY <1>1, ValFacts DEF Valuation
  <2>4. ASSUME NEW v \in Valuation(one)
        PROVE  IteVal(v, PositiveSecond(k).key) <=> ~IteVal(v, k)
    <3>. DEFINE key == PositiveSecond(k).key
    <3>1. key.f = k.f /\ key.g = NOT(k.g) /\ key.h = NOT(k.h)  BY <2>1
    <3>. HIDE DEF key
    <3>2. IteVal(v, key) <=> ~IteVal(v, k)  BY <2>3, <3>1 DEF IteVal
    <3>. QED  BY <3>2 DEF key
  <2>5. ~IS_COMPLEMENT(NOT(k.g))  BY <1>1, <1>3
  <2>6. PositiveSecond(k).complement /\ PositiveSecond(k).complement \in BOOLEAN
    BY <2>1
  <2>. QED  BY <2>1, <2>2, <2>4, <2>5, <2>6
<1>. QED  BY <1>2, <1>3

-----------------------------------------------------------------------------
(* The whole rewriting, for every order of pointers: the key it makes      *)
(* denotes the function it was given, or its complement when it says so,   *)
(* and its first two members are regular.  This is what                    *)
(* bdd_ite_canonicalize_ite_inputs and its inline copy promise: "it does   *)
(* not rewrite any ITE input into an incorrect form".                      *)
THEOREM CanonicalizeMeaning ==
    ASSUME NEW one \in Cell, NEW gt, NEW k \in Triple
    PROVE  LET r == Canonicalize(one, gt, k)
           IN /\ r.key \in Triple
              /\ r.complement \in BOOLEAN
              /\ ~IS_COMPLEMENT(r.key.f)
              /\ ~IS_COMPLEMENT(r.key.g)
              /\ \A v \in Valuation(one) :
                    IF r.complement THEN IteVal(v, r.key) <=> ~IteVal(v, k)
                                    ELSE IteVal(v, r.key) <=> IteVal(v, k)
<1>. DEFINE r1 == Reorder(one, gt, k)
            r2 == PositiveFirst(r1)
<1>1. r1 \in Triple /\ \A v \in Valuation(one) : IteVal(v, r1) <=> IteVal(v, k)
  BY ReorderMeaning
<1>2. /\ r2 \in Triple /\ ~IS_COMPLEMENT(r2.f)
      /\ \A v \in Valuation(one) : IteVal(v, r2) <=> IteVal(v, r1)
  BY <1>1, PositiveFirstMeaning
<1>3. Canonicalize(one, gt, k) = PositiveSecond(r2)  BY DEF Canonicalize
<1>. HIDE DEF r1, r2
<1>. QED  BY <1>1, <1>2, <1>3, PositiveSecondMeaning

(* Rewriting a key that the cache holds never asks for a complement, so    *)
(* that scan_hashcache and scan_constcache lose nothing by ignoring the    *)
(* flag (garb_collect.c:498 and 619), in whatever order the nodes lie      *)
(* after the collection.                                                   *)
THEOREM RewritingAKeyKeepsPhase ==
    ASSUME NEW one \in Cell, NEW gt, NEW k \in Triple,
           ~IS_COMPLEMENT(k.f), ~IS_COMPLEMENT(k.g)
    PROVE  ~Canonicalize(one, gt, k).complement
<1>. DEFINE r == Reorder(one, gt, k)
<1>1. /\ k.f \in Ptr /\ k.g \in Ptr /\ k.h \in Ptr
      /\ (IS_COMPLEMENT(NOT(k.f)) <=> ~IS_COMPLEMENT(k.f))
      /\ (IS_COMPLEMENT(NOT(k.g)) <=> ~IS_COMPLEMENT(k.g))
      /\ NOT(NOT(k.f)) = k.f /\ NOT(NOT(k.g)) = k.g
  BY PtrFacts DEF Triple
<1>2. ~IS_COMPLEMENT(ONE(one)) /\ IS_COMPLEMENT(ZERO(one))  BY ConstantFacts
<1>3. IF IS_COMPLEMENT(r.f) THEN ~IS_COMPLEMENT(r.h) ELSE ~IS_COMPLEMENT(r.g)
  <2>1. CASE r = k  BY <2>1
  <2>2. CASE k.g = ONE(one) /\ r = [f |-> k.h, g |-> k.g, h |-> k.f]
    BY <1>2, <2>2
  <2>3. CASE k.h = ONE(one) /\ r = [f |-> NOT(k.g), g |-> NOT(k.f), h |-> k.h]
    BY <1>1, <1>2, <2>3
  <2>4. CASE k.h = ZERO(one) /\ r = [f |-> k.g, g |-> k.f, h |-> k.h]
    BY <2>4
  <2>5. CASE k.g = NOT(k.h) /\ r = [f |-> k.g, g |-> k.f, h |-> NOT(k.f)]
    BY <2>5
  <2>. QED  BY <1>2, <2>1, <2>2, <2>3, <2>4, <2>5, ReorderCases
<1>4. ~IS_COMPLEMENT(PositiveFirst(r).g)  BY <1>3 DEF PositiveFirst
<1>. QED  BY <1>4 DEF Canonicalize, PositiveSecond

-----------------------------------------------------------------------------
(* The ITE cache.                                                          *)

EntryOK(e) ==
    /\ e = [key |-> e.key, fn |-> e.fn]
    /\ e.key \in Triple
    /\ ~IS_COMPLEMENT(e.key.f)
    /\ ~IS_COMPLEMENT(e.key.g)
    /\ e.fn = IteMeaning(e.key)

CacheInv == bucket /= None => EntryOK(bucket)

LEMMA MeaningOfValue ==
    ASSUME NEW p \in Ptr, NEW k \in Triple,
           \A v \in Valuation(One) : Val(v, p) <=> IteVal(v, k)
    PROVE  Meaning(p) = IteMeaning(k)
BY DEF Meaning, IteMeaning

\* The entry bdd__ITE_ makes, or finds, for a call.
LEMMA InlineEntry ==
    ASSUME NEW k \in Triple
    PROVE  LET c == VarToConst(One, k)
               can == Inline(c)
           IN /\ can.complement \in BOOLEAN
              /\ EntryOK([key |-> can.key, fn |-> IteMeaning(can.key)])
              /\ IteMeaning(k) = IF can.complement
                                 THEN Complement(IteMeaning(can.key))
                                 ELSE IteMeaning(can.key)
<1>. DEFINE c == VarToConst(One, k)
            can == Inline(c)
<1>1. /\ c \in Triple
      /\ \A v \in Valuation(One) : IteVal(v, c) <=> IteVal(v, k)
  BY IdAssumption, VarToConstMeaning
<1>. HIDE DEF c
<1>2. /\ can.key \in Triple
      /\ can.complement \in BOOLEAN
      /\ ~IS_COMPLEMENT(can.key.f)
      /\ ~IS_COMPLEMENT(can.key.g)
      /\ \A v \in Valuation(One) :
            IF can.complement THEN IteVal(v, can.key) <=> ~IteVal(v, c)
                              ELSE IteVal(v, can.key) <=> IteVal(v, c)
  BY <1>1, IdAssumption, CanonicalizeMeaning DEF Inline
<1>. HIDE DEF can
<1>3. IteMeaning(k) = IF can.complement THEN Complement(IteMeaning(can.key))
                                        ELSE IteMeaning(can.key)
  <2>1. CASE can.complement
    BY <1>1, <1>2, <2>1 DEF IteMeaning, Complement
  <2>2. CASE ~can.complement
    BY <1>1, <1>2, <2>2 DEF IteMeaning
  <2>. QED  BY <2>1, <2>2
<1>. QED  BY <1>2, <1>3 DEF EntryOK, can, c

\* The entry a collection makes of one.
LEMMA RescannedEntry ==
    ASSUME NEW e, EntryOK(e)
    PROVE  EntryOK([e EXCEPT !.key = Called(e.key).key])
<1>. DEFINE r == Called(e.key)
<1>1. /\ r.key \in Triple
      /\ ~IS_COMPLEMENT(r.key.f)
      /\ ~IS_COMPLEMENT(r.key.g)
      /\ ~r.complement
      /\ \A v \in Valuation(One) :
            IF r.complement THEN IteVal(v, r.key) <=> ~IteVal(v, e.key)
                            ELSE IteVal(v, r.key) <=> IteVal(v, e.key)
  BY IdAssumption, CanonicalizeMeaning, RewritingAKeyKeepsPhase DEF EntryOK, Called
<1>. HIDE DEF r
<1>2. IteMeaning(r.key) = IteMeaning(e.key)  BY <1>1 DEF IteMeaning
<1>3. [e EXCEPT !.key = r.key] = [key |-> r.key, fn |-> e.fn]  BY DEF EntryOK
<1>. QED  BY <1>1, <1>2, <1>3 DEF EntryOK, r

LEMMA CacheInvInductive == Spec => []CacheInv
<1>1. Init => CacheInv  BY DEF Init, CacheInv
<1>2. CacheInv /\ [Next]_vars => CacheInv'
  <2>. SUFFICES ASSUME CacheInv, [Next]_vars PROVE CacheInv'
    OBVIOUS
  <2>. USE DEF CacheInv
  <2>1. ASSUME NEW k \in Triple, AnswerTrivial(k) PROVE CacheInv'
    BY <2>1 DEF AnswerTrivial
  <2>2. ASSUME NEW k \in Triple, AnswerCached(k) PROVE CacheInv'
    <3>. DEFINE can == Inline(VarToConst(One, k))
                hit == bucket /= None /\ bucket.key = can.key
                fn == IF hit THEN bucket.fn ELSE IteMeaning(can.key)
    <3>1. bucket' = [key |-> can.key, fn |-> fn]  BY <2>2 DEF AnswerCached
    <3>2. EntryOK([key |-> can.key, fn |-> IteMeaning(can.key)])  BY InlineEntry
    <3>3. fn = IteMeaning(can.key)  BY DEF EntryOK
    <3>. QED  BY <3>1, <3>2, <3>3
  <2>3. CASE Rescan
    BY <2>3, RescannedEntry DEF Rescan
  <2>4. CASE RescanDrops  BY <2>4 DEF RescanDrops
  <2>5. CASE Resume  BY <2>5 DEF Resume
  <2>6. CASE UNCHANGED vars  BY <2>6 DEF vars
  <2>. QED  BY <2>1, <2>2, <2>3, <2>4, <2>5, <2>6 DEF Next
<1>. QED  BY <1>1, <1>2, PTL DEF Spec

(* Every entry of the cache means the ITE of its key, and its key has the  *)
(* form in which it is looked up, after any number of collections.         *)
THEOREM CacheIsSound == Spec => [](EntryIsSound /\ KeyIsPositive)
<1>1. CacheInv => EntryIsSound /\ KeyIsPositive
  BY DEF CacheInv, EntryOK, EntryIsSound, KeyIsPositive
<1>. QED  BY <1>1, CacheInvInductive, PTL

(* Every call of bdd__ITE_ answers with the ITE of its three arguments.    *)
THEOREM CallsAreAnswered == Spec => []AnswersAreRight
<1>1. Init => AnswersAreRight  BY DEF Init, AnswersAreRight
<1>2. CacheInv /\ AnswersAreRight /\ [Next]_vars => AnswersAreRight'
  <2>. SUFFICES ASSUME CacheInv, AnswersAreRight, [Next]_vars
                PROVE  AnswersAreRight'
    OBVIOUS
  <2>. USE DEF AnswersAreRight
  <2>1. ASSUME NEW k \in Triple, AnswerTrivial(k) PROVE AnswersAreRight'
    <3>. DEFINE c == VarToConst(One, k)
    <3>1. /\ k.f \in Ptr /\ k.g \in Ptr /\ k.h \in Ptr /\ c.f = k.f
          /\ c \in Triple
          /\ \A v \in Valuation(One) : IteVal(v, c) <=> IteVal(v, k)
      BY IdAssumption, VarToConstMeaning DEF Triple
    <3>2. CASE IS_CONSTANT(One, k.f)
      <4>. DEFINE p == IF k.f = ONE(One) THEN k.g ELSE k.h
      <4>1. last'.args = k /\ last'.fn = Meaning(p)
        BY <2>1, <3>2 DEF AnswerTrivial
      <4>2. \A v \in Valuation(One) : Val(v, p) <=> IteVal(v, k)
        BY <3>1, <3>2, IdAssumption, ConstantFacts DEF IteVal
      <4>. QED  BY <3>1, <4>1, <4>2, MeaningOfValue
    <3>3. CASE ~IS_CONSTANT(One, k.f)
      <4>. DEFINE p == TrivialValue(One, c)
      <4>1. Trivial(One, c) /\ last'.args = k /\ last'.fn = Meaning(p)
        BY <2>1, <3>3 DEF AnswerTrivial
      <4>2. \/ c.g = c.h /\ p = c.g
            \/ c.g = ONE(One) /\ c.h = ZERO(One) /\ p = c.f
            \/ c.g = ZERO(One) /\ c.h = ONE(One) /\ p = NOT(c.f)
        <5>1. ONE(One) /= ZERO(One)  BY IdAssumption, ConstantFacts
        <5>. QED  BY <4>1, <5>1 DEF Trivial, TrivialValue
      <4>. HIDE DEF p
      <4>3. c.f \in Ptr /\ c.g \in Ptr /\ c.h \in Ptr  BY <3>1 DEF Triple
      <4>4. p \in Ptr  BY <4>2, <4>3, PtrFacts
      <4>. HIDE DEF c
      <4>5. ASSUME NEW v \in Valuation(One) PROVE Val(v, p) <=> IteVal(v, k)
        <5>1. /\ Val(v, c.f) \in BOOLEAN /\ Val(v, c.g) \in BOOLEAN
              /\ Val(v, NOT(c.f)) <=> ~Val(v, c.f)
              /\ Val(v, ONE(One)) /\ ~Val(v, ZERO(One))
          BY <4>3, ValFacts, IdAssumption, ConstantFacts DEF Valuation
        <5>2. Val(v, p) <=> IteVal(v, c)  BY <4>2, <5>1 DEF IteVal
        <5>. QED  BY <3>1, <5>2
      <4>. QED  BY <4>1, <4>4, <4>5, MeaningOfValue
    <3>. QED  BY <3>2, <3>3
  <2>2. ASSUME NEW k \in Triple, AnswerCached(k) PROVE AnswersAreRight'
    <3>. DEFINE can == Inline(VarToConst(One, k))
                hit == bucket /= None /\ bucket.key = can.key
                fn == IF hit THEN bucket.fn ELSE IteMeaning(can.key)
    <3>1. last' = [args |-> k,
                   fn |-> IF can.complement THEN Complement(fn) ELSE fn]
      BY <2>2 DEF AnswerCached
    <3>2. fn = IteMeaning(can.key)  BY DEF CacheInv, EntryOK
    <3>. QED  BY <3>1, <3>2, InlineEntry
  <2>3. CASE Rescan  BY <2>3 DEF Rescan
  <2>4. CASE RescanDrops  BY <2>4 DEF RescanDrops
  <2>5. CASE Resume  BY <2>5 DEF Resume
  <2>6. CASE UNCHANGED vars  BY <2>6 DEF vars
  <2>. QED  BY <2>1, <2>2, <2>3, <2>4, <2>5, <2>6 DEF Next
<1>. QED  BY <1>1, <1>2, CacheInvInductive, PTL DEF Spec

=============================================================================
