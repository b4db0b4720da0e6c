-------------------------- MODULE BddEngine_proofs --------------------------
(***************************************************************************)
(* Proofs about the diagrams BddEngine computes with and about its         *)
(* operations, for every number of handles, variables and nodes: which     *)
(* nodes there are, what they mean and what is below them; that a function *)
(* has one diagram; that the recursion of bdd__ITE_ computes what it is    *)
(* asked for, asks for proper nodes only and, whatever is collected in the *)
(* middle of it, holds on to every pointer it still needs; and that the    *)
(* package does what BddApi promises.                                      *)
(*                                                                         *)
(* The definitions are recursive functions.  Induction and recursion over  *)
(* nodes are derived here from the fact that the natural numbers are well  *)
(* founded, for sets and functions rather than for operators.              *)
(***************************************************************************)
EXTENDS BddEngine, TLAPS, NaturalsInduction, WellFoundedInduction, SequenceTheorems

-----------------------------------------------------------------------------
(* Induction.                                                              *)

LEMMA SetInduction ==
    ASSUME NEW S \in SUBSET Nat, 0 \in S, \A n \in S : n + 1 \in S
    PROVE  S = Nat
<1>. SUFFICES ASSUME Nat \ S /= {}  PROVE FALSE  OBVIOUS
<1>1. PICK x \in Nat \ S : \A y \in Nat \ S : ~ (<<y, x>> \in OpToRel(<, Nat))
  BY NatLessThanWellFounded, WFMin
<1>2. x /= 0 /\ x - 1 \in Nat  OBVIOUS
<1>3. x - 1 \notin S  BY <1>2
<1>4. <<x - 1, x>> \in OpToRel(<, Nat)  BY <1>2 DEF OpToRel
<1>. QED  BY <1>1, <1>2, <1>3, <1>4

-----------------------------------------------------------------------------
(* The nodes.                                                              *)

\* The nodes of variable i over a set of cells.
NodesOver(i, below) ==
    {n \in [id: {i}, T: {p \in [cell: below, neg: BOOLEAN] : ~p.neg},
            E: [cell: below, neg: BOOLEAN]] : n.T /= n.E}

IsNodesFrom(f, lo) ==
    f = [i \in lo .. ONE_ID |-> IF i = ONE_ID THEN {OneNode}
                                ELSE f[i + 1] \union NodesOver(i, f[i + 1])]

LEMMA VarFacts ==
    /\ ONE_ID \in Nat /\ ONE_ID \notin Var
    /\ \A i : i \in 0 .. ONE_ID <=> i \in Var \/ i = ONE_ID
    /\ \A i \in Var : i \in Nat /\ i + 1 \in 0 .. ONE_ID
    /\ OneNode.id = ONE_ID
BY EngineAssumption DEF Var, ONE_ID, OneNode

LEMMA NodesFromExists == \E f : IsNodesFrom(f, 0)
<1>. DEFINE S == {k \in Nat : k <= ONE_ID => \E f : IsNodesFrom(f, ONE_ID - k)}
<1>1. ONE_ID \in Nat  BY VarFacts
<1>2. 0 \in S
  <2>. DEFINE f == [i \in ONE_ID .. ONE_ID |-> {OneNode}]
  <2>1. ONE_ID - 0 = ONE_ID /\ \A i \in ONE_ID .. ONE_ID : i = ONE_ID  BY <1>1
  <2>2. IsNodesFrom(f, ONE_ID)  BY <2>1 DEF IsNodesFrom
  <2>. HIDE DEF f
  <2>. QED  BY <2>1, <2>2
<1>3. ASSUME NEW k \in S  PROVE k + 1 \in S
  <2>. SUFFICES ASSUME k + 1 <= ONE_ID  PROVE \E f : IsNodesFrom(f, ONE_ID - (k + 1))
    OBVIOUS
  <2>. DEFINE lo == ONE_ID - k
  <2>1. lo \in Nat /\ lo - 1 \in Nat /\ lo - 1 = ONE_ID - (k + 1) /\ lo - 1 < ONE_ID
    BY <1>1
  <2>2. PICK f : IsNodesFrom(f, lo)  BY <1>1, <1>3
  <2>. HIDE DEF lo
  <2>. DEFINE g == [i \in lo - 1 .. ONE_ID |->
                      IF i = lo - 1 THEN f[lo] \union NodesOver(lo - 1, f[lo]) ELSE f[i]]
  <2>3. ASSUME NEW i \in lo - 1 .. ONE_ID
        PROVE  g[i] = IF i = ONE_ID THEN {OneNode}
                      ELSE g[i + 1] \union NodesOver(i, g[i + 1])
    <3>1. CASE i = lo - 1
      <4>1. i + 1 = lo /\ lo \in lo - 1 .. ONE_ID /\ lo /= lo - 1 /\ i /= ONE_ID
        BY <1>1, <2>1, <3>1
      <4>2. g[i + 1] = f[lo]  BY <4>1
      <4>3. g[i] = f[lo] \union NodesOver(lo - 1, f[lo])  BY <3>1
      <4>. QED  BY <3>1, <4>1, <4>2, <4>3
    <3>2. CASE i /= lo - 1
      <4>1. i \in lo .. ONE_ID  BY <1>1, <2>1, <3>2
      <4>2. f[i] = IF i = ONE_ID THEN {OneNode} ELSE f[i + 1] \union NodesOver(i, f[i + 1])
        BY <2>2, <4>1 DEF IsNodesFrom
      <4>3. g[i] = f[i]  BY <3>2
      <4>4. i /= ONE_ID => g[i + 1] = f[i + 1]
        <5>1. i /= ONE_ID => i + 1 \in lo - 1 .. ONE_ID /\ i + 1 /= lo - 1
          BY <1>1, <2>1, <4>1
        <5>. QED  BY <5>1
      <4>. QED  BY <4>2, <4>3, <4>4
    <3>. QED  BY <3>1, <3>2
  <2>4. IsNodesFrom(g, lo - 1)
    <3>1. g = [i \in lo - 1 .. ONE_ID |-> g[i]]  OBVIOUS
    <3>. HIDE DEF g
    <3>. QED  BY <2>3, <3>1 DEF IsNodesFrom
  <2>. HIDE DEF g
  <2>. QED  BY <2>1, <2>4
<1>4. S = Nat
  <2>. HIDE DEF S
  <2>1. S \in SUBSET Nat  BY DEF S
  <2>. QED  BY <1>2, <1>3, <2>1, SetInduction
<1>5. ONE_ID \in S  BY <1>1, <1>4
<1>6. ONE_ID - ONE_ID = 0 /\ ONE_ID <= ONE_ID  BY <1>1
<1>. QED  BY <1>5, <1>6

LEMMA NodesFromIs == IsNodesFrom(NodesFrom, 0)
<1>1. \E f : f = [i \in 0 .. ONE_ID |->
                    IF i = ONE_ID THEN {OneNode}
                    ELSE LET below == f[i + 1]
                             branch == [cell: below, neg: BOOLEAN]
                         IN below \union
                              {n \in [id: {i}, T: {p \in branch : ~p.neg}, E: branch] : n.T /= n.E}]
  BY NodesFromExists DEF IsNodesFrom, NodesOver
<1>2. NodesFrom = [i \in 0 .. ONE_ID |->
                    IF i = ONE_ID THEN {OneNode}
                    ELSE LET below == NodesFrom[i + 1]
                             branch == [cell: below, neg: BOOLEAN]
                         IN below \union
                              {n \in [id: {i}, T: {p \in branch : ~p.neg}, E: branch] : n.T /= n.E}]
  BY <1>1, Zenon DEF NodesFrom
<1>. QED  BY <1>2 DEF IsNodesFrom, NodesOver

LEMMA NodesFromStep ==
    /\ NodesFrom[ONE_ID] = {OneNode}
    /\ \A i \in Var : NodesFrom[i] = NodesFrom[i + 1] \union NodesOver(i, NodesFrom[i + 1])
<1>1. \A i \in 0 .. ONE_ID :
         NodesFrom[i] = IF i = ONE_ID THEN {OneNode}
                        ELSE NodesFrom[i + 1] \union NodesOver(i, NodesFrom[i + 1])
  BY NodesFromIs DEF IsNodesFrom
<1>. QED  BY <1>1, VarFacts

LEMMA DownwardInduction ==
    ASSUME NEW S, ONE_ID \in S, \A i \in Var : i + 1 \in S => i \in S
    PROVE  0 .. ONE_ID \subseteq S
<1>. DEFINE R == {k \in Nat : k <= ONE_ID => ONE_ID - k \in S}
<1>1. ONE_ID \in Nat  BY VarFacts
<1>2. 0 \in R  BY <1>1
<1>3. ASSUME NEW k \in R  PROVE k + 1 \in R
  <2>. SUFFICES ASSUME k + 1 <= ONE_ID  PROVE ONE_ID - (k + 1) \in S  OBVIOUS
  <2>1. ONE_ID - (k + 1) \in Var /\ (ONE_ID - (k + 1)) + 1 = ONE_ID - k
    BY <1>1 DEF Var, ONE_ID
  <2>2. ONE_ID - k \in S  BY <1>1
  <2>. QED  BY <2>1, <2>2
<1>4. R = Nat
  <2>. HIDE DEF R
  <2>1. R \in SUBSET Nat  BY DEF R
  <2>. QED  BY <1>2, <1>3, <2>1, SetInduction
<1>5. ASSUME NEW i \in 0 .. ONE_ID  PROVE i \in S
  <2>. DEFINE k == ONE_ID - i
  <2>1. k \in Nat /\ k <= ONE_ID /\ ONE_ID - k = i  BY <1>1
  <2>. HIDE DEF k
  <2>2. k \in R  BY <1>4, <2>1
  <2>. QED  BY <2>1, <2>2
<1>. QED  BY <1>5

LEMMA NodesFromMonotone ==
    \A i \in 0 .. ONE_ID : \A j \in i .. ONE_ID : NodesFrom[j] \subseteq NodesFrom[i]
<1>. DEFINE S == {i \in 0 .. ONE_ID : \A j \in i .. ONE_ID : NodesFrom[j] \subseteq NodesFrom[i]}
<1>1. ONE_ID \in S  BY VarFacts
<1>2. ASSUME NEW i \in Var, i + 1 \in S  PROVE i \in S
  <2>1. i \in 0 .. ONE_ID  BY VarFacts
  <2>2. ASSUME NEW j \in i .. ONE_ID  PROVE NodesFrom[j] \subseteq NodesFrom[i]
    <3>1. CASE j = i  BY <3>1
    <3>2. CASE j /= i
      <4>1. j \in i + 1 .. ONE_ID  BY VarFacts, <3>2
      <4>2. NodesFrom[j] \subseteq NodesFrom[i + 1]  BY <1>2, <4>1
      <4>. QED  BY <4>2, NodesFromStep
    <3>. QED  BY <3>1, <3>2
  <2>. QED  BY <2>1, <2>2
<1>3. 0 .. ONE_ID \subseteq S
  <2>. HIDE DEF S
  <2>. QED  BY <1>1, <1>2, DownwardInduction
<1>. QED  BY <1>3

LEMMA NodesFromMembers ==
    \A i \in 0 .. ONE_ID : \A n \in NodesFrom[i] :
        \/ n = OneNode
        \/ n.id \in Var /\ n.id >= i /\ n \in NodesOver(n.id, NodesFrom[n.id + 1])
<1>. DEFINE P(i, n) ==
         \/ n = OneNode
         \/ n.id \in Var /\ n.id >= i /\ n \in NodesOver(n.id, NodesFrom[n.id + 1])
<1>. DEFINE S == {i \in 0 .. ONE_ID : \A n \in NodesFrom[i] : P(i, n)}
<1>1. ONE_ID \in S  BY VarFacts, NodesFromStep
<1>2. ASSUME NEW i \in Var, i + 1 \in S  PROVE i \in S
  <2>1. i \in 0 .. ONE_ID /\ i \in Nat  BY VarFacts
  <2>2. ASSUME NEW n \in NodesFrom[i]  PROVE P(i, n)
    <3>1. CASE n \in NodesFrom[i + 1]
      <4>1. P(i + 1, n)  BY <1>2, <3>1
      <4>2. n.id \in Var /\ n.id >= i + 1 => n.id >= i  BY VarFacts, <2>1
      <4>. QED  BY <4>1, <4>2
    <3>2. CASE n \in NodesOver(i, NodesFrom[i + 1])
      <4>1. n.id = i  BY <3>2 DEF NodesOver
      <4>. QED  BY <2>1, <3>2, <4>1
    <3>. QED  BY <2>2, <3>1, <3>2, NodesFromStep
  <2>. QED  BY <2>1, <2>2
<1>3. 0 .. ONE_ID \subseteq S
  <2>. HIDE DEF S
  <2>. QED  BY <1>1, <1>2, DownwardInduction
<1>. QED  BY <1>3

LEMMA NodesFromIds ==
    \A i \in 0 .. ONE_ID : \A n \in NodesFrom[i] : n \in Node /\ n.id \in i .. ONE_ID
<1>1. 0 \in 0 .. ONE_ID /\ \A i \in 0 .. ONE_ID : i \in 0 .. ONE_ID  BY VarFacts
<1>2. \A i \in 0 .. ONE_ID : NodesFrom[i] \subseteq NodesFrom[0]
  BY <1>1, NodesFromMonotone
<1>3. ASSUME NEW i \in 0 .. ONE_ID, NEW n \in NodesFrom[i]  PROVE n.id \in i .. ONE_ID
  <2>1. n.id = ONE_ID \/ (n.id \in Var /\ n.id >= i)  BY NodesFromMembers, VarFacts
  <2>. QED  BY <2>1, VarFacts DEF Var, ONE_ID
<1>. QED  BY <1>2, <1>3 DEF Node

(* What a node is: the constant, or a variable with a regular T and an E   *)
(* that differs from it, both of them of greater variables.                *)
LEMMA NodeCases ==
    ASSUME NEW n \in Node
    PROVE  /\ n.id \in 0 .. ONE_ID
           /\ \/ n = OneNode
              \/ /\ n.id \in Var /\ n = [id |-> n.id, T |-> n.T, E |-> n.E]
                 /\ n.T \in Ptr /\ n.E \in Ptr /\ n.T /= n.E /\ ~n.T.neg
                 /\ n.T.cell.id > n.id /\ n.E.cell.id > n.id
<1>1. 0 \in 0 .. ONE_ID  BY VarFacts
<1>2. n.id \in 0 .. ONE_ID  BY <1>1, NodesFromIds DEF Node
<1>3. n = OneNode \/ (n.id \in Var /\ n \in NodesOver(n.id, NodesFrom[n.id + 1]))
  BY <1>1, NodesFromMembers DEF Node
<1>4. CASE n.id \in Var /\ n \in NodesOver(n.id, NodesFrom[n.id + 1])
  <2>1. /\ n = [id |-> n.id, T |-> n.T, E |-> n.E]
        /\ n.T \in [cell: NodesFrom[n.id + 1], neg: BOOLEAN]
        /\ n.E \in [cell: NodesFrom[n.id + 1], neg: BOOLEAN]
        /\ n.T /= n.E /\ ~n.T.neg
    BY <1>4 DEF NodesOver
  <2>2. n.id + 1 \in 0 .. ONE_ID  BY <1>4, VarFacts
  <2>3. \A m \in NodesFrom[n.id + 1] : m \in Node /\ m.id \in n.id + 1 .. ONE_ID
    BY <2>2, NodesFromIds
  <2>4. n.T.cell \in NodesFrom[n.id + 1] /\ n.E.cell \in NodesFrom[n.id + 1]  BY <2>1
  <2>5. n.T \in Ptr /\ n.E \in Ptr
    <3>. DEFINE B == NodesFrom[n.id + 1]
    <3>1. B \subseteq Node  BY <2>3
    <3>2. n.T \in [cell: B, neg: BOOLEAN] /\ n.E \in [cell: B, neg: BOOLEAN]  BY <2>1
    <3>. HIDE DEF B
    <3>. QED  BY <3>1, <3>2 DEF Ptr
  <2>6. n.T.cell.id > n.id /\ n.E.cell.id > n.id
    <3>1. \A m \in NodesFrom[n.id + 1] : m.id > n.id  BY <1>4, <2>3, VarFacts
    <3>. QED  BY <2>4, <3>1
  <2>. QED  BY <1>2, <1>4, <2>1, <2>5, <2>6
<1>. QED  BY <1>2, <1>3, <1>4

LEMMA NodeIntro ==
    ASSUME NEW x \in Var, NEW T \in Ptr, NEW E \in Ptr, T /= E, ~T.neg,
           T.cell.id > x, E.cell.id > x
    PROVE  [id |-> x, T |-> T, E |-> E] \in Node
<1>1. ASSUME NEW m \in Node, m.id > x  PROVE m \in NodesFrom[x + 1]
  <2>1. 0 \in 0 .. ONE_ID /\ x + 1 \in 0 .. ONE_ID /\ ONE_ID \in 0 .. ONE_ID  BY VarFacts
  <2>2. m.id \in x + 1 .. ONE_ID /\ m.id \in 0 .. ONE_ID  BY <1>1, NodeCases, VarFacts
  <2>3. m \in NodesFrom[m.id]
    <3>1. CASE m = OneNode  BY <3>1, NodesFromStep, VarFacts
    <3>2. CASE m.id \in Var /\ m \in NodesOver(m.id, NodesFrom[m.id + 1])
      BY <3>2, NodesFromStep
    <3>. QED  BY <2>1, <3>1, <3>2, NodesFromMembers DEF Node
  <2>. QED  BY <2>1, <2>2, <2>3, NodesFromMonotone
<1>2. T \in [cell: NodesFrom[x + 1], neg: BOOLEAN] /\ E \in [cell: NodesFrom[x + 1], neg: BOOLEAN]
  BY <1>1 DEF Ptr
<1>3. [id |-> x, T |-> T, E |-> E] \in NodesOver(x, NodesFrom[x + 1])
  BY <1>2 DEF NodesOver
<1>4. [id |-> x, T |-> T, E |-> E] \in NodesFrom[x]  BY <1>3, NodesFromStep
<1>. QED  BY <1>4, NodesFromIds, VarFacts

LEMMA OneIsNode == OneNode \in Node
BY NodesFromStep, NodesFromIds, VarFacts

(* Induction over the nodes.                                               *)
LEMMA NodeInduction ==
    ASSUME NEW S, OneNode \in S,
           \A n \in Node : n /= OneNode /\ n.T.cell \in S /\ n.E.cell \in S => n \in S
    PROVE  Node \subseteq S
<1>. DEFINE R == {i \in 0 .. ONE_ID : \A n \in Node : n.id >= i => n \in S}
<1>1. ONE_ID \in R
  <2>1. ASSUME NEW n \in Node, n.id >= ONE_ID  PROVE n = OneNode
    <3>1. n.id \notin Var  BY <2>1, NodeCases, VarFacts DEF Var, ONE_ID
    <3>. QED  BY <3>1, NodeCases
  <2>. QED  BY <2>1, VarFacts
<1>2. ASSUME NEW i \in Var, i + 1 \in R  PROVE i \in R
  <2>1. ASSUME NEW n \in Node, n.id >= i  PROVE n \in S
    <3>1. CASE n = OneNode  BY <3>1
    <3>2. CASE n /= OneNode
      <4>1. /\ n.id \in Var /\ n.T \in Ptr /\ n.E \in Ptr
            /\ n.T.cell.id > n.id /\ n.E.cell.id > n.id
        BY <3>2, NodeCases
      <4>2. n.T.cell \in Node /\ n.E.cell \in Node  BY <4>1 DEF Ptr
      <4>3. n.T.cell.id \in 0 .. ONE_ID /\ n.E.cell.id \in 0 .. ONE_ID  BY <4>2, NodeCases
      <4>4. n.T.cell.id >= i + 1 /\ n.E.cell.id >= i + 1
        BY <2>1, <4>1, <4>3, VarFacts DEF Var, ONE_ID
      <4>5. n.T.cell \in S /\ n.E.cell \in S  BY <1>2, <4>2, <4>4
      <4>. QED  BY <3>2, <4>5
    <3>. QED  BY <3>1, <3>2
  <2>. QED  BY <2>1, VarFacts
<1>3. 0 .. ONE_ID \subseteq R
  <2>. HIDE DEF R
  <2>. QED  BY <1>1, <1>2, DownwardInduction
<1>4. 0 \in R  BY <1>3, VarFacts
<1>5. ASSUME NEW n \in Node  PROVE n \in S
  <2>1. n.id >= 0  BY NodeCases, VarFacts
  <2>. QED  BY <1>4, <2>1
<1>. QED  BY <1>5

(* Recursion over the nodes.                                               *)
Bodies(V) == [Node \X V \X V -> V]

IsRecursion(f, V, base, body) ==
    /\ f \in [Node -> V]
    /\ f[OneNode] = base
    /\ \A n \in Node \ {OneNode} : f[n] = body[<<n, f[n.T.cell], f[n.E.cell]>>]

LEMMA NodeRecursion ==
    ASSUME NEW V, NEW base \in V, NEW body \in Bodies(V)
    PROVE  \E f : IsRecursion(f, V, base, body)
<1>. DEFINE Up(i) == {n \in Node : n.id >= i}
            Holds(i, f) == /\ f \in [Up(i) -> V]
                           /\ f[OneNode] = base
                           /\ \A n \in Up(i) \ {OneNode} :
                                f[n] = body[<<n, f[n.T.cell], f[n.E.cell]>>]
            S == {i \in 0 .. ONE_ID : \E f : Holds(i, f)}
<1>1. ONE_ID \in S
  <2>. DEFINE f == [n \in Up(ONE_ID) |-> base]
  <2>1. \A n \in Up(ONE_ID) : n = OneNode  BY NodeCases, VarFacts DEF Var, ONE_ID
  <2>2. OneNode \in Up(ONE_ID)  BY OneIsNode, VarFacts
  <2>3. f \in [Up(ONE_ID) -> V] /\ f[OneNode] = base  BY <2>2
  <2>4. Holds(ONE_ID, f)  BY <2>1, <2>3
  <2>. QED  BY <2>4, VarFacts
<1>2. ASSUME NEW i \in Var, i + 1 \in S  PROVE i \in S
  <2>1. PICK f : Holds(i + 1, f)  BY <1>2
  <2>2. i \in Nat /\ i \in 0 .. ONE_ID /\ OneNode \in Up(i + 1)  BY OneIsNode, VarFacts
  <2>3. ASSUME NEW n \in Up(i) \ {OneNode}
        PROVE  /\ n.T.cell \in Up(i + 1) /\ n.E.cell \in Up(i + 1)
               /\ n \in Node
    <3>1. /\ n \in Node /\ n.id \in Var /\ n.T \in Ptr /\ n.E \in Ptr
          /\ n.T.cell.id > n.id /\ n.E.cell.id > n.id
      BY NodeCases
    <3>2. n.T.cell \in Node /\ n.E.cell \in Node  BY <3>1 DEF Ptr
    <3>3. n.T.cell.id \in 0 .. ONE_ID /\ n.E.cell.id \in 0 .. ONE_ID  BY <3>2, NodeCases
    <3>4. n.T.cell.id >= i + 1 /\ n.E.cell.id >= i + 1
      BY <2>2, <3>1, <3>3, VarFacts DEF Var, ONE_ID
    <3>. QED  BY <3>1, <3>2, <3>4
  <2>4. Up(i + 1) \subseteq Up(i)
    <3>1. ASSUME NEW n \in Node, n.id >= i + 1  PROVE n.id >= i
      BY <2>2, <3>1, NodeCases, VarFacts
    <3>. QED  BY <3>1
  <2>. DEFINE g == [n \in Up(i) |-> IF n \in Up(i + 1) THEN f[n]
                                    ELSE body[<<n, f[n.T.cell], f[n.E.cell]>>]]
  <2>5. /\ f \in [Up(i + 1) -> V] /\ f[OneNode] = base
        /\ \A n \in Up(i + 1) \ {OneNode} : f[n] = body[<<n, f[n.T.cell], f[n.E.cell]>>]
    BY <2>1
  <2>. HIDE DEF Holds
  <2>6. \A n \in Up(i + 1) : g[n] = f[n] /\ f[n] \in V  BY <2>4, <2>5
  <2>7. g[OneNode] = base  BY <2>2, <2>5, <2>6, SMTT(60)
  <2>8. ASSUME NEW n \in Up(i) \ {OneNode}
        PROVE  /\ g[n] = body[<<n, f[n.T.cell], f[n.E.cell]>>]
               /\ f[n.T.cell] = g[n.T.cell] /\ f[n.E.cell] = g[n.E.cell]
               /\ g[n] \in V
    <3>1. /\ n.T.cell \in Up(i + 1) /\ n.E.cell \in Up(i + 1) /\ n \in Node  BY <2>3
    <3>2. /\ f[n.T.cell] \in V /\ f[n.T.cell] = g[n.T.cell]
          /\ f[n.E.cell] \in V /\ f[n.E.cell] = g[n.E.cell]
      BY <2>6, <3>1
    <3>3. g[n] = body[<<n, f[n.T.cell], f[n.E.cell]>>]
      <4>1. CASE n \in Up(i + 1)  BY <2>5, <2>6, <4>1
      <4>2. CASE n \notin Up(i + 1)  BY <4>2, SMTT(60)
      <4>. QED  BY <4>1, <4>2
    <3>4. body[<<n, f[n.T.cell], f[n.E.cell]>>] \in V  BY <3>1, <3>2, Zenon DEF Bodies
    <3>. QED  BY <3>2, <3>3, <3>4, Zenon
  <2>9. g \in [Up(i) -> V]
    <3>1. \A n \in Up(i) : g[n] \in V  BY <2>7, <2>8
    <3>2. g = [n \in Up(i) |-> g[n]]  OBVIOUS
    <3>. HIDE DEF g, Up
    <3>. QED  BY <3>1, <3>2
  <2>10. Holds(i, g)
    <3>. HIDE DEF g, Up
    <3>. QED  BY <2>7, <2>8, <2>9 DEF Holds
  <2>. HIDE DEF g
  <2>. QED  BY <2>2, <2>10
<1>3. 0 .. ONE_ID \subseteq S
  <2>. HIDE DEF S
  <2>. QED  BY <1>1, <1>2, DownwardInduction
<1>4. PICK f : Holds(0, f)
  <2>1. 0 \in S
    <3>. HIDE DEF S
    <3>. QED  BY <1>3, VarFacts
  <2>2. \E f : Holds(0, f)
    <3>. HIDE DEF Holds
    <3>. QED  BY <2>1
  <2>. QED  BY <2>2
<1>5. Up(0) = Node
  <2>1. \A n \in Node : n.id >= 0  BY NodeCases, VarFacts
  <2>. QED  BY <2>1
<1>. QED  BY <1>4, <1>5 DEF IsRecursion

-----------------------------------------------------------------------------
(* The functions of nodes.                                                 *)

\* The branch of node n under valuation v, and whether v satisfies a branch
\* of which the node means the set m.
BranchOf(n, v) == IF v[n.id] THEN n.T ELSE n.E

LEMMA NodeMeaningIs ==
    /\ NodeMeaning \in [Node -> SUBSET Valuations]
    /\ NodeMeaning[OneNode] = Valuations
    /\ \A n \in Node \ {OneNode} :
          NodeMeaning[n] = {v \in Valuations :
                              (v \in NodeMeaning[BranchOf(n, v).cell]) /= BranchOf(n, v).neg}
<1>. DEFINE V == SUBSET Valuations
            body == [t \in Node \X V \X V |->
                       {v \in Valuations :
                          IF v[t[1].id] THEN (v \in t[2]) /= t[1].T.neg
                                        ELSE (v \in t[3]) /= t[1].E.neg}]
            Eq(M, n) == {v \in Valuations :
                           (v \in M[BranchOf(n, v).cell]) /= BranchOf(n, v).neg}
            Is(M) == M = [n \in Node |->
                            IF n = OneNode THEN Valuations
                            ELSE {v \in Valuations :
                                    LET p == IF v[n.id] THEN n.T ELSE n.E
                                    IN (v \in M[p.cell]) /= p.neg}]
<1>1. \E M : Is(M)
  <2>1. Valuations \in V /\ body \in Bodies(V)  BY DEF Bodies
  <2>. HIDE DEF V, body
  <2>2. PICK M : IsRecursion(M, V, Valuations, body)  BY <2>1, NodeRecursion
  <2>. USE DEF V, body
  <2>3. ASSUME NEW n \in Node \ {OneNode}  PROVE M[n] = Eq(M, n)
    <3>1. n.T.cell \in Node /\ n.E.cell \in Node  BY NodeCases DEF Ptr
    <3>2. <<n, M[n.T.cell], M[n.E.cell]>> \in Node \X V \X V
      BY <2>2, <3>1 DEF IsRecursion
    <3>3. M[n] = {v \in Valuations : IF v[n.id] THEN (v \in M[n.T.cell]) /= n.T.neg
                                               ELSE (v \in M[n.E.cell]) /= n.E.neg}
      BY <2>2, <3>2 DEF IsRecursion
    <3>. QED  BY <3>3 DEF BranchOf
  <2>. HIDE DEF body, Eq
  <2>4. M = [n \in Node |-> IF n = OneNode THEN Valuations ELSE Eq(M, n)]
    <3>1. M = [n \in Node |-> M[n]]  BY <2>2 DEF IsRecursion
    <3>. QED  BY <2>2, <2>3, <3>1 DEF IsRecursion
  <2>5. Is(M)  BY <2>4 DEF BranchOf, Eq
  <2>. HIDE DEF Is
  <2>. QED  BY <2>5
<1>2. PICK M : Is(M) /\ NodeMeaning = [n \in Node |-> M[n]]
  BY <1>1, Zenon DEF NodeMeaning
<1>3. NodeMeaning = M  BY <1>2
<1>4. NodeMeaning = [n \in Node |-> IF n = OneNode THEN Valuations ELSE Eq(NodeMeaning, n)]
  <2>1. Is(M)  BY <1>2
  <2>2. M = [n \in Node |-> IF n = OneNode THEN Valuations ELSE Eq(M, n)]  BY <2>1 DEF BranchOf
  <2>. HIDE DEF Is, Eq
  <2>. QED  BY <1>3, <2>2
<1>5. \A n \in Node : Eq(NodeMeaning, n) \in SUBSET Valuations  OBVIOUS
<1>6. \A n \in Node \ {OneNode} : NodeMeaning[n] = Eq(NodeMeaning, n)
  <2>. HIDE DEF Eq
  <2>. QED  BY <1>4
<1>7. NodeMeaning[OneNode] = Valuations /\ NodeMeaning \in [Node -> SUBSET Valuations]
  <2>. HIDE DEF Eq
  <2>1. Valuations \in SUBSET Valuations  OBVIOUS
  <2>. QED  BY <1>4, <1>5, <2>1, OneIsNode
<1>. QED  BY <1>6, <1>7

LEMMA ConeIs ==
    /\ Cone \in [Node -> SUBSET Node]
    /\ Cone[OneNode] = {OneNode}
    /\ \A n \in Node \ {OneNode} : Cone[n] = {n} \union Cone[n.T.cell] \union Cone[n.E.cell]
<1>. DEFINE V == SUBSET Node
            body == [t \in Node \X V \X V |-> {t[1]} \union t[2] \union t[3]]
            Is(C) == C = [n \in Node |->
                            IF n = OneNode THEN {n}
                            ELSE {n} \union C[n.T.cell] \union C[n.E.cell]]
<1>1. \E C : Is(C) /\ C \in [Node -> V]
  <2>1. {OneNode} \in V /\ body \in Bodies(V)  BY OneIsNode DEF Bodies
  <2>. HIDE DEF V, body
  <2>2. PICK C : IsRecursion(C, V, {OneNode}, body)  BY <2>1, NodeRecursion
  <2>. USE DEF V, body
  <2>3. ASSUME NEW n \in Node \ {OneNode}
        PROVE  C[n] = {n} \union C[n.T.cell] \union C[n.E.cell]
    <3>1. n.T.cell \in Node /\ n.E.cell \in Node  BY NodeCases DEF Ptr
    <3>2. <<n, C[n.T.cell], C[n.E.cell]>> \in Node \X V \X V
      BY <2>2, <3>1 DEF IsRecursion
    <3>. QED  BY <2>2, <3>2 DEF IsRecursion
  <2>4. C = [n \in Node |-> C[n]] /\ C \in [Node -> V]  BY <2>2 DEF IsRecursion
  <2>5. Is(C)
    <3>. HIDE DEF V, body
    <3>. QED  BY <2>2, <2>3, <2>4 DEF IsRecursion
  <2>. HIDE DEF Is
  <2>. QED  BY <2>4, <2>5
<1>. DEFINE C0 == CHOOSE C : Is(C)
<1>2. Is(C0)  BY <1>1, Zenon
<1>3. Cone = [n \in Node |-> C0[n]]  BY Zenon DEF Cone
<1>. HIDE DEF C0
<1>4. Cone = C0  BY <1>2, <1>3, SMTT(60)
<1>5. \A n \in Node : Cone[n] = IF n = OneNode THEN {n}
                                ELSE {n} \union Cone[n.T.cell] \union Cone[n.E.cell]
  BY <1>2, <1>4
<1>6. Cone = [n \in Node |-> Cone[n]]  BY <1>2, <1>4
<1>7. Cone \in [Node -> V]
  <2>1. Node \subseteq {n \in Node : Cone[n] \in V}
    <3>. DEFINE S == {n \in Node : Cone[n] \in V}
    <3>1. OneNode \in S  BY <1>5, OneIsNode
    <3>2. ASSUME NEW n \in Node, n /= OneNode, n.T.cell \in S, n.E.cell \in S
          PROVE  n \in S
      BY <1>5, <3>2
    <3>. HIDE DEF S
    <3>3. Node \subseteq S  BY <3>1, <3>2, NodeInduction
    <3>. QED  BY <3>3 DEF S
  <2>. QED  BY <1>6, <2>1
<1>. QED  BY <1>5, <1>7, OneIsNode

-----------------------------------------------------------------------------
(* The functions of pointers.                                              *)

LEMMA PtrParts ==
    ASSUME NEW p \in Ptr
    PROVE  /\ p.cell \in Node /\ p.neg \in BOOLEAN /\ p = [cell |-> p.cell, neg |-> p.neg]
           /\ Top(p) = p.cell.id /\ Top(p) \in 0 .. ONE_ID
           /\ p.cell = OneNode <=> Top(p) = ONE_ID
<1>1. p.cell \in Node /\ p.neg \in BOOLEAN /\ p = [cell |-> p.cell, neg |-> p.neg]
  BY DEF Ptr
<1>2. p.cell.id \in 0 .. ONE_ID /\ (p.cell = OneNode <=> p.cell.id = ONE_ID)
  BY <1>1, NodeCases, VarFacts
<1>. QED  BY <1>1, <1>2 DEF Top

LEMMA PtrOperators ==
    ASSUME NEW p \in Ptr
    PROVE  /\ NOT(p) \in Ptr /\ NOT(p).cell = p.cell /\ NOT(p).neg = ~p.neg
           /\ \A b \in BOOLEAN : /\ Flip(b, p) \in Ptr /\ Flip(b, p).cell = p.cell
                                 /\ Flip(b, p) = IF b THEN NOT(p) ELSE p
           /\ \A n \in Node : Reg(n) \in Ptr /\ Reg(n).cell = n /\ Reg(n).neg = FALSE
<1>1. p.cell \in Node /\ p.neg \in BOOLEAN /\ p = [cell |-> p.cell, neg |-> p.neg]
  BY PtrParts
<1>2. \A b \in BOOLEAN : [cell |-> p.cell, neg |-> b] \in Ptr  BY <1>1 DEF Ptr
<1>3. (~p.neg) \in BOOLEAN  BY <1>1
<1>4. \A b \in BOOLEAN : (b /= p.neg) \in BOOLEAN /\ (b /= p.neg) = IF b THEN ~p.neg ELSE p.neg
  BY <1>1
<1>5. \A n \in Node : Reg(n) \in Ptr /\ Reg(n).cell = n /\ Reg(n).neg = FALSE
  BY DEF Ptr, Reg
<1>. QED  BY <1>1, <1>2, <1>3, <1>4, <1>5 DEF NOT, Flip

LEMMA MeaningIs ==
    ASSUME NEW p \in Ptr
    PROVE  /\ Meaning(p) \subseteq Valuations
           /\ \A v \in Valuations :
                v \in Meaning(p) <=> IF p.neg THEN v \notin NodeMeaning[p.cell]
                                              ELSE v \in NodeMeaning[p.cell]
BY PtrParts, NodeMeaningIs DEF Meaning

LEMMA MeaningOfComplement ==
    ASSUME NEW p \in Ptr
    PROVE  /\ Meaning(NOT(p)) = Valuations \ Meaning(p)
           /\ \A v \in Valuations : v \in Meaning(NOT(p)) <=> v \notin Meaning(p)
           /\ \A b \in BOOLEAN :
                Meaning(Flip(b, p)) = IF b THEN Valuations \ Meaning(p) ELSE Meaning(p)
<1>1. \A v \in Valuations : v \in Meaning(NOT(p)) <=> v \notin Meaning(p)
  <2>1. NOT(p) \in Ptr /\ NOT(p).cell = p.cell /\ NOT(p).neg = ~p.neg  BY PtrOperators
  <2>2. \A v \in Valuations :
           v \in Meaning(NOT(p)) <=> IF NOT(p).neg THEN v \notin NodeMeaning[NOT(p).cell]
                                                   ELSE v \in NodeMeaning[NOT(p).cell]
    BY <2>1, MeaningIs
  <2>3. p.neg \in BOOLEAN  BY PtrParts
  <2>. QED  BY <2>1, <2>2, <2>3, MeaningIs
<1>2. Meaning(NOT(p)) = Valuations \ Meaning(p)  BY <1>1, MeaningIs, PtrOperators
<1>3. ASSUME NEW b \in BOOLEAN
      PROVE  Meaning(Flip(b, p)) = IF b THEN Valuations \ Meaning(p) ELSE Meaning(p)
  <2>1. p = [cell |-> p.cell, neg |-> p.neg] /\ p.neg \in BOOLEAN  BY PtrParts
  <2>2. CASE b
    <3>1. (b /= p.neg) = ~p.neg  BY <2>1, <2>2
    <3>2. Flip(b, p) = NOT(p)  BY <3>1 DEF Flip, NOT
    <3>. QED  BY <1>2, <2>2, <3>2
  <2>3. CASE ~b
    <3>1. (b /= p.neg) = p.neg  BY <2>1, <2>3
    <3>2. Flip(b, p) = p  BY <2>1, <3>1 DEF Flip
    <3>. QED  BY <2>3, <3>2
  <2>. QED  BY <2>2, <2>3
<1>. QED  BY <1>1, <1>2, <1>3

LEMMA MeaningOfConstants ==
    /\ One \in Ptr /\ Zero \in Ptr /\ Zero = NOT(One) /\ NOT(Zero) = One
    /\ One.cell = OneNode /\ Zero.cell = OneNode /\ One.neg = FALSE /\ Zero.neg = TRUE
    /\ Meaning(One) = Valuations /\ Meaning(Zero) = {}
    /\ \A p \in Ptr : p.cell = OneNode => p = One \/ p = Zero
<1>1. One \in Ptr /\ One.cell = OneNode /\ One.neg = FALSE
  BY OneIsNode DEF One, ONE, Reg, Ptr
<1>2. Zero = [cell |-> OneNode, neg |-> TRUE]
  BY DEF Zero, ZERO, NOT, Reg
<1>3. Zero \in Ptr /\ Zero.cell = OneNode /\ Zero.neg = TRUE  BY <1>2, OneIsNode DEF Ptr
<1>4. One = [cell |-> OneNode, neg |-> FALSE]  BY DEF One, ONE, Reg
<1>5. Zero = NOT(One) /\ NOT(Zero) = One  BY <1>2, <1>4 DEF NOT
<1>6. Meaning(One) = Valuations /\ Meaning(Zero) = {}
  BY <1>1, <1>3, NodeMeaningIs DEF Meaning
<1>7. \A p \in Ptr : p.cell = OneNode => p = One \/ p = Zero
  BY <1>2, <1>4, PtrParts
<1>. QED  BY <1>1, <1>3, <1>5, <1>6, <1>7

LEMMA MeaningOfNode ==
    ASSUME NEW n \in Node, n /= OneNode, NEW v \in Valuations
    PROVE  v \in NodeMeaning[n] <=> IF v[n.id] THEN v \in Meaning(n.T) ELSE v \in Meaning(n.E)
<1>1. n.T \in Ptr /\ n.E \in Ptr  BY NodeCases
<1>2. v \in NodeMeaning[n] <=> (v \in NodeMeaning[BranchOf(n, v).cell]) /= BranchOf(n, v).neg
  BY NodeMeaningIs
<1>3. BranchOf(n, v) \in Ptr  BY <1>1 DEF BranchOf
<1>4. v \in NodeMeaning[n] <=> v \in Meaning(BranchOf(n, v))
  BY <1>2, <1>3, MeaningIs, PtrParts
<1>. QED  BY <1>4 DEF BranchOf

LEMMA IteMeaningIs ==
    ASSUME NEW k \in Triple
    PROVE  /\ IteMeaning(k) \subseteq Valuations
           /\ \A v \in Valuations :
                v \in IteMeaning(k) <=> IF v \in Meaning(k.f) THEN v \in Meaning(k.g)
                                                               ELSE v \in Meaning(k.h)
<1>1. k.f \in Ptr /\ k.g \in Ptr /\ k.h \in Ptr  BY DEF Triple
<1>2. Meaning(k.f) \subseteq Valuations /\ Meaning(k.g) \subseteq Valuations
      /\ Meaning(k.h) \subseteq Valuations
  BY <1>1, MeaningIs
<1>. QED  BY <1>2 DEF IteMeaning, IteOf, Meanings

-----------------------------------------------------------------------------
(* What a function says of its diagram.                                    *)

AllTrue == [x \in Var |-> TRUE]

(* T branches are regular: the sign of a pointer is the value of its       *)
(* function where every variable is true.                                  *)
LEMMA SignOfPointer ==
    ASSUME NEW p \in Ptr
    PROVE  AllTrue \in Valuations /\ (p.neg <=> AllTrue \notin Meaning(p))
<1>. DEFINE S == {n \in Node : AllTrue \in NodeMeaning[n]}
<1>1. AllTrue \in Valuations  BY DEF AllTrue, Valuations
<1>2. OneNode \in S  BY <1>1, OneIsNode, NodeMeaningIs
<1>3. ASSUME NEW n \in Node, n /= OneNode, n.T.cell \in S, n.E.cell \in S
      PROVE  n \in S
  <2>1. n.id \in Var /\ n.T \in Ptr /\ ~n.T.neg  BY <1>3, NodeCases
  <2>2. AllTrue[n.id]  BY <2>1 DEF AllTrue
  <2>3. AllTrue \in Meaning(n.T)  BY <1>1, <1>3, <2>1, MeaningIs
  <2>. QED  BY <1>1, <1>3, <2>2, <2>3, MeaningOfNode
<1>4. Node \subseteq S
  <2>. HIDE DEF S
  <2>. QED  BY <1>2, <1>3, NodeInduction
<1>5. p.cell \in S  BY <1>4, PtrParts
<1>. QED  BY <1>1, <1>5, MeaningIs, PtrParts

AgreeFrom(i, v, w) == \A y \in Var : y >= i => v[y] = w[y]

(* A function depends on no variable before its top.                       *)
LEMMA VariablesBeforeTop ==
    ASSUME NEW p \in Ptr, NEW i \in Nat, Top(p) >= i,
           NEW v \in Valuations, NEW w \in Valuations, AgreeFrom(i, v, w)
    PROVE  v \in Meaning(p) <=> w \in Meaning(p)
<1>. DEFINE S == {n \in Node : n.id >= i => (v \in NodeMeaning[n] <=> w \in NodeMeaning[n])}
<1>1. OneNode \in S  BY OneIsNode, NodeMeaningIs
<1>2. ASSUME NEW n \in Node, n /= OneNode, n.T.cell \in S, n.E.cell \in S
      PROVE  n \in S
  <2>. SUFFICES ASSUME n.id >= i  PROVE v \in NodeMeaning[n] <=> w \in NodeMeaning[n]
    OBVIOUS
  <2>1. n.id \in Var /\ n.T \in Ptr /\ n.E \in Ptr /\ n.T.cell.id > n.id /\ n.E.cell.id > n.id
    BY <1>2, NodeCases
  <2>2. v[n.id] = w[n.id]  BY <2>1 DEF AgreeFrom
  <2>3. n.T.cell.id >= i /\ n.E.cell.id >= i
    <3>1. n.id \in Nat /\ n.T.cell.id \in Nat /\ n.E.cell.id \in Nat
      BY <2>1, VarFacts, PtrParts
    <3>. QED  BY <2>1, <3>1
  <2>4. /\ v \in Meaning(n.T) <=> w \in Meaning(n.T)
        /\ v \in Meaning(n.E) <=> w \in Meaning(n.E)
    BY <1>2, <2>1, <2>3, MeaningIs
  <2>. QED  BY <1>2, <2>2, <2>4, MeaningOfNode
<1>3. Node \subseteq S
  <2>. HIDE DEF S
  <2>. QED  BY <1>1, <1>2, NodeInduction
<1>4. p.cell \in S /\ p.cell.id >= i  BY <1>3, PtrParts
<1>. QED  BY <1>4, MeaningIs

SetTo(v, x, b) == [v EXCEPT ![x] = b]

LEMMA SetToFacts ==
    ASSUME NEW v \in Valuations, NEW x \in Var, NEW b \in BOOLEAN
    PROVE  /\ SetTo(v, x, b) \in Valuations /\ SetTo(v, x, b)[x] = b
           /\ AgreeFrom(x + 1, v, SetTo(v, x, b))
           /\ v[x] = b => SetTo(v, x, b) = v
           /\ \A i \in Nat : x < i => AgreeFrom(i, v, SetTo(v, x, b))
<1>1. SetTo(v, x, b) \in Valuations /\ SetTo(v, x, b)[x] = b
      /\ \A y \in Var : y /= x => v[y] = SetTo(v, x, b)[y]
  BY DEF SetTo, Valuations
<1>2. \A y \in Var : y >= x + 1 => y /= x  BY VarFacts
<1>3. \A i \in Nat : x < i => \A y \in Var : y >= i => y /= x  BY VarFacts
<1>4. v[x] = b => SetTo(v, x, b) = v  BY DEF SetTo, Valuations
<1>. QED  BY <1>1, <1>2, <1>3, <1>4 DEF AgreeFrom

(* bdd_ite_quick_cofactor gives the two cofactors of a pointer.            *)
LEMMA CofactorsOfPointer ==
    ASSUME NEW p \in Ptr, NEW x \in Var, Top(p) >= x
    PROVE  /\ CofactorV(p, x) \in Ptr /\ CofactorNv(p, x) \in Ptr
           /\ Top(CofactorV(p, x)) > x /\ Top(CofactorNv(p, x)) > x
           /\ \A v \in Valuations :
                /\ v \in Meaning(CofactorV(p, x)) <=> SetTo(v, x, TRUE) \in Meaning(p)
                /\ v \in Meaning(CofactorNv(p, x)) <=> SetTo(v, x, FALSE) \in Meaning(p)
<1>1. x \in Nat /\ x + 1 \in Nat /\ Top(p) \in Nat  BY VarFacts, PtrParts
<1>2. CASE Top(p) /= x
  <2>1. CofactorV(p, x) = p /\ CofactorNv(p, x) = p  BY <1>2 DEF CofactorV, CofactorNv
  <2>2. Top(p) > x /\ Top(p) >= x + 1  BY <1>1, <1>2
  <2>3. \A v \in Valuations, b \in BOOLEAN : v \in Meaning(p) <=> SetTo(v, x, b) \in Meaning(p)
    BY <1>1, <2>2, SetToFacts, VariablesBeforeTop
  <2>. QED  BY <2>1, <2>2, <2>3
<1>3. CASE Top(p) = x
  <2>. DEFINE n == p.cell
  <2>1. n \in Node /\ n /= OneNode /\ n.id = x  BY <1>3, PtrParts, VarFacts
  <2>2. n.T \in Ptr /\ n.E \in Ptr /\ n.T.cell.id > x /\ n.E.cell.id > x
    BY <2>1, NodeCases
  <2>3. Top(n.T) > x /\ Top(n.E) > x  BY <2>2, PtrParts
  <2>4. Top(n.T) >= x + 1 /\ Top(n.E) >= x + 1  BY <1>1, <2>2, <2>3, PtrParts
  <2>5. ASSUME NEW v \in Valuations
        PROVE  /\ v \in Meaning(n.T) <=> SetTo(v, x, TRUE) \in NodeMeaning[n]
               /\ v \in Meaning(n.E) <=> SetTo(v, x, FALSE) \in NodeMeaning[n]
    <3>. DEFINE t == SetTo(v, x, TRUE)
                e == SetTo(v, x, FALSE)
    <3>1. /\ t \in Valuations /\ t[x] = TRUE /\ AgreeFrom(x + 1, v, t)
          /\ e \in Valuations /\ e[x] = FALSE /\ AgreeFrom(x + 1, v, e)
      BY SetToFacts
    <3>. HIDE DEF t, e, n
    <3>2. t \in NodeMeaning[n] <=> t \in Meaning(n.T)  BY <2>1, <3>1, MeaningOfNode
    <3>3. e \in NodeMeaning[n] <=> e \in Meaning(n.E)  BY <2>1, <3>1, MeaningOfNode
    <3>4. v \in Meaning(n.T) <=> t \in Meaning(n.T)
      BY <1>1, <2>2, <2>4, <3>1, VariablesBeforeTop
    <3>5. v \in Meaning(n.E) <=> e \in Meaning(n.E)
      BY <1>1, <2>2, <2>4, <3>1, VariablesBeforeTop
    <3>. QED  BY <3>2, <3>3, <3>4, <3>5 DEF t, e
  <2>6. CASE p.neg
    <3>1. CofactorV(p, x) = NOT(n.T) /\ CofactorNv(p, x) = NOT(n.E)
      BY <1>3, <2>6 DEF CofactorV, CofactorNv, IS_COMPLEMENT
    <3>. HIDE DEF n
    <3>2. /\ NOT(n.T) \in Ptr /\ NOT(n.E) \in Ptr
          /\ Top(NOT(n.T)) > x /\ Top(NOT(n.E)) > x
      BY <2>2, <2>3, PtrOperators DEF Top
    <3>3. \A v \in Valuations : /\ v \in Meaning(NOT(n.T)) <=> v \notin Meaning(n.T)
                                /\ v \in Meaning(NOT(n.E)) <=> v \notin Meaning(n.E)
      BY <2>2, MeaningOfComplement
    <3>4. \A v \in Valuations : v \in Meaning(p) <=> v \notin NodeMeaning[n]
      BY <2>6, MeaningIs DEF n
    <3>5. \A v \in Valuations : SetTo(v, x, TRUE) \in Valuations /\ SetTo(v, x, FALSE) \in Valuations
      BY SetToFacts
    <3>. QED  BY <2>5, <3>1, <3>2, <3>3, <3>4, <3>5
  <2>7. CASE ~p.neg
    <3>1. CofactorV(p, x) = n.T /\ CofactorNv(p, x) = n.E
      BY <1>3, <2>7 DEF CofactorV, CofactorNv, IS_COMPLEMENT
    <3>4. \A v \in Valuations : v \in Meaning(p) <=> v \in NodeMeaning[n]
      BY <2>7, MeaningIs
    <3>5. \A v \in Valuations : SetTo(v, x, TRUE) \in Valuations /\ SetTo(v, x, FALSE) \in Valuations
      BY SetToFacts
    <3>. QED  BY <2>2, <2>3, <2>5, <3>1, <3>4, <3>5
  <2>. QED  BY <2>6, <2>7
<1>. QED  BY <1>2, <1>3

LEMMA BranchesOfPointer ==
    ASSUME NEW p \in Ptr, Top(p) \in Var
    PROVE  LET i == Top(p)
           IN /\ CofactorV(p, i) /= CofactorNv(p, i)
              /\ ~p.neg => CofactorV(p, i) = p.cell.T /\ CofactorNv(p, i) = p.cell.E
              /\ p.neg => CofactorV(p, i) = NOT(p.cell.T) /\ CofactorNv(p, i) = NOT(p.cell.E)
              /\ p.cell = [id |-> i, T |-> p.cell.T, E |-> p.cell.E]
              /\ p.cell.T \in Ptr /\ p.cell.E \in Ptr
              /\ p.cell \in Node /\ p.cell /= OneNode
<1>. DEFINE i == Top(p)
<1>1. p.cell \in Node /\ p.cell /= OneNode /\ p.cell.id = i  BY PtrParts, VarFacts
<1>2. /\ p.cell = [id |-> i, T |-> p.cell.T, E |-> p.cell.E]
      /\ p.cell.T \in Ptr /\ p.cell.E \in Ptr /\ p.cell.T /= p.cell.E
  BY <1>1, NodeCases
<1>3. /\ ~p.neg => CofactorV(p, i) = p.cell.T /\ CofactorNv(p, i) = p.cell.E
      /\ p.neg => CofactorV(p, i) = NOT(p.cell.T) /\ CofactorNv(p, i) = NOT(p.cell.E)
  BY DEF CofactorV, CofactorNv, IS_COMPLEMENT
<1>4. NOT(p.cell.T) /= NOT(p.cell.E)
  <2>1. /\ p.cell.T = [cell |-> p.cell.T.cell, neg |-> p.cell.T.neg]
        /\ p.cell.E = [cell |-> p.cell.E.cell, neg |-> p.cell.E.neg]
        /\ p.cell.T.neg \in BOOLEAN /\ p.cell.E.neg \in BOOLEAN
    BY <1>2, PtrParts
  <2>2. /\ NOT(p.cell.T).cell = p.cell.T.cell /\ NOT(p.cell.T).neg = ~p.cell.T.neg
        /\ NOT(p.cell.E).cell = p.cell.E.cell /\ NOT(p.cell.E).neg = ~p.cell.E.neg
    BY <1>2, PtrOperators
  <2>. QED  BY <1>2, <2>1, <2>2
<1>. QED  BY <1>1, <1>2, <1>3, <1>4

(* A function has one diagram: pointers that stand for the same function   *)
(* are the same pointer.  That is what bdd_equal and every test of pointers*)
(* in bdd__ITE_ rely on.                                                   *)
THEOREM FunctionsHaveOneDiagram ==
    \A p, q \in Ptr : Meaning(p) = Meaning(q) => p = q
<1>. DEFINE Above(i) == {p \in Ptr : Top(p) >= i}
            S == {i \in 0 .. ONE_ID :
                    \A p, q \in Above(i) : Meaning(p) = Meaning(q) => p = q}
<1>1. ASSUME NEW p \in Ptr, NEW q \in Ptr, Meaning(p) = Meaning(q)  PROVE p.neg = q.neg
  BY <1>1, SignOfPointer, PtrParts
<1>2. ONE_ID \in S
  <2>1. \A p \in Above(ONE_ID) : p.cell = OneNode  BY PtrParts, VarFacts
  <2>2. \A p, q \in Above(ONE_ID) : Meaning(p) = Meaning(q) => p = q
    BY <1>1, <2>1, PtrParts
  <2>. QED  BY <2>2, VarFacts
<1>3. ASSUME NEW i \in Var, i + 1 \in S  PROVE i \in S
  <2>1. i \in Nat /\ i \in 0 .. ONE_ID /\ i + 1 \in Nat  BY VarFacts
  <2>2. ASSUME NEW p \in Above(i)
        PROVE  /\ CofactorV(p, i) \in Above(i + 1) /\ CofactorNv(p, i) \in Above(i + 1)
               /\ Top(p) = i => /\ CofactorV(p, i) /= CofactorNv(p, i)
                                /\ ~p.neg => CofactorV(p, i) = p.cell.T /\ CofactorNv(p, i) = p.cell.E
                                /\ p.neg => /\ CofactorV(p, i) = NOT(p.cell.T)
                                            /\ CofactorNv(p, i) = NOT(p.cell.E)
                                /\ p.cell = [id |-> i, T |-> p.cell.T, E |-> p.cell.E]
                                /\ p.cell.T \in Ptr /\ p.cell.E \in Ptr
               /\ Top(p) /= i => CofactorV(p, i) = p /\ CofactorNv(p, i) = p
    <3>1. /\ CofactorV(p, i) \in Ptr /\ CofactorNv(p, i) \in Ptr
          /\ Top(CofactorV(p, i)) > i /\ Top(CofactorNv(p, i)) > i
      BY CofactorsOfPointer
    <3>2. Top(CofactorV(p, i)) >= i + 1 /\ Top(CofactorNv(p, i)) >= i + 1
      BY <2>1, <3>1, PtrParts
    <3>3. Top(p) = i =>
            /\ CofactorV(p, i) /= CofactorNv(p, i)
            /\ ~p.neg => CofactorV(p, i) = p.cell.T /\ CofactorNv(p, i) = p.cell.E
            /\ p.neg => CofactorV(p, i) = NOT(p.cell.T) /\ CofactorNv(p, i) = NOT(p.cell.E)
            /\ p.cell = [id |-> i, T |-> p.cell.T, E |-> p.cell.E]
            /\ p.cell.T \in Ptr /\ p.cell.E \in Ptr
      BY BranchesOfPointer
    <3>4. Top(p) /= i => CofactorV(p, i) = p /\ CofactorNv(p, i) = p
      BY DEF CofactorV, CofactorNv
    <3>. QED  BY <3>1, <3>2, <3>3, <3>4
  <2>3. ASSUME NEW p \in Above(i), NEW q \in Above(i), Meaning(p) = Meaning(q)
        PROVE  CofactorV(p, i) = CofactorV(q, i) /\ CofactorNv(p, i) = CofactorNv(q, i)
    <3>1. Meaning(CofactorV(p, i)) = Meaning(CofactorV(q, i))
          /\ Meaning(CofactorNv(p, i)) = Meaning(CofactorNv(q, i))
      <4>1. \A r \in Above(i) :
              /\ CofactorV(r, i) \in Ptr /\ CofactorNv(r, i) \in Ptr
              /\ \A v \in Valuations :
                   /\ v \in Meaning(CofactorV(r, i)) <=> SetTo(v, i, TRUE) \in Meaning(r)
                   /\ v \in Meaning(CofactorNv(r, i)) <=> SetTo(v, i, FALSE) \in Meaning(r)
        BY CofactorsOfPointer
      <4>2. \A r \in Above(i) : /\ Meaning(CofactorV(r, i)) \subseteq Valuations
                                /\ Meaning(CofactorNv(r, i)) \subseteq Valuations
        BY <4>1, MeaningIs
      <4>. QED  BY <2>3, <4>1, <4>2
    <3>2. /\ CofactorV(p, i) \in Above(i + 1) /\ CofactorNv(p, i) \in Above(i + 1)
          /\ CofactorV(q, i) \in Above(i + 1) /\ CofactorNv(q, i) \in Above(i + 1)
      BY <2>2
    <3>. QED  BY <1>3, <3>1, <3>2
  <2>4. ASSUME NEW p \in Above(i), NEW q \in Above(i), Meaning(p) = Meaning(q)
        PROVE  p = q
    <3>1. p.neg = q.neg  BY <1>1, <2>4
    <3>2. CofactorV(p, i) = CofactorV(q, i) /\ CofactorNv(p, i) = CofactorNv(q, i)
      BY <2>3, <2>4
    <3>3. CASE Top(p) /= i \/ Top(q) /= i  BY <2>2, <3>2, <3>3
    <3>4. CASE Top(p) = i /\ Top(q) = i
      <4>1. p.cell.T = q.cell.T /\ p.cell.E = q.cell.E
        <5>1. CASE ~p.neg  BY <2>2, <3>1, <3>2, <3>4, <5>1
        <5>2. CASE p.neg
          <6>1. NOT(p.cell.T) = NOT(q.cell.T) /\ NOT(p.cell.E) = NOT(q.cell.E)
            BY <2>2, <3>1, <3>2, <3>4, <5>2
          <6>2. p.cell.T \in Ptr /\ p.cell.E \in Ptr /\ q.cell.T \in Ptr /\ q.cell.E \in Ptr
            BY <2>2, <3>4
          <6>3. \A r \in Ptr : NOT(NOT(r)) = r
            <7>1. ASSUME NEW r \in Ptr  PROVE NOT(NOT(r)) = r
              <8>1. r.neg \in BOOLEAN /\ r = [cell |-> r.cell, neg |-> r.neg]  BY PtrParts
              <8>2. NOT(NOT(r)) = [cell |-> r.cell, neg |-> ~~r.neg]  BY DEF NOT
              <8>. QED  BY <8>1, <8>2
            <7>. QED  BY <7>1
          <6>. QED  BY <6>1, <6>2, <6>3
        <5>. QED  BY <5>1, <5>2
      <4>2. p.cell = q.cell
        <5>1. /\ p.cell = [id |-> i, T |-> p.cell.T, E |-> p.cell.E]
              /\ q.cell = [id |-> i, T |-> q.cell.T, E |-> q.cell.E]
          BY <2>2, <3>4
        <5>. QED  BY <4>1, <5>1
      <4>. QED  BY <3>1, <4>2, PtrParts
    <3>. QED  BY <3>3, <3>4
  <2>. QED  BY <2>1, <2>4
<1>4. 0 .. ONE_ID \subseteq S
  <2>. HIDE DEF S
  <2>. QED  BY <1>2, <1>3, DownwardInduction
<1>5. Above(0) = Ptr
  <2>1. \A p \in Ptr : Top(p) >= 0  BY PtrParts, VarFacts
  <2>. QED  BY <2>1
<1>6. 0 \in S
  <2>. HIDE DEF S
  <2>. QED  BY <1>4, VarFacts
<1>. QED  BY <1>5, <1>6

(* A function that depends on no variable before i has its top from i on.  *)
LEMMA TopOfFunction ==
    ASSUME NEW p \in Ptr, NEW i \in 0 .. ONE_ID,
           \A v, w \in Valuations : AgreeFrom(i, v, w) => (v \in Meaning(p) <=> w \in Meaning(p))
    PROVE  Top(p) >= i
<1>. SUFFICES ASSUME ~(Top(p) >= i)  PROVE FALSE  OBVIOUS
<1>. DEFINE x == Top(p)
<1>1. x \in 0 .. ONE_ID /\ x < i /\ i \in Nat  BY PtrParts, VarFacts
<1>2. x \in Var /\ Top(p) >= x  BY <1>1, VarFacts DEF Var, ONE_ID
<1>. HIDE DEF x
<1>3. /\ CofactorV(p, x) \in Ptr /\ CofactorNv(p, x) \in Ptr
      /\ \A v \in Valuations :
            /\ v \in Meaning(CofactorV(p, x)) <=> SetTo(v, x, TRUE) \in Meaning(p)
            /\ v \in Meaning(CofactorNv(p, x)) <=> SetTo(v, x, FALSE) \in Meaning(p)
  BY <1>2, CofactorsOfPointer
<1>4. ASSUME NEW v \in Valuations
      PROVE  v \in Meaning(CofactorV(p, x)) <=> v \in Meaning(CofactorNv(p, x))
  <2>1. \A b \in BOOLEAN : SetTo(v, x, b) \in Valuations /\ AgreeFrom(i, v, SetTo(v, x, b))
    BY <1>1, <1>2, SetToFacts
  <2>2. /\ v \in Meaning(p) <=> SetTo(v, x, TRUE) \in Meaning(p)
        /\ v \in Meaning(p) <=> SetTo(v, x, FALSE) \in Meaning(p)
    BY <2>1
  <2>. QED  BY <1>3, <2>2
<1>5. Meaning(CofactorV(p, x)) = Meaning(CofactorNv(p, x))  BY <1>3, <1>4, MeaningIs
<1>6. CofactorV(p, x) = CofactorNv(p, x)  BY <1>3, <1>5, FunctionsHaveOneDiagram
<1>. QED  BY <1>2, <1>6, BranchesOfPointer DEF x

-----------------------------------------------------------------------------
(* The nodes below a node.                                                 *)

LEMMA ConeFacts ==
    ASSUME NEW n \in Node
    PROVE  /\ n \in Cone[n] /\ Cone[n] \subseteq Node
           /\ n /= OneNode => Cone[n.T.cell] \subseteq Cone[n] /\ Cone[n.E.cell] \subseteq Cone[n]
           /\ \A m \in Cone[n] : Cone[m] \subseteq Cone[n]
<1>1. \A c \in Node : c \in Cone[c] /\ Cone[c] \subseteq Node  BY ConeIs, SMTT(60)
<1>2. \A c \in Node : c /= OneNode =>
            Cone[c.T.cell] \subseteq Cone[c] /\ Cone[c.E.cell] \subseteq Cone[c]
  BY ConeIs
<1>3. ASSUME NEW a \in Node  PROVE \A m \in Cone[a] : Cone[m] \subseteq Cone[a]
  <2>. DEFINE S == {c \in Node : \A m \in Cone[c] : Cone[m] \subseteq Cone[c]}
  <2>1. OneNode \in S  BY ConeIs, OneIsNode
  <2>2. ASSUME NEW c \in Node, c /= OneNode, c.T.cell \in S, c.E.cell \in S
        PROVE  c \in S
    <3>1. ASSUME NEW m \in Cone[c]  PROVE Cone[m] \subseteq Cone[c]
      <4>1. m = c \/ m \in Cone[c.T.cell] \/ m \in Cone[c.E.cell]  BY <2>2, ConeIs
      <4>2. /\ \A d \in Cone[c.T.cell] : Cone[d] \subseteq Cone[c.T.cell]
            /\ \A d \in Cone[c.E.cell] : Cone[d] \subseteq Cone[c.E.cell]
        BY <2>2
      <4>. QED  BY <1>2, <2>2, <4>1, <4>2
    <3>. QED  BY <3>1
  <2>3. Node \subseteq S
    <3>. HIDE DEF S
    <3>. QED  BY <2>1, <2>2, NodeInduction
  <2>. QED  BY <2>3
<1>. QED  BY <1>1, <1>2, <1>3

LEMMA ConeOfCofactors ==
    ASSUME NEW p \in Ptr, NEW x \in Var
    PROVE  /\ CofactorV(p, x) \in Ptr /\ Cone[CofactorV(p, x).cell] \subseteq Cone[p.cell]
           /\ CofactorNv(p, x) \in Ptr /\ Cone[CofactorNv(p, x).cell] \subseteq Cone[p.cell]
<1>1. CASE Top(p) /= x  BY <1>1 DEF CofactorV, CofactorNv
<1>2. CASE Top(p) = x
  <2>1. /\ p.cell \in Node /\ p.cell /= OneNode /\ p.cell.T \in Ptr /\ p.cell.E \in Ptr
        /\ ~p.neg => CofactorV(p, x) = p.cell.T /\ CofactorNv(p, x) = p.cell.E
        /\ p.neg => CofactorV(p, x) = NOT(p.cell.T) /\ CofactorNv(p, x) = NOT(p.cell.E)
    BY <1>2, BranchesOfPointer
  <2>2. /\ NOT(p.cell.T) \in Ptr /\ NOT(p.cell.T).cell = p.cell.T.cell
        /\ NOT(p.cell.E) \in Ptr /\ NOT(p.cell.E).cell = p.cell.E.cell
    BY <2>1, PtrOperators
  <2>3. Cone[p.cell.T.cell] \subseteq Cone[p.cell] /\ Cone[p.cell.E.cell] \subseteq Cone[p.cell]
    BY <2>1, ConeFacts
  <2>4. CASE p.neg  BY <2>1, <2>2, <2>3, <2>4
  <2>5. CASE ~p.neg  BY <2>1, <2>3, <2>5
  <2>. QED  BY <2>4, <2>5
<1>. QED  BY <1>1, <1>2

-----------------------------------------------------------------------------
(* The rewriting of ITE triples, as BddIte_proofs has it.                  *)

Rewriting == INSTANCE BddIte_proofs
    WITH Cell <- Node, One <- OneNode, Id <- id, Addr <- Nat, addr <- 0, bucket <- 0, last <- 0

-----------------------------------------------------------------------------
(* The inductive invariant.                                                *)

Signed(b, fn) == IF b THEN Valuations \ fn ELSE fn

\* The function the i-th activation of a stack, or for 0 the call itself, is
\* waiting for.
Wanted(stk, c, i) ==
    IF i = 0 THEN IteOf(c.args)
    ELSE IF stk[i].wait = "T" THEN IteMeaning(stk[i].cofactors.v)
    ELSE IF stk[i].wait = "E" THEN IteMeaning(stk[i].cofactors.nv)
    ELSE IteMeaning(stk[i].key)

Regular(k) == k \in Triple /\ ~k.f.neg /\ ~k.g.neg

TopsFrom(k, x) == Top(k.f) >= x /\ Top(k.g) >= x /\ Top(k.h) >= x

Frame == [key: Triple, complement: BOOLEAN, x: Var, cofactors: [v: Triple, nv: Triple],
          T: PtrOrNIL, wait: {"T", "E", "node", "shortcut"}]

Awaiting(a) == a.wait \in {"T", "E"}

FrameOK(a) ==
    /\ a \in Frame
    /\ Regular(a.key)
    /\ a.cofactors = Cofactors(a.key, a.x)
    /\ TopsFrom(a.key, a.x)
    /\ a.wait \in {"T", "shortcut"} => a.T = NIL
    /\ a.wait \in {"E", "node"} => a.T \in Ptr /\ Meaning(a.T) = IteMeaning(a.cofactors.v)

(* Every activation will give the one below it what it waits for; only the *)
(* innermost can be waiting for a node.                                    *)
StackOK(stk, c) ==
    /\ stk \in Seq(Frame)
    /\ \A i \in 1 .. Len(stk) :
          /\ FrameOK(stk[i])
          /\ Signed(stk[i].complement, IteMeaning(stk[i].key)) = Wanted(stk, c, i - 1)
          /\ i < Len(stk) => Awaiting(stk[i])

AtIte(t) == t \in [do: {"ite"}, args: Triple]
AtNode(t) == t \in [do: {"find_or_add", "new_node", "collected"}, node: Node \ {OneNode}]
AtReturn(t) == t \in [do: {"return"}, value: Ptr]

(* The innermost task is about the function the innermost activation waits *)
(* for.                                                                    *)
TaskOK(t, stk, c) ==
    \/ /\ AtIte(t)
       /\ IteMeaning(t.args) = Wanted(stk, c, Len(stk))
       /\ stk /= <<>> => Awaiting(stk[Len(stk)])
    \/ /\ AtNode(t)
       /\ NodeMeaning[t.node] = Wanted(stk, c, Len(stk))
       /\ stk /= <<>> => ~Awaiting(stk[Len(stk)])
    \/ /\ AtReturn(t)
       /\ Meaning(t.value) = Wanted(stk, c, Len(stk))

Function == SUBSET Valuations

HeapInv == heap \subseteq Node /\ OneNode \in heap /\ handle \in [Handle -> PtrOrNIL]

CacheOK(c) ==
    c /= NIL => /\ c \in [key: Triple, data: Ptr]
                /\ Regular(c.key)
                /\ Meaning(c.data) = IteMeaning(c.key)

CacheInv == CacheOK(cache)

CallInv ==
    \/ call = NIL /\ task = Idle /\ stack = <<>>
    \/ /\ call \in [to: Handle, args: [f: Function, g: Function, h: Function]]
       /\ StackOK(stack, call) /\ TaskOK(task, stack, call)

Kept(hp, p) == p /= NIL => Cone[p.cell] \subseteq hp

KeptTriple(hp, k) == Kept(hp, k.f) /\ Kept(hp, k.g) /\ Kept(hp, k.h)

KeptFrame(hp, a) ==
    /\ KeptTriple(hp, a.key) /\ Kept(hp, a.T)
    /\ KeptTriple(hp, a.cofactors.v) /\ KeptTriple(hp, a.cofactors.nv)

KeptStack(hp, stk) == \A i \in 1 .. Len(stk) : KeptFrame(hp, stk[i])

KeptCache(hp, c) == c /= NIL => KeptTriple(hp, c.key) /\ Kept(hp, c.data)

KeptTask(hp, t) ==
    /\ AtIte(t) => KeptTriple(hp, t.args)
    /\ AtNode(t) => Kept(hp, t.node.T) /\ Kept(hp, t.node.E)
    /\ AtReturn(t) => Kept(hp, t.value)

(* Everything still to be used is in the heap.                             *)
KeptInv ==
    /\ \A p \in Handle : Kept(heap, handle[p])
    /\ KeptCache(heap, cache)
    /\ KeptStack(heap, stack)
    /\ KeptTask(heap, task)

IInv == HeapInv /\ CacheInv /\ CallInv /\ KeptInv

-----------------------------------------------------------------------------
(* The rewriting of BddIte, over the functions of the diagrams.            *)

\* A valuation of the variables, as one of the cells.
CellValues(v) == [n \in Node |-> v \in NodeMeaning[n]]

LEMMA SameNotions ==
    /\ Ptr = Rewriting!Ptr /\ Triple = Rewriting!Triple
    /\ \A p : NOT(p) = Rewriting!NOT(p) /\ IS_COMPLEMENT(p) = Rewriting!IS_COMPLEMENT(p)
    /\ One = Rewriting!ONE(OneNode) /\ Zero = Rewriting!ZERO(OneNode)
BY DEF Ptr, Rewriting!Ptr, Triple, Rewriting!Triple, NOT, Rewriting!NOT, IS_COMPLEMENT,
       Rewriting!IS_COMPLEMENT, One, Zero, ONE, ZERO, Reg, Rewriting!ONE, Rewriting!ZERO,
       Rewriting!Reg

LEMMA SameVarToConst ==
    ASSUME NEW k
    PROVE  VarToConst(OneNode, k) = Rewriting!VarToConst(OneNode, k)
BY DEF VarToConst, Rewriting!VarToConst, Substituted, Rewriting!Substituted, NOT, Rewriting!NOT,
       ONE, ZERO, Reg, Rewriting!ONE, Rewriting!ZERO, Rewriting!Reg

LEMMA SameReorder ==
    ASSUME NEW gt, NEW k
    PROVE  Reorder(OneNode, gt, k) = Rewriting!Reorder(OneNode, gt, k)
BY DEF Reorder, Rewriting!Reorder, IS_CONSTANT, Rewriting!IS_CONSTANT, NOT, Rewriting!NOT,
       ONE, ZERO, Reg, Rewriting!ONE, Rewriting!ZERO, Rewriting!Reg

LEMMA SameCanonicalize ==
    ASSUME NEW gt, NEW k
    PROVE  Canonicalize(OneNode, gt, k) = Rewriting!Canonicalize(OneNode, gt, k)
<1>1. \A r : PositiveFirst(r) = Rewriting!PositiveFirst(r)
  BY DEF PositiveFirst, Rewriting!PositiveFirst, IS_COMPLEMENT, Rewriting!IS_COMPLEMENT,
         NOT, Rewriting!NOT
<1>2. \A r : PositiveSecond(r) = Rewriting!PositiveSecond(r)
  BY DEF PositiveSecond, Rewriting!PositiveSecond, IS_COMPLEMENT, Rewriting!IS_COMPLEMENT,
         NOT, Rewriting!NOT
<1>. QED  BY <1>1, <1>2, SameReorder DEF Canonicalize, Rewriting!Canonicalize

\* What BddIte_proofs assumes of its parameters.
LEMMA RewritingAssumptions ==
    /\ OneNode \in Node /\ id \in [Node -> Nat] /\ Nat \subseteq Nat
    /\ NIL \notin [cell: Node, neg: BOOLEAN]
<1>1. id \in [Node -> Nat]
  <2>1. \A n \in Node : n.id \in Nat  BY NodeCases, VarFacts
  <2>. QED  BY <2>1 DEF id
<1>. QED  BY <1>1, OneIsNode, AbsentAssumption DEF Ptr

LEMMA CellValuesFacts ==
    ASSUME NEW v \in Valuations
    PROVE  /\ CellValues(v) \in Rewriting!Valuation(OneNode)
           /\ \A p \in Ptr : Rewriting!Val(CellValues(v), p) <=> v \in Meaning(p)
           /\ \A k \in Triple : Rewriting!IteVal(CellValues(v), k) <=> v \in IteMeaning(k)
<1>. DEFINE w == CellValues(v)
<1>1. w \in [Node -> BOOLEAN] /\ w[OneNode]
  <2>1. \A n \in Node : (v \in NodeMeaning[n]) \in BOOLEAN  OBVIOUS
  <2>2. w \in [Node -> BOOLEAN]  BY <2>1 DEF CellValues
  <2>3. w[OneNode] = (v \in NodeMeaning[OneNode])  BY OneIsNode DEF CellValues
  <2>. QED  BY <2>2, <2>3, NodeMeaningIs
<1>2. w \in Rewriting!Valuation(OneNode)  BY <1>1 DEF Rewriting!Valuation
<1>3. ASSUME NEW p \in Ptr  PROVE Rewriting!Val(w, p) <=> v \in Meaning(p)
  <2>1. p.cell \in Node /\ p.neg \in BOOLEAN  BY PtrParts
  <2>2. w[p.cell] = (v \in NodeMeaning[p.cell])  BY <2>1 DEF CellValues
  <2>3. v \in Meaning(p) <=> IF p.neg THEN v \notin NodeMeaning[p.cell]
                                      ELSE v \in NodeMeaning[p.cell]
    BY MeaningIs
  <2>. QED  BY <2>1, <2>2, <2>3 DEF Rewriting!Val
<1>4. ASSUME NEW k \in Triple  PROVE Rewriting!IteVal(w, k) <=> v \in IteMeaning(k)
  <2>1. k.f \in Ptr /\ k.g \in Ptr /\ k.h \in Ptr  BY DEF Triple
  <2>2. v \in IteMeaning(k) <=> IF v \in Meaning(k.f) THEN v \in Meaning(k.g)
                                                      ELSE v \in Meaning(k.h)
    BY IteMeaningIs
  <2>3. /\ Rewriting!Val(w, k.f) <=> v \in Meaning(k.f)
        /\ Rewriting!Val(w, k.g) <=> v \in Meaning(k.g)
        /\ Rewriting!Val(w, k.h) <=> v \in Meaning(k.h)
    BY <1>3, <2>1
  <2>. HIDE DEF w
  <2>. QED  BY <2>2, <2>3 DEF Rewriting!IteVal
<1>. QED  BY <1>2, <1>3, <1>4

LEMMA VarToConstKeepsFunction ==
    ASSUME NEW k \in Triple
    PROVE  LET c == VarToConst(OneNode, k)
           IN c \in Triple /\ c.f = k.f /\ IteMeaning(c) = IteMeaning(k)
<1>. DEFINE c == VarToConst(OneNode, k)
<1>1. /\ c \in Triple /\ c.f = k.f
      /\ \A w \in Rewriting!Valuation(OneNode) :
            Rewriting!IteVal(w, c) <=> Rewriting!IteVal(w, k)
  <2>1. k \in Rewriting!Triple  BY SameNotions
  <2>. DEFINE r == Rewriting!VarToConst(OneNode, k)
  <2>2. /\ r \in Rewriting!Triple /\ r.f = k.f
        /\ \A w \in Rewriting!Valuation(OneNode) :
              Rewriting!IteVal(w, r) <=> Rewriting!IteVal(w, k)
    BY <2>1, RewritingAssumptions, Rewriting!VarToConstMeaning
  <2>3. r = c  BY SameVarToConst
  <2>. HIDE DEF r, c
  <2>. QED  BY <2>2, <2>3, SameNotions
<1>. HIDE DEF c
<1>2. \A v \in Valuations : v \in IteMeaning(c) <=> v \in IteMeaning(k)
  BY <1>1, CellValuesFacts
<1>3. IteMeaning(c) = IteMeaning(k)  BY <1>1, <1>2, IteMeaningIs
<1>. QED  BY <1>1, <1>3 DEF c

LEMMA CanonicalizeKeepsFunction ==
    ASSUME NEW gt, NEW k \in Triple
    PROVE  LET can == Canonicalize(OneNode, gt, k)
           IN /\ can.complement \in BOOLEAN
              /\ Regular(can.key)
              /\ IteMeaning(k) = Signed(can.complement, IteMeaning(can.key))
              /\ Regular(k) => ~can.complement
<1>. DEFINE can == Canonicalize(OneNode, gt, k)
<1>0. k \in Rewriting!Triple  BY SameNotions
<1>1. /\ can.complement \in BOOLEAN /\ can.key \in Triple
      /\ ~IS_COMPLEMENT(can.key.f) /\ ~IS_COMPLEMENT(can.key.g)
      /\ \A w \in Rewriting!Valuation(OneNode) :
            IF can.complement THEN Rewriting!IteVal(w, can.key) <=> ~Rewriting!IteVal(w, k)
                              ELSE Rewriting!IteVal(w, can.key) <=> Rewriting!IteVal(w, k)
  <2>. DEFINE r == Rewriting!Canonicalize(OneNode, gt, k)
  <2>1. /\ r.complement \in BOOLEAN /\ r.key \in Rewriting!Triple
        /\ ~Rewriting!IS_COMPLEMENT(r.key.f) /\ ~Rewriting!IS_COMPLEMENT(r.key.g)
        /\ \A w \in Rewriting!Valuation(OneNode) :
              IF r.complement THEN Rewriting!IteVal(w, r.key) <=> ~Rewriting!IteVal(w, k)
                              ELSE Rewriting!IteVal(w, r.key) <=> Rewriting!IteVal(w, k)
    BY <1>0, RewritingAssumptions, Rewriting!CanonicalizeMeaning
  <2>2. r = can  BY SameCanonicalize
  <2>. HIDE DEF r, can
  <2>. QED  BY <2>1, <2>2, SameNotions
<1>2. ASSUME Regular(k)  PROVE ~can.complement
  <2>1. ~Rewriting!IS_COMPLEMENT(k.f) /\ ~Rewriting!IS_COMPLEMENT(k.g)
    BY <1>2, SameNotions DEF Regular, IS_COMPLEMENT
  <2>2. ~Rewriting!Canonicalize(OneNode, gt, k).complement
    BY <1>0, <2>1, RewritingAssumptions, Rewriting!RewritingAKeyKeepsPhase
  <2>. QED  BY <2>2, SameCanonicalize
<1>. HIDE DEF can
<1>3. Regular(can.key)  BY <1>1 DEF Regular, IS_COMPLEMENT
<1>4. \A v \in Valuations : v \in IteMeaning(k) <=> v \in Signed(can.complement, IteMeaning(can.key))
  <2>1. ASSUME NEW v \in Valuations
        PROVE  IF can.complement THEN v \in IteMeaning(can.key) <=> ~(v \in IteMeaning(k))
                                 ELSE v \in IteMeaning(can.key) <=> v \in IteMeaning(k)
    BY <1>1, CellValuesFacts
  <2>. QED  BY <1>1, <2>1 DEF Signed
<1>5. Signed(can.complement, IteMeaning(can.key)) \subseteq Valuations
  BY <1>1, IteMeaningIs DEF Signed
<1>6. IteMeaning(k) = Signed(can.complement, IteMeaning(can.key))
  BY <1>4, <1>5, IteMeaningIs
<1>. QED  BY <1>1, <1>2, <1>3, <1>6 DEF can

Cells(k) == {k.f.cell, k.g.cell, k.h.cell}

LEMMA VarToConstCells ==
    ASSUME NEW k \in Triple
    PROVE  Cells(VarToConst(OneNode, k)) \subseteq Cells(k) \union {OneNode}
<1>1. ONE(OneNode).cell = OneNode /\ ZERO(OneNode).cell = OneNode
  BY DEF ONE, ZERO, NOT, Reg
<1>. QED  BY <1>1 DEF Cells, VarToConst, Substituted

(* Rewriting moves pointers and flips their signs: the cells stay, and the *)
(* second and the third argument of a call that is not trivial stay        *)
(* different.                                                              *)
LEMMA CanonicalizeKeepsCells ==
    ASSUME NEW gt, NEW k \in Triple
    PROVE  LET can == Canonicalize(OneNode, gt, k)
           IN /\ Cells(can.key) = Cells(k)
              /\ k.f.cell /= OneNode /\ k.g /= k.h => can.key.g /= can.key.h
<1>. DEFINE r == Reorder(OneNode, gt, k)
            s == PositiveFirst(r)
            c == PositiveSecond(s)
<1>0. k.f \in Ptr /\ k.g \in Ptr /\ k.h \in Ptr  BY DEF Triple
<1>1. \/ r = k
      \/ /\ k.g = One
         /\ r = [f |-> k.h, g |-> k.g, h |-> k.f]
      \/ /\ k.g = Zero
         /\ r = [f |-> NOT(k.h), g |-> k.g, h |-> NOT(k.f)]
      \/ /\ k.h = One
         /\ r = [f |-> NOT(k.g), g |-> NOT(k.f), h |-> k.h]
      \/ /\ k.h = Zero
         /\ r = [f |-> k.g, g |-> k.f, h |-> k.h]
      \/ /\ k.g = NOT(k.h)
         /\ r = [f |-> k.g, g |-> k.f, h |-> NOT(k.f)]
  <2>1. k \in Rewriting!Triple  BY SameNotions
  <2>. DEFINE q == Rewriting!Reorder(OneNode, gt, k)
  <2>2. \/ q = k
        \/ /\ k.g = Rewriting!ONE(OneNode)
           /\ q = [f |-> k.h, g |-> k.g, h |-> k.f]
        \/ /\ k.g = Rewriting!ZERO(OneNode)
           /\ q = [f |-> Rewriting!NOT(k.h), g |-> k.g, h |-> Rewriting!NOT(k.f)]
        \/ /\ k.h = Rewriting!ONE(OneNode)
           /\ q = [f |-> Rewriting!NOT(k.g), g |-> Rewriting!NOT(k.f), h |-> k.h]
        \/ /\ k.h = Rewriting!ZERO(OneNode)
           /\ q = [f |-> k.g, g |-> k.f, h |-> k.h]
        \/ /\ k.g = Rewriting!NOT(k.h)
           /\ q = [f |-> k.g, g |-> k.f, h |-> Rewriting!NOT(k.f)]
    BY <2>1, RewritingAssumptions, Rewriting!ReorderCases
  <2>3. q = r  BY SameReorder
  <2>. HIDE DEF q, r
  <2>. QED  BY <2>2, <2>3, SameNotions
<1>2. \A p \in Ptr : NOT(p) \in Ptr /\ NOT(p).cell = p.cell /\ NOT(p) /= p
  <2>1. ASSUME NEW p \in Ptr  PROVE NOT(p) \in Ptr /\ NOT(p).cell = p.cell /\ NOT(p) /= p
    <3>1. p.neg \in BOOLEAN /\ NOT(p).neg = ~p.neg  BY PtrParts, PtrOperators
    <3>. QED  BY <3>1, PtrOperators
  <2>. QED  BY <2>1
<1>3. One.cell = OneNode /\ Zero.cell = OneNode  BY MeaningOfConstants
<1>4. /\ r.f \in Ptr /\ r.g \in Ptr /\ r.h \in Ptr
      /\ Cells(r) = Cells(k)
      /\ k.f.cell /= OneNode /\ k.g /= k.h => r.g /= r.h
  <2>. HIDE DEF r
  <2>1. CASE r = k  BY <1>0, <2>1
  <2>2. CASE k.g = One /\ r = [f |-> k.h, g |-> k.g, h |-> k.f]
    BY <1>0, <1>3, <2>2 DEF Cells
  <2>3. CASE k.g = Zero /\ r = [f |-> NOT(k.h), g |-> k.g, h |-> NOT(k.f)]
    <3>1. NOT(k.h).cell = k.h.cell /\ NOT(k.f).cell = k.f.cell
          /\ NOT(k.h) \in Ptr /\ NOT(k.f) \in Ptr
      BY <1>0, <1>2
    <3>. QED  BY <1>0, <1>3, <2>3, <3>1 DEF Cells
  <2>4. CASE k.h = One /\ r = [f |-> NOT(k.g), g |-> NOT(k.f), h |-> k.h]
    <3>1. NOT(k.g).cell = k.g.cell /\ NOT(k.f).cell = k.f.cell
          /\ NOT(k.g) \in Ptr /\ NOT(k.f) \in Ptr
      BY <1>0, <1>2
    <3>. QED  BY <1>0, <1>3, <2>4, <3>1 DEF Cells
  <2>5. CASE k.h = Zero /\ r = [f |-> k.g, g |-> k.f, h |-> k.h]
    BY <1>0, <1>3, <2>5 DEF Cells
  <2>6. CASE k.g = NOT(k.h) /\ r = [f |-> k.g, g |-> k.f, h |-> NOT(k.f)]
    <3>1. NOT(k.h).cell = k.h.cell /\ NOT(k.f).cell = k.f.cell
          /\ NOT(k.f) \in Ptr /\ NOT(k.f) /= k.f
      BY <1>0, <1>2
    <3>2. k.g.cell = k.h.cell  BY <2>6, <3>1
    <3>. QED  BY <1>0, <2>6, <3>1, <3>2 DEF Cells
  <2>. QED  BY <1>1, <2>1, <2>2, <2>3, <2>4, <2>5, <2>6
<1>. HIDE DEF r
<1>5. /\ s.f \in Ptr /\ s.g \in Ptr /\ s.h \in Ptr
      /\ Cells(s) = Cells(r)
      /\ r.g /= r.h => s.g /= s.h
  <2>1. NOT(r.f).cell = r.f.cell /\ NOT(r.f) \in Ptr  BY <1>2, <1>4
  <2>. QED  BY <1>4, <2>1 DEF PositiveFirst, Cells
<1>. HIDE DEF s
<1>6. /\ Cells(c.key) = Cells(s)
      /\ s.g /= s.h => c.key.g /= c.key.h
  <2>1. /\ NOT(s.g).cell = s.g.cell /\ NOT(s.h).cell = s.h.cell
    BY <1>2, <1>5
  <2>2. s.g /= s.h => NOT(s.g) /= NOT(s.h)
    <3>1. \A p \in Ptr : p.neg \in BOOLEAN /\ NOT(p).neg = ~p.neg
                         /\ p = [cell |-> p.cell, neg |-> p.neg]
      BY PtrParts, PtrOperators
    <3>2. s.g.neg \in BOOLEAN /\ NOT(s.g).neg = ~s.g.neg /\ s.g = [cell |-> s.g.cell, neg |-> s.g.neg]
          /\ s.h.neg \in BOOLEAN /\ NOT(s.h).neg = ~s.h.neg /\ s.h = [cell |-> s.h.cell, neg |-> s.h.neg]
      BY <1>5, <3>1
    <3>3. ASSUME NOT(s.g) = NOT(s.h)  PROVE s.g = s.h
      <4>1. s.g.cell = s.h.cell /\ (~s.g.neg) = (~s.h.neg)  BY <2>1, <3>2, <3>3
      <4>2. s.g.neg = s.h.neg  BY <3>2, <4>1
      <4>. QED  BY <3>2, <4>1, <4>2
    <3>. QED  BY <3>3
  <2>. QED  BY <2>1, <2>2 DEF PositiveSecond, Cells
<1>7. c = Canonicalize(OneNode, gt, k)  BY DEF Canonicalize, r, s
<1>. QED  BY <1>4, <1>5, <1>6, <1>7

LEMMA LeastFacts ==
    ASSUME NEW a \in Nat, NEW b \in Nat, NEW c \in Nat
    PROVE  /\ LET x == Least({a, b, c})
              IN x \in {a, b, c} /\ x <= a /\ x <= b /\ x <= c
           /\ LET x == Least({a, b}) IN x \in {a, b} /\ x <= a /\ x <= b
<1>1. \E x \in {a, b, c} : \A y \in {a, b, c} : x <= y
  <2>1. CASE a <= b /\ a <= c  BY <2>1
  <2>2. CASE b <= a /\ b <= c  BY <2>2
  <2>3. CASE c <= a /\ c <= b  BY <2>3
  <2>. QED  BY <2>1, <2>2, <2>3
<1>2. \E x \in {a, b} : \A y \in {a, b} : x <= y
  <2>1. CASE a <= b  BY <2>1
  <2>2. CASE b <= a  BY <2>2
  <2>. QED  BY <2>1, <2>2
<1>3. Least({a, b, c}) \in {a, b, c} /\ \A y \in {a, b, c} : Least({a, b, c}) <= y
  BY <1>1 DEF Least
<1>4. Least({a, b}) \in {a, b} /\ \A y \in {a, b} : Least({a, b}) <= y
  BY <1>2 DEF Least
<1>. QED  BY <1>3, <1>4

(* The two recursive calls are about the cofactors of the function, by a   *)
(* variable all three arguments start from.                                *)
LEMMA CofactorsOfTriple ==
    ASSUME NEW k \in Triple, NEW x \in Var, TopsFrom(k, x)
    PROVE  LET c == Cofactors(k, x)
           IN /\ c \in [v: Triple, nv: Triple]
              /\ TopsFrom(c.v, x + 1) /\ TopsFrom(c.nv, x + 1)
              /\ \A v \in Valuations :
                    /\ v \in IteMeaning(c.v) <=> SetTo(v, x, TRUE) \in IteMeaning(k)
                    /\ v \in IteMeaning(c.nv) <=> SetTo(v, x, FALSE) \in IteMeaning(k)
<1>. DEFINE c == Cofactors(k, x)
<1>0. k.f \in Ptr /\ k.g \in Ptr /\ k.h \in Ptr /\ x \in Nat  BY VarFacts DEF Triple
<1>1. ASSUME NEW p \in Ptr, Top(p) >= x
      PROVE  /\ CofactorV(p, x) \in Ptr /\ CofactorNv(p, x) \in Ptr
             /\ Top(CofactorV(p, x)) >= x + 1 /\ Top(CofactorNv(p, x)) >= x + 1
             /\ \A v \in Valuations :
                  /\ v \in Meaning(CofactorV(p, x)) <=> SetTo(v, x, TRUE) \in Meaning(p)
                  /\ v \in Meaning(CofactorNv(p, x)) <=> SetTo(v, x, FALSE) \in Meaning(p)
  <2>1. /\ CofactorV(p, x) \in Ptr /\ CofactorNv(p, x) \in Ptr
        /\ Top(CofactorV(p, x)) > x /\ Top(CofactorNv(p, x)) > x
    BY <1>1, CofactorsOfPointer
  <2>2. Top(CofactorV(p, x)) \in Nat /\ Top(CofactorNv(p, x)) \in Nat
    BY <2>1, PtrParts, VarFacts
  <2>3. Top(CofactorV(p, x)) >= x + 1 /\ Top(CofactorNv(p, x)) >= x + 1
    BY <1>0, <2>1, <2>2
  <2>4. \A v \in Valuations :
           /\ v \in Meaning(CofactorV(p, x)) <=> SetTo(v, x, TRUE) \in Meaning(p)
           /\ v \in Meaning(CofactorNv(p, x)) <=> SetTo(v, x, FALSE) \in Meaning(p)
    BY <1>1, CofactorsOfPointer
  <2>. QED  BY <2>1, <2>3, <2>4
<1>2. /\ c.v = [f |-> CofactorV(k.f, x), g |-> CofactorV(k.g, x), h |-> CofactorV(k.h, x)]
      /\ c.nv = [f |-> CofactorNv(k.f, x), g |-> CofactorNv(k.g, x), h |-> CofactorNv(k.h, x)]
      /\ c = [v |-> c.v, nv |-> c.nv]
  BY DEF Cofactors
<1>3. Top(k.f) >= x /\ Top(k.g) >= x /\ Top(k.h) >= x  BY DEF TopsFrom
<1>. HIDE DEF c
<1>7. /\ c.v.f = CofactorV(k.f, x) /\ c.v.g = CofactorV(k.g, x) /\ c.v.h = CofactorV(k.h, x)
      /\ c.nv.f = CofactorNv(k.f, x) /\ c.nv.g = CofactorNv(k.g, x) /\ c.nv.h = CofactorNv(k.h, x)
  BY <1>2
<1>4. c.v \in Triple /\ c.nv \in Triple
  <2>1. /\ CofactorV(k.f, x) \in Ptr /\ CofactorV(k.g, x) \in Ptr /\ CofactorV(k.h, x) \in Ptr
        /\ CofactorNv(k.f, x) \in Ptr /\ CofactorNv(k.g, x) \in Ptr /\ CofactorNv(k.h, x) \in Ptr
    BY <1>0, <1>1, <1>3
  <2>. QED  BY <1>2, <2>1 DEF Triple
<1>5. TopsFrom(c.v, x + 1) /\ TopsFrom(c.nv, x + 1)
  <2>1. /\ Top(CofactorV(k.f, x)) >= x + 1 /\ Top(CofactorV(k.g, x)) >= x + 1
        /\ Top(CofactorV(k.h, x)) >= x + 1
        /\ Top(CofactorNv(k.f, x)) >= x + 1 /\ Top(CofactorNv(k.g, x)) >= x + 1
        /\ Top(CofactorNv(k.h, x)) >= x + 1
    BY <1>0, <1>1, <1>3
  <2>. QED  BY <1>7, <2>1 DEF TopsFrom
<1>6. ASSUME NEW v \in Valuations
      PROVE  /\ v \in IteMeaning(c.v) <=> SetTo(v, x, TRUE) \in IteMeaning(k)
             /\ v \in IteMeaning(c.nv) <=> SetTo(v, x, FALSE) \in IteMeaning(k)
  <2>1. SetTo(v, x, TRUE) \in Valuations /\ SetTo(v, x, FALSE) \in Valuations  BY SetToFacts
  <2>2. /\ v \in IteMeaning(c.v) <=> IF v \in Meaning(c.v.f) THEN v \in Meaning(c.v.g)
                                                            ELSE v \in Meaning(c.v.h)
        /\ v \in IteMeaning(c.nv) <=> IF v \in Meaning(c.nv.f) THEN v \in Meaning(c.nv.g)
                                                              ELSE v \in Meaning(c.nv.h)
    BY <1>4, IteMeaningIs
  <2>3. \A w \in Valuations : w \in IteMeaning(k) <=> IF w \in Meaning(k.f) THEN w \in Meaning(k.g)
                                                                          ELSE w \in Meaning(k.h)
    BY IteMeaningIs
  <2>4. /\ v \in Meaning(c.v.f) <=> SetTo(v, x, TRUE) \in Meaning(k.f)
        /\ v \in Meaning(c.v.g) <=> SetTo(v, x, TRUE) \in Meaning(k.g)
        /\ v \in Meaning(c.v.h) <=> SetTo(v, x, TRUE) \in Meaning(k.h)
        /\ v \in Meaning(c.nv.f) <=> SetTo(v, x, FALSE) \in Meaning(k.f)
        /\ v \in Meaning(c.nv.g) <=> SetTo(v, x, FALSE) \in Meaning(k.g)
        /\ v \in Meaning(c.nv.h) <=> SetTo(v, x, FALSE) \in Meaning(k.h)
    <3>1. \A p \in {k.f, k.g, k.h} :
             /\ v \in Meaning(CofactorV(p, x)) <=> SetTo(v, x, TRUE) \in Meaning(p)
             /\ v \in Meaning(CofactorNv(p, x)) <=> SetTo(v, x, FALSE) \in Meaning(p)
      BY <1>0, <1>1, <1>3
    <3>. QED  BY <1>7, <3>1
  <2>. QED  BY <2>1, <2>2, <2>3, <2>4
<1>. QED  BY <1>2, <1>4, <1>5, <1>6 DEF c

(* What a call that does not recurse returns.                              *)
LEMMA TrivialValues ==
    ASSUME NEW k \in Triple
    PROVE  /\ k.f.cell = OneNode =>
                IteMeaning(k) = Meaning(IF k.f = One THEN k.g ELSE k.h)
           /\ Trivial(OneNode, k) => /\ TrivialValue(OneNode, k) \in Ptr
                                     /\ TrivialValue(OneNode, k).cell \in Cells(k)
                                     /\ IteMeaning(k) = Meaning(TrivialValue(OneNode, k))
<1>0. /\ k.f \in Ptr /\ k.g \in Ptr /\ k.h \in Ptr
      /\ Meaning(k.f) \subseteq Valuations /\ Meaning(k.g) \subseteq Valuations
      /\ Meaning(k.h) \subseteq Valuations /\ Meaning(NOT(k.f)) = Valuations \ Meaning(k.f)
      /\ NOT(k.f) \in Ptr /\ NOT(k.f).cell = k.f.cell
  BY MeaningIs, MeaningOfComplement, PtrOperators DEF Triple
<1>1. IteMeaning(k) = (Meaning(k.f) \intersect Meaning(k.g)) \union (Meaning(k.h) \ Meaning(k.f))
  BY DEF IteMeaning, IteOf, Meanings
<1>2. /\ Meaning(One) = Valuations /\ Meaning(Zero) = {}
      /\ One = ONE(OneNode) /\ Zero = ZERO(OneNode)
  BY MeaningOfConstants DEF One, Zero
<1>3. ASSUME k.f.cell = OneNode
      PROVE  IteMeaning(k) = Meaning(IF k.f = One THEN k.g ELSE k.h)
  <2>1. k.f = One \/ k.f = Zero  BY <1>0, <1>3, MeaningOfConstants
  <2>2. CASE k.f = One  BY <1>0, <1>1, <1>2, <2>2
  <2>3. CASE k.f /= One  BY <1>0, <1>1, <1>2, <2>1, <2>3
  <2>. QED  BY <2>2, <2>3
<1>4. ASSUME Trivial(OneNode, k)
      PROVE  /\ TrivialValue(OneNode, k) \in Ptr
             /\ TrivialValue(OneNode, k).cell \in Cells(k)
             /\ IteMeaning(k) = Meaning(TrivialValue(OneNode, k))
  <2>1. CASE k.g = k.h
    <3>1. TrivialValue(OneNode, k) = k.g
      <4>1. One /= Zero  BY MeaningOfConstants
      <4>. QED  BY <1>2, <2>1, <4>1 DEF TrivialValue
    <3>2. IteMeaning(k) = Meaning(k.g)  BY <1>0, <1>1, <2>1
    <3>. QED  BY <1>0, <3>1, <3>2 DEF Cells
  <2>2. CASE k.g = One /\ k.h = Zero
    <3>1. TrivialValue(OneNode, k) = k.f
      <4>1. One /= Zero  BY MeaningOfConstants
      <4>. QED  BY <1>2, <2>2, <4>1 DEF TrivialValue
    <3>2. IteMeaning(k) = Meaning(k.f)  BY <1>0, <1>1, <1>2, <2>2
    <3>. QED  BY <1>0, <3>1, <3>2 DEF Cells
  <2>3. CASE k.g = Zero /\ k.h = One
    <3>1. TrivialValue(OneNode, k) = NOT(k.f)
      <4>1. One /= Zero  BY MeaningOfConstants
      <4>. QED  BY <1>2, <2>3, <4>1 DEF TrivialValue
    <3>2. IteMeaning(k) = Meaning(NOT(k.f))  BY <1>0, <1>1, <1>2, <2>3
    <3>. QED  BY <1>0, <3>1, <3>2 DEF Cells
  <2>. QED  BY <1>2, <1>4, <2>1, <2>2, <2>3 DEF Trivial
<1>. QED  BY <1>3, <1>4

-----------------------------------------------------------------------------
(* The nodes asked for, and the values returned.                           *)

LEMMA MeaningOfValues ==
    /\ \A n \in Node : Meaning(Reg(n)) = NodeMeaning[n]
    /\ \A p \in Ptr, b \in BOOLEAN : Flip(b, p) \in Ptr /\ Flip(b, p).cell = p.cell
                                     /\ Meaning(Flip(b, p)) = Signed(b, Meaning(p))
<1>1. ASSUME NEW n \in Node  PROVE Meaning(Reg(n)) = NodeMeaning[n]
  BY DEF Meaning, Reg
<1>2. ASSUME NEW p \in Ptr, NEW b \in BOOLEAN
      PROVE  Flip(b, p) \in Ptr /\ Flip(b, p).cell = p.cell
             /\ Meaning(Flip(b, p)) = Signed(b, Meaning(p))
  BY PtrOperators, MeaningOfComplement, ZenonT(60) DEF Signed
<1>. QED  BY <1>1, <1>2

(* The value of a call is a diagram of the variables of its arguments.     *)
LEMMA TopOfValue ==
    ASSUME NEW k \in Triple, NEW i \in 0 .. ONE_ID, TopsFrom(k, i),
           NEW p \in Ptr, Meaning(p) = IteMeaning(k)
    PROVE  Top(p) >= i
<1>0. k.f \in Ptr /\ k.g \in Ptr /\ k.h \in Ptr /\ i \in Nat  BY VarFacts DEF Triple
<1>1. ASSUME NEW v \in Valuations, NEW w \in Valuations, AgreeFrom(i, v, w)
      PROVE  v \in Meaning(p) <=> w \in Meaning(p)
  <2>1. \A q \in {k.f, k.g, k.h} : v \in Meaning(q) <=> w \in Meaning(q)
    BY <1>0, <1>1, VariablesBeforeTop DEF TopsFrom
  <2>. QED  BY <2>1, IteMeaningIs
<1>. QED  BY <1>1, TopOfFunction

(* A key has regular first and second arguments, so its value is true where*)
(* every variable is, and so is that of its first cofactor: ite_T is       *)
(* regular, as find_or_add.c:35 asserts.                                   *)
LEMMA ValueOfRecursion ==
    ASSUME NEW a, FrameOK(a), a.wait = "E",
           NEW p \in Ptr, Meaning(p) = IteMeaning(a.cofactors.nv)
    PROVE  /\ p = a.T => Meaning(a.T) = IteMeaning(a.key)
           /\ p /= a.T =>
                LET n == [id |-> a.x, T |-> a.T, E |-> p]
                IN n \in Node \ {OneNode} /\ NodeMeaning[n] = IteMeaning(a.key)
<1>. DEFINE x == a.x
            k == a.key
            q == a.T
<1>1. /\ x \in Var /\ k \in Triple /\ TopsFrom(k, x) /\ q \in Ptr
      /\ Meaning(q) = IteMeaning(Cofactors(k, x).v)
      /\ Meaning(p) = IteMeaning(Cofactors(k, x).nv)
      /\ ~k.f.neg /\ ~k.g.neg
  BY DEF FrameOK, Frame, Regular
<1>. HIDE DEF x, k, q
<1>2. /\ Cofactors(k, x).v \in Triple /\ Cofactors(k, x).nv \in Triple
      /\ TopsFrom(Cofactors(k, x).v, x + 1) /\ TopsFrom(Cofactors(k, x).nv, x + 1)
      /\ \A v \in Valuations :
            /\ v \in Meaning(q) <=> SetTo(v, x, TRUE) \in IteMeaning(k)
            /\ v \in Meaning(p) <=> SetTo(v, x, FALSE) \in IteMeaning(k)
  <2>. DEFINE c == Cofactors(k, x)
  <2>1. /\ c \in [v: Triple, nv: Triple]
        /\ TopsFrom(c.v, x + 1) /\ TopsFrom(c.nv, x + 1)
        /\ \A v \in Valuations :
              /\ v \in IteMeaning(c.v) <=> SetTo(v, x, TRUE) \in IteMeaning(k)
              /\ v \in IteMeaning(c.nv) <=> SetTo(v, x, FALSE) \in IteMeaning(k)
    BY <1>1, CofactorsOfTriple
  <2>2. Meaning(q) = IteMeaning(c.v) /\ Meaning(p) = IteMeaning(c.nv)  BY <1>1
  <2>. HIDE DEF c
  <2>3. c.v \in Triple /\ c.nv \in Triple  BY <2>1
  <2>. QED  BY <2>1, <2>2, <2>3 DEF c
<1>3. \A v \in Valuations :
         v \in IteMeaning(k) <=> IF v[x] THEN v \in Meaning(q) ELSE v \in Meaning(p)
  <2>1. ASSUME NEW v \in Valuations
        PROVE  v \in IteMeaning(k) <=> IF v[x] THEN v \in Meaning(q) ELSE v \in Meaning(p)
    <3>1. v[x] \in BOOLEAN  BY <1>1 DEF Valuations
    <3>2. CASE v[x] = TRUE
      <4>1. SetTo(v, x, TRUE) = v  BY <1>1, <3>2, SetToFacts
      <4>2. v \in Meaning(q) <=> SetTo(v, x, TRUE) \in IteMeaning(k)  BY <1>2
      <4>. QED  BY <3>2, <4>1, <4>2
    <3>3. CASE v[x] = FALSE
      <4>1. SetTo(v, x, FALSE) = v  BY <1>1, <3>3, SetToFacts
      <4>2. v \in Meaning(p) <=> SetTo(v, x, FALSE) \in IteMeaning(k)  BY <1>2
      <4>. QED  BY <3>3, <4>1, <4>2
    <3>. QED  BY <3>1, <3>2, <3>3
  <2>. QED  BY <2>1
<1>4. ASSUME p = q  PROVE Meaning(q) = IteMeaning(k)
  BY <1>1, <1>3, <1>4, IteMeaningIs, MeaningIs
<1>5. ASSUME p /= q
      PROVE  LET n == [id |-> x, T |-> q, E |-> p]
             IN n \in Node \ {OneNode} /\ NodeMeaning[n] = IteMeaning(k)
  <2>. DEFINE n == [id |-> x, T |-> q, E |-> p]
  <2>1. x \in Nat /\ x + 1 \in 0 .. ONE_ID /\ x /= ONE_ID  BY <1>1, VarFacts
  <2>2. Top(q) >= x + 1 /\ Top(p) >= x + 1
    BY <1>1, <1>2, <2>1, TopOfValue
  <2>3. q.cell.id > x /\ p.cell.id > x
    <3>1. Top(q) = q.cell.id /\ Top(p) = p.cell.id /\ Top(q) \in Nat /\ Top(p) \in Nat
      BY <1>1, PtrParts, VarFacts
    <3>. QED  BY <2>1, <2>2, <3>1
  <2>4. ~q.neg
    <3>1. AllTrue \in Valuations /\ AllTrue[x] = TRUE
      BY <1>1 DEF AllTrue, Valuations
    <3>2. AllTrue \in Meaning(k.f) /\ AllTrue \in Meaning(k.g)
      BY <1>1, SignOfPointer DEF Triple
    <3>3. AllTrue \in IteMeaning(k)  BY <1>1, <3>1, <3>2, IteMeaningIs
    <3>4. AllTrue \in Meaning(q)  BY <1>3, <3>1, <3>3
    <3>. QED  BY <1>1, <3>4, SignOfPointer
  <2>5. n \in Node  BY <1>1, <1>5, <2>3, <2>4, NodeIntro
  <2>6. n.id = x /\ n.T = q /\ n.E = p  OBVIOUS
  <2>. HIDE DEF n
  <2>7. n /= OneNode  BY <2>1, <2>6, VarFacts
  <2>8. \A v \in Valuations : v \in NodeMeaning[n] <=> v \in IteMeaning(k)
    BY <1>3, <2>5, <2>6, <2>7, MeaningOfNode
  <2>9. NodeMeaning[n] = IteMeaning(k)  BY <1>1, <2>5, <2>8, NodeMeaningIs, IteMeaningIs
  <2>. QED  BY <2>5, <2>7, <2>9 DEF n
<1>. QED  BY <1>4, <1>5 DEF x, k, q

LEMMA NodeOfVariable ==
    ASSUME NEW x \in Var
    PROVE  /\ Variable(x) \in Node \ {OneNode}
           /\ NodeMeaning[Variable(x)] = {v \in Valuations : v[x]}
<1>1. x \in Nat /\ x /= ONE_ID /\ x < ONE_ID  BY VarFacts DEF Var, ONE_ID
<1>2. /\ One \in Ptr /\ Zero \in Ptr /\ One /= Zero /\ ~One.neg
      /\ One.cell.id > x /\ Zero.cell.id > x
  BY <1>1, MeaningOfConstants, VarFacts
<1>3. Variable(x) \in Node  BY <1>2, NodeIntro DEF Variable
<1>4. Variable(x).id = x /\ Variable(x).T = One /\ Variable(x).E = Zero  BY DEF Variable
<1>5. Variable(x) /= OneNode  BY <1>1, <1>4, VarFacts
<1>6. \A v \in Valuations : v \in NodeMeaning[Variable(x)] <=> v[x]
  <2>1. ASSUME NEW v \in Valuations  PROVE v \in NodeMeaning[Variable(x)] <=> v[x]
    <3>1. v[x] \in BOOLEAN  BY DEF Valuations
    <3>. QED  BY <1>3, <1>4, <1>5, <3>1, MeaningOfNode, MeaningOfConstants
  <2>. QED  BY <2>1
<1>7. NodeMeaning[Variable(x)] \subseteq Valuations  BY <1>3, NodeMeaningIs
<1>. QED  BY <1>3, <1>5, <1>6, <1>7

(* ITE((v, 1, 0), G, H) is the node (v, G, H) when v is before G and H.    *)
LEMMA NodeOfShortcut ==
    ASSUME NEW k, Regular(k), Shortcut(k), k.g /= k.h
    PROVE  LET n == [id |-> Top(k.f), T |-> k.g, E |-> k.h]
           IN /\ Top(k.f) \in Var /\ TopsFrom(k, Top(k.f))
              /\ n \in Node \ {OneNode} /\ NodeMeaning[n] = IteMeaning(k)
<1>. DEFINE x == Top(k.f)
            n == [id |-> x, T |-> k.g, E |-> k.h]
<1>0. k \in Triple /\ k.f \in Ptr /\ k.g \in Ptr /\ k.h \in Ptr /\ ~k.f.neg /\ ~k.g.neg
  BY DEF Regular, Triple
<1>1. Top(k.f) \in Nat /\ Top(k.g) \in Nat /\ Top(k.h) \in Nat
      /\ Top(k.f) \in 0 .. ONE_ID /\ Top(k.g) \in 0 .. ONE_ID
  BY <1>0, PtrParts, VarFacts
<1>2. x < Least({Top(k.g), Top(k.h)}) /\ k.f.cell.T = One /\ k.f.cell.E = Zero
  BY DEF Shortcut
<1>3. x < Top(k.g) /\ x < Top(k.h)
  <2>1. Least({Top(k.g), Top(k.h)}) \in {Top(k.g), Top(k.h)}
        /\ Least({Top(k.g), Top(k.h)}) <= Top(k.g) /\ Least({Top(k.g), Top(k.h)}) <= Top(k.h)
    BY <1>1, LeastFacts
  <2>. QED  BY <1>1, <1>2, <2>1
<1>4. x \in Var  BY <1>1, <1>3, VarFacts DEF Var, ONE_ID
<1>5. TopsFrom(k, x)  BY <1>1, <1>3 DEF TopsFrom
<1>6. k.g.cell.id > x /\ k.h.cell.id > x
  BY <1>0, <1>1, <1>3, PtrParts
<1>. HIDE DEF x
<1>7. n \in Node  BY <1>0, <1>4, <1>6, NodeIntro
<1>8. n.id = x /\ n.T = k.g /\ n.E = k.h  OBVIOUS
<1>. HIDE DEF n
<1>9. n /= OneNode  BY <1>4, <1>8, VarFacts
<1>10. \A v \in Valuations : v \in NodeMeaning[n] <=> v \in IteMeaning(k)
  <2>1. ASSUME NEW v \in Valuations  PROVE v \in NodeMeaning[n] <=> v \in IteMeaning(k)
    <3>1. k.f.cell \in Node /\ k.f.cell /= OneNode /\ k.f.cell.id = x
      BY <1>0, <1>4, PtrParts, VarFacts DEF x
    <3>2. v \in NodeMeaning[k.f.cell] <=> IF v[x] THEN v \in Meaning(One) ELSE v \in Meaning(Zero)
      BY <1>2, <3>1, MeaningOfNode
    <3>3. v \in Meaning(k.f) <=> v[x]
      <4>1. v[x] \in BOOLEAN  BY <1>4 DEF Valuations
      <4>. QED  BY <1>0, <3>2, <4>1, MeaningIs, MeaningOfConstants
    <3>4. v \in IteMeaning(k) <=> IF v \in Meaning(k.f) THEN v \in Meaning(k.g) ELSE v \in Meaning(k.h)
      BY <1>0, IteMeaningIs
    <3>5. v \in NodeMeaning[n] <=> IF v[x] THEN v \in Meaning(k.g) ELSE v \in Meaning(k.h)
      BY <1>7, <1>8, <1>9, MeaningOfNode
    <3>. QED  BY <3>3, <3>4, <3>5
  <2>. QED  BY <2>1
<1>11. NodeMeaning[n] = IteMeaning(k)  BY <1>0, <1>7, <1>10, NodeMeaningIs, IteMeaningIs
<1>. QED  BY <1>4, <1>5, <1>7, <1>9, <1>11 DEF n, x

Constant(k) == k.f.cell = OneNode

(* What bdd__ITE_ is about to look up for a call that has no trivial       *)
(* answer.                                                                 *)
LEMMA LookedUp ==
    ASSUME NEW k \in Triple, NEW gt,
           LET c == VarToConst(OneNode, k) IN ~Constant(c) /\ ~Trivial(OneNode, c)
    PROVE  LET can == Canonicalize(OneNode, gt, VarToConst(OneNode, k))
               x == Least({Top(can.key.f), Top(can.key.g), Top(can.key.h)})
           IN /\ can.complement \in BOOLEAN /\ Regular(can.key)
              /\ IteMeaning(k) = Signed(can.complement, IteMeaning(can.key))
              /\ can.key.g /= can.key.h
              /\ Cells(can.key) \subseteq Cells(k) \union {OneNode}
              /\ x \in Var /\ TopsFrom(can.key, x)
<1>. DEFINE c == VarToConst(OneNode, k)
            can == Canonicalize(OneNode, gt, c)
            r == can.key
            x == Least({Top(r.f), Top(r.g), Top(r.h)})
<1>1. /\ c \in Triple /\ c.f = k.f /\ IteMeaning(c) = IteMeaning(k)
      /\ Cells(c) \subseteq Cells(k) \union {OneNode}
  BY VarToConstKeepsFunction, VarToConstCells
<1>2. c.f.cell /= OneNode /\ c.g /= c.h  BY DEF Constant, Trivial
<1>. HIDE DEF c
<1>3. /\ can.complement \in BOOLEAN /\ Regular(r)
      /\ IteMeaning(c) = Signed(can.complement, IteMeaning(r))
  BY <1>1, CanonicalizeKeepsFunction
<1>4. Cells(r) = Cells(c) /\ r.g /= r.h
  BY <1>1, <1>2, CanonicalizeKeepsCells
<1>. HIDE DEF can, r
<1>5. r \in Triple /\ r.f \in Ptr /\ r.g \in Ptr /\ r.h \in Ptr  BY <1>3 DEF Regular, Triple
<1>6. /\ Top(r.f) \in Nat /\ Top(r.g) \in Nat /\ Top(r.h) \in Nat
      /\ Top(r.f) \in 0 .. ONE_ID /\ Top(r.g) \in 0 .. ONE_ID /\ Top(r.h) \in 0 .. ONE_ID
  BY <1>5, PtrParts, VarFacts
<1>7. x \in {Top(r.f), Top(r.g), Top(r.h)} /\ x <= Top(r.f) /\ x <= Top(r.g) /\ x <= Top(r.h)
  BY <1>6, LeastFacts
<1>. HIDE DEF x
<1>8. \/ Top(r.f) /= ONE_ID \/ Top(r.g) /= ONE_ID \/ Top(r.h) /= ONE_ID
  <2>1. c.f.cell \in Cells(r)  BY <1>4 DEF Cells
  <2>2. r.f.cell /= OneNode \/ r.g.cell /= OneNode \/ r.h.cell /= OneNode
    BY <1>2, <2>1 DEF Cells
  <2>. QED  BY <1>5, <2>2, PtrParts
<1>9. x \in Var  BY <1>6, <1>7, <1>8, VarFacts DEF Var, ONE_ID
<1>10. TopsFrom(r, x)  BY <1>6, <1>7, <1>9, VarFacts DEF TopsFrom
<1>. QED  BY <1>1, <1>3, <1>4, <1>9, <1>10 DEF c, can, r, x

-----------------------------------------------------------------------------
(* The stack.                                                              *)

Calls == [to: Handle, args: [f: Function, g: Function, h: Function]]

LEMMA StackPush ==
    ASSUME NEW stk, NEW c, NEW a, StackOK(stk, c), FrameOK(a),
           stk /= <<>> => Awaiting(stk[Len(stk)]),
           Signed(a.complement, IteMeaning(a.key)) = Wanted(stk, c, Len(stk))
    PROVE  LET s == Append(stk, a)
           IN /\ StackOK(s, c) /\ Len(s) = Len(stk) + 1 /\ s[Len(s)] = a /\ s /= <<>>
              /\ \A i \in 1 .. Len(stk) : s[i] = stk[i]
              /\ Wanted(s, c, Len(s)) = IF a.wait = "T" THEN IteMeaning(a.cofactors.v)
                                        ELSE IF a.wait = "E" THEN IteMeaning(a.cofactors.nv)
                                        ELSE IteMeaning(a.key)
<1>. DEFINE s == Append(stk, a)
            n == Len(stk)
<1>1. stk \in Seq(Frame) /\ a \in Frame /\ n \in Nat  BY DEF StackOK, FrameOK
<1>2. s \in Seq(Frame) /\ Len(s) = n + 1 /\ s[n + 1] = a /\ \A i \in 1 .. n : s[i] = stk[i]
  BY <1>1, AppendProperties
<1>3. \A i \in 1 .. n :
         /\ FrameOK(stk[i])
         /\ Signed(stk[i].complement, IteMeaning(stk[i].key)) = Wanted(stk, c, i - 1)
         /\ i < n => Awaiting(stk[i])
  BY DEF StackOK
<1>4. stk /= <<>> <=> n >= 1  BY <1>1, EmptySeq
<1>. HIDE DEF s, n
<1>5. \A i \in 0 .. n : Wanted(s, c, i) = Wanted(stk, c, i)
  BY <1>1, <1>2 DEF Wanted
<1>6. ASSUME NEW i \in 1 .. Len(s)
      PROVE  /\ FrameOK(s[i])
             /\ Signed(s[i].complement, IteMeaning(s[i].key)) = Wanted(s, c, i - 1)
             /\ i < Len(s) => Awaiting(s[i])
  <2>1. CASE i = n + 1
    <3>1. s[i] = a /\ i - 1 = n /\ n \in 0 .. n /\ ~(i < Len(s))  BY <1>1, <1>2, <2>1
    <3>. QED  BY <1>5, <3>1 DEF n
  <2>2. CASE i /= n + 1
    <3>1. i \in 1 .. n /\ i - 1 \in 0 .. n /\ s[i] = stk[i]  BY <1>1, <1>2, <2>2
    <3>2. FrameOK(stk[i])
          /\ Signed(stk[i].complement, IteMeaning(stk[i].key)) = Wanted(stk, c, i - 1)
      BY <1>3, <3>1
    <3>3. Awaiting(stk[i])
      <4>1. CASE i < n  BY <1>3, <3>1, <4>1
      <4>2. CASE i = n  BY <1>1, <1>4, <3>1, <4>2 DEF n
      <4>. QED  BY <1>1, <3>1, <4>1, <4>2
    <3>. QED  BY <1>5, <3>1, <3>2, <3>3
  <2>. QED  BY <2>1, <2>2
<1>7. StackOK(s, c)  BY <1>2, <1>6 DEF StackOK
<1>8. s /= <<>>  BY <1>1, <1>2, EmptySeq
<1>9. Wanted(s, c, Len(s)) = IF a.wait = "T" THEN IteMeaning(a.cofactors.v)
                             ELSE IF a.wait = "E" THEN IteMeaning(a.cofactors.nv)
                             ELSE IteMeaning(a.key)
  BY <1>1, <1>2 DEF Wanted
<1>. QED  BY <1>2, <1>7, <1>8, <1>9 DEF s, n

LEMMA StackPop ==
    ASSUME NEW stk, NEW c, StackOK(stk, c), stk /= <<>>
    PROVE  LET a == stk[Len(stk)]
               b == SubSeq(stk, 1, Len(stk) - 1)
           IN /\ FrameOK(a) /\ StackOK(b, c) /\ Len(stk) \in 1 .. Len(stk)
              /\ Len(b) = Len(stk) - 1 /\ Len(b) \in Nat
              /\ \A i \in 1 .. Len(b) : i \in 1 .. Len(stk) /\ b[i] = stk[i]
              /\ b /= <<>> => Awaiting(b[Len(b)])
              /\ Signed(a.complement, IteMeaning(a.key)) = Wanted(b, c, Len(b))
              /\ Wanted(stk, c, Len(stk)) = IF a.wait = "T" THEN IteMeaning(a.cofactors.v)
                                            ELSE IF a.wait = "E" THEN IteMeaning(a.cofactors.nv)
                                            ELSE IteMeaning(a.key)
<1>. DEFINE n == Len(stk)
            a == stk[n]
            b == SubSeq(stk, 1, n - 1)
<1>1. stk \in Seq(Frame) /\ n \in Nat /\ n >= 1 /\ n - 1 \in Nat
  <2>1. stk \in Seq(Frame)  BY DEF StackOK
  <2>. QED  BY <2>1, EmptySeq
<1>2. b \in Seq(Frame) /\ Len(b) = n - 1 /\ \A i \in 1 .. n - 1 : b[i] = stk[i]
  <2>1. \A i \in 1 .. n - 1 : stk[i] \in Frame  BY <1>1, ElementOfSeq
  <2>2. 1 \in Int /\ n - 1 \in Int  BY <1>1
  <2>3. /\ b \in Seq(Frame)
        /\ Len(b) = IF 1 <= n - 1 THEN n - 1 - 1 + 1 ELSE 0
        /\ \A i \in 1 .. n - 1 - 1 + 1 : b[i] = stk[1 + i - 1]
    BY <2>1, <2>2, SubSeqProperties
  <2>. HIDE DEF b, n
  <2>. QED  BY <1>1, <2>3
<1>3. \A i \in 1 .. n :
         /\ FrameOK(stk[i])
         /\ Signed(stk[i].complement, IteMeaning(stk[i].key)) = Wanted(stk, c, i - 1)
         /\ i < n => Awaiting(stk[i])
  BY DEF StackOK
<1>. HIDE DEF b, n
<1>4. n \in 1 .. n /\ n - 1 \in 0 .. n - 1  BY <1>1
<1>5. \A i \in 0 .. n - 1 : Wanted(b, c, i) = Wanted(stk, c, i)
  BY <1>1, <1>2 DEF Wanted
<1>6. FrameOK(a) /\ Signed(a.complement, IteMeaning(a.key)) = Wanted(b, c, Len(b))
  BY <1>2, <1>3, <1>4, <1>5
<1>7. StackOK(b, c)
  <2>1. ASSUME NEW i \in 1 .. Len(b)
        PROVE  /\ FrameOK(b[i])
               /\ Signed(b[i].complement, IteMeaning(b[i].key)) = Wanted(b, c, i - 1)
               /\ i < Len(b) => Awaiting(b[i])
    <3>1. i \in 1 .. n /\ i \in 1 .. n - 1 /\ i - 1 \in 0 .. n - 1 /\ i < n /\ b[i] = stk[i]
      BY <1>1, <1>2
    <3>. QED  BY <1>3, <1>5, <3>1
  <2>. QED  BY <1>2, <2>1 DEF StackOK
<1>8. b /= <<>> => Awaiting(b[Len(b)])
  <2>. SUFFICES ASSUME b /= <<>>  PROVE Awaiting(b[Len(b)])  OBVIOUS
  <2>1. Len(b) >= 1  BY <1>2, EmptySeq
  <2>2. n - 1 \in 1 .. n /\ n - 1 \in 1 .. n - 1 /\ n - 1 < n  BY <1>1, <1>2, <2>1
  <2>3. Awaiting(stk[n - 1]) /\ b[n - 1] = stk[n - 1]  BY <1>2, <1>3, <2>2
  <2>. QED  BY <1>2, <2>3
<1>9. Wanted(stk, c, n) = IF a.wait = "T" THEN IteMeaning(a.cofactors.v)
                          ELSE IF a.wait = "E" THEN IteMeaning(a.cofactors.nv)
                          ELSE IteMeaning(a.key)
  BY <1>1 DEF Wanted
<1>10. \A i \in 1 .. Len(b) : i \in 1 .. n /\ b[i] = stk[i]  BY <1>1, <1>2
<1>. QED  BY <1>1, <1>2, <1>4, <1>6, <1>7, <1>8, <1>9, <1>10 DEF n, b

(* What the machine is about to do says what holds of it.                  *)
LEMMA Situation ==
    ASSUME CallInv
    PROVE  /\ call = NIL => task = Idle /\ stack = <<>>
           /\ call /= NIL => call \in Calls /\ StackOK(stack, call) /\ TaskOK(task, stack, call)
           /\ (task.do = "nothing") <=> (call = NIL)
           /\ task.do = "ite" =>
                /\ call /= NIL /\ task.args \in Triple /\ task = CallIte(task.args)
                /\ IteMeaning(task.args) = Wanted(stack, call, Len(stack))
                /\ stack /= <<>> => Awaiting(Current)
           /\ task.do \in {"find_or_add", "new_node", "collected"} =>
                /\ call /= NIL /\ task.node \in Node \ {OneNode}
                /\ NodeMeaning[task.node] = Wanted(stack, call, Len(stack))
                /\ stack /= <<>> => ~Awaiting(Current)
           /\ task.do = "return" =>
                /\ call /= NIL /\ task.value \in Ptr
                /\ Meaning(task.value) = Wanted(stack, call, Len(stack))
           /\ task.do \in {"nothing", "ite", "find_or_add", "new_node", "collected", "return"}
<1>1. NIL \notin Calls  BY AbsentAssumption DEF Calls, Function
<1>2. CASE call = NIL /\ task = Idle /\ stack = <<>>  BY <1>2 DEF Idle
<1>3. CASE call \in Calls /\ StackOK(stack, call) /\ TaskOK(task, stack, call)
  <2>1. CASE /\ AtIte(task)
             /\ IteMeaning(task.args) = Wanted(stack, call, Len(stack))
             /\ stack /= <<>> => Awaiting(stack[Len(stack)])
    BY <1>1, <1>3, <2>1 DEF AtIte, CallIte, Current
  <2>2. CASE /\ AtNode(task)
             /\ NodeMeaning[task.node] = Wanted(stack, call, Len(stack))
             /\ stack /= <<>> => ~Awaiting(stack[Len(stack)])
    BY <1>1, <1>3, <2>2 DEF AtNode, Current
  <2>3. CASE AtReturn(task) /\ Meaning(task.value) = Wanted(stack, call, Len(stack))
    BY <1>1, <1>3, <2>3 DEF AtReturn
  <2>. QED  BY <1>3, <2>1, <2>2, <2>3 DEF TaskOK
<1>. QED  BY <1>2, <1>3 DEF CallInv, Calls

LEMMA Tasks ==
    /\ \A k \in Triple : AtIte(CallIte(k)) /\ CallIte(k).args = k /\ CallIte(k).do = "ite"
    /\ \A n \in Node \ {OneNode} :
          /\ AtNode(CallAdd(n)) /\ CallAdd(n).node = n
          /\ AtNode(NewNode(n)) /\ NewNode(n).node = n
          /\ AtNode(Collected(n)) /\ Collected(n).node = n
    /\ \A p \in Ptr : AtReturn(Return(p)) /\ Return(p).value = p
BY DEF AtIte, CallIte, AtNode, CallAdd, NewNode, Collected, AtReturn, Return

-----------------------------------------------------------------------------
(* The recursion computes what it was asked for.                           *)

LEMMA TrivialAnswer ==
    ASSUME NEW k \in Triple, NEW p,
           LET c == VarToConst(OneNode, k)
           IN \/ IS_CONSTANT(OneNode, c.f) /\ p = IF c.f = One THEN k.g ELSE k.h
              \/ Trivial(OneNode, c) /\ p = TrivialValue(OneNode, c)
    PROVE  /\ p \in Ptr /\ p.cell \in Cells(k) \union {OneNode}
           /\ Meaning(p) = IteMeaning(k)
<1>. DEFINE c == VarToConst(OneNode, k)
<1>1. /\ c \in Triple /\ c.f = k.f /\ IteMeaning(c) = IteMeaning(k)
      /\ Cells(c) \subseteq Cells(k) \union {OneNode}
  BY VarToConstKeepsFunction, VarToConstCells
<1>2. CASE IS_CONSTANT(OneNode, c.f) /\ p = IF c.f = One THEN k.g ELSE k.h
  <2>. HIDE DEF c
  <2>1. k.f.cell = OneNode  BY <1>1, <1>2 DEF IS_CONSTANT
  <2>2. Meaning(p) = IteMeaning(k)  BY <1>1, <1>2, <2>1, TrivialValues
  <2>. QED  BY <1>2, <2>2 DEF Cells, Triple
<1>3. CASE Trivial(OneNode, c) /\ p = TrivialValue(OneNode, c)
  <2>. HIDE DEF c
  <2>. QED  BY <1>1, <1>3, TrivialValues
<1>. QED  BY <1>2, <1>3

LEMMA CandidateFacts ==
    ASSUME task.args \in Triple, NEW can \in Candidates
    PROVE  LET x == Least({Top(can.key.f), Top(can.key.g), Top(can.key.h)})
           IN /\ can.complement \in BOOLEAN /\ Regular(can.key)
              /\ IteMeaning(task.args) = Signed(can.complement, IteMeaning(can.key))
              /\ can.key.g /= can.key.h
              /\ Cells(can.key) \subseteq Cells(task.args) \union {OneNode}
              /\ x \in Var /\ TopsFrom(can.key, x)
<1>. DEFINE c == VarToConst(OneNode, task.args)
<1>1. ~IS_CONSTANT(OneNode, c.f) /\ ~Trivial(OneNode, c)  BY DEF Candidates
<1>2. PICK gt \in AddressOrders : can = Canonicalize(OneNode, gt, c)
  BY <1>1 DEF Candidates
<1>3. ~Constant(c)  BY <1>1 DEF Constant, IS_CONSTANT
<1>. QED  BY <1>1, <1>2, <1>3, LookedUp

LEMMA ActivationFacts ==
    ASSUME NEW can, can.complement \in BOOLEAN, Regular(can.key),
           NEW x \in Var, TopsFrom(can.key, x), NEW w \in {"T", "shortcut"}
    PROVE  LET a == Activation(can, x, w)
           IN /\ FrameOK(a) /\ a.key = can.key /\ a.complement = can.complement /\ a.x = x
              /\ a.wait = w /\ a.T = NIL
              /\ a.cofactors = Cofactors(can.key, x)
              /\ a.cofactors.v \in Triple /\ a.cofactors.nv \in Triple
<1>. DEFINE a == Activation(can, x, w)
<1>1. /\ a.key = can.key /\ a.complement = can.complement /\ a.x = x /\ a.T = NIL
      /\ a.wait = w /\ a.cofactors = Cofactors(can.key, x)
      /\ a = [key |-> can.key, complement |-> can.complement, x |-> x,
              cofactors |-> Cofactors(can.key, x), T |-> NIL, wait |-> w]
  BY DEF Activation
<1>2. Cofactors(can.key, x) \in [v: Triple, nv: Triple]
  BY CofactorsOfTriple DEF Regular
<1>3. a \in Frame
  <2>1. can.key \in Triple /\ NIL \in PtrOrNIL /\ w \in {"T", "E", "node", "shortcut"}
    BY DEF Regular, PtrOrNIL
  <2>. HIDE DEF a
  <2>. QED  BY <1>1, <1>2, <2>1 DEF Frame
<1>4. a.cofactors.v \in Triple /\ a.cofactors.nv \in Triple
  <2>. DEFINE d == Cofactors(can.key, x)
  <2>1. d \in [v: Triple, nv: Triple] /\ a.cofactors = d  BY <1>1, <1>2
  <2>. HIDE DEF d, a
  <2>. QED  BY <2>1
<1>. HIDE DEF a
<1>5. FrameOK(a)  BY <1>1, <1>3 DEF FrameOK
<1>. QED  BY <1>1, <1>4, <1>5 DEF a

LEMMA CallIntro ==
    ASSUME call' \in Calls, StackOK(stack', call'), TaskOK(task', stack', call')
    PROVE  CallInv'
BY DEF CallInv, Calls

LEMMA MeaningsOfOperands ==
    ASSUME NEW k \in Triple
    PROVE  Meanings(k) \in [f: Function, g: Function, h: Function]
BY MeaningIs DEF Meanings, Function, Triple

LEMMA OperandsAreTriples == HeapInv => Operands \subseteq Triple
<1>. SUFFICES ASSUME HeapInv  PROVE Operands \subseteq Triple  OBVIOUS
<1>. DEFINE held == {handle[p] : p \in Handle} \ {NIL}
            phases == held \union {NOT(f) : f \in held}
<1>1. held \subseteq Ptr  BY DEF HeapInv, PtrOrNIL
<1>2. phases \subseteq Ptr
  <2>. HIDE DEF held
  <2>1. \A f \in held : NOT(f) \in Ptr  BY <1>1, PtrOperators
  <2>. QED  BY <1>1, <2>1
<1>3. One \in Ptr /\ Zero \in Ptr  BY MeaningOfConstants
<1>4. Operands = [f: phases, g: phases, h: phases \union {Zero}]
                   \union [f: phases, g: {One}, h: phases]
  BY DEF Operands
<1>. HIDE DEF phases, held
<1>. QED  BY <1>2, <1>3, <1>4 DEF Triple

(* A value that reaches an activation is the one it waits for.             *)
LEMMA ReturnedFacts ==
    ASSUME CallInv, Returned
    PROVE  /\ call \in Calls /\ call /= NIL /\ stack /= <<>> /\ task.value \in Ptr
           /\ FrameOK(Current) /\ StackOK(Below, call)
           /\ Below /= <<>> => Awaiting(Below[Len(Below)])
           /\ Signed(Current.complement, IteMeaning(Current.key)) = Wanted(Below, call, Len(Below))
           /\ Meaning(task.value) = IF Current.wait = "T" THEN IteMeaning(Current.cofactors.v)
                                    ELSE IF Current.wait = "E" THEN IteMeaning(Current.cofactors.nv)
                                    ELSE IteMeaning(Current.key)
<1>1. task.do = "return" /\ stack /= <<>>  BY DEF Returned
<1>2. /\ call /= NIL /\ call \in Calls /\ StackOK(stack, call) /\ task.value \in Ptr
      /\ Meaning(task.value) = Wanted(stack, call, Len(stack))
  BY <1>1, Situation
<1>. QED  BY <1>1, <1>2, StackPop DEF Current, Below

LEMMA LeaveStep ==
    ASSUME CallInv, Returned, NEW p \in Ptr, Meaning(p) = IteMeaning(Current.key),
           stack' = Below, task' = Return(Flip(Current.complement, p)), call' = call
    PROVE  CallInv'
<1>1. /\ call \in Calls /\ StackOK(Below, call) /\ FrameOK(Current)
      /\ Signed(Current.complement, IteMeaning(Current.key)) = Wanted(Below, call, Len(Below))
  BY ReturnedFacts
<1>2. Current.complement \in BOOLEAN  BY <1>1 DEF FrameOK, Frame
<1>. DEFINE q == Flip(Current.complement, p)
<1>3. q \in Ptr /\ Meaning(q) = Wanted(Below, call, Len(Below))
  BY <1>1, <1>2, MeaningOfValues
<1>. HIDE DEF q
<1>4. TaskOK(Return(q), Below, call)  BY <1>3, Tasks DEF TaskOK
<1>5. task' = Return(q)  BY DEF q
<1>. QED  BY <1>1, <1>4, <1>5, CallIntro

LEMMA CallStep == HeapInv /\ CacheInv /\ CallInv /\ [Next]_vars => CallInv'
<1>. SUFFICES ASSUME HeapInv, CacheInv, CallInv, [Next]_vars  PROVE CallInv'  OBVIOUS
<1>0. /\ call = NIL => task = Idle /\ stack = <<>>
      /\ call /= NIL => call \in Calls /\ StackOK(stack, call) /\ TaskOK(task, stack, call)
  BY Situation
<1>1. ASSUME NEW p \in Handle, NEW k \in Operands, StartIte(p, k)  PROVE CallInv'
  <2>1. /\ call = NIL /\ call' = [to |-> p, args |-> Meanings(k)]
        /\ task' = CallIte(k) /\ stack' = stack
    BY <1>1 DEF StartIte
  <2>2. k \in Triple /\ Meanings(k) \in [f: Function, g: Function, h: Function]
    BY OperandsAreTriples, MeaningsOfOperands
  <2>3. call' \in Calls /\ call'.args = Meanings(k)  BY <2>1, <2>2 DEF Calls
  <2>4. stack' = <<>> /\ StackOK(<<>>, call')  BY <1>0, <2>1 DEF StackOK
  <2>5. Wanted(<<>>, call', 0) = IteMeaning(k)  BY <2>3 DEF Wanted, IteMeaning
  <2>6. TaskOK(task', <<>>, call')  BY <2>1, <2>2, <2>5, Tasks DEF TaskOK
  <2>. QED  BY <2>3, <2>4, <2>6, CallIntro
<1>2. ASSUME NEW p \in Handle, NEW x \in Var, StartVariable(p, x)  PROVE CallInv'
  <2>. DEFINE a == [f |-> {v \in Valuations : v[x]}, g |-> Valuations, h |-> {}]
  <2>1. /\ call = NIL /\ call' = [to |-> p, args |-> a]
        /\ task' = CallAdd(Variable(x)) /\ stack' = stack
    BY <1>2 DEF StartVariable
  <2>2. a \in [f: Function, g: Function, h: Function]  BY DEF Function
  <2>3. IteOf(a) = {v \in Valuations : v[x]}  BY DEF IteOf
  <2>. HIDE DEF a
  <2>4. call' \in Calls /\ call'.args = a  BY <2>1, <2>2 DEF Calls
  <2>5. stack' = <<>> /\ StackOK(<<>>, call')  BY <1>0, <2>1 DEF StackOK
  <2>6. Variable(x) \in Node \ {OneNode} /\ NodeMeaning[Variable(x)] = Wanted(<<>>, call', 0)
    BY <2>3, <2>4, NodeOfVariable DEF Wanted
  <2>7. TaskOK(task', <<>>, call')  BY <2>1, <2>6, Tasks DEF TaskOK
  <2>. QED  BY <2>4, <2>5, <2>7, CallIntro
<1>3. ASSUME NEW p \in Handle, NEW value, Make(p, value)  PROVE CallInv'
  <2>1. UNCHANGED <<stack, task, call>>  BY <1>3 DEF Make
  <2>. QED  BY <2>1 DEF CallInv, StackOK, TaskOK, Wanted
<1>4. ASSUME NEW p \in Handle, Free(p)  PROVE CallInv'
  <2>1. UNCHANGED <<stack, task, call>>  BY <1>4 DEF Free
  <2>. QED  BY <2>1 DEF CallInv, StackOK, TaskOK, Wanted
<1>5. CASE AnswerTrivial
  <2>1. task.do = "ite" /\ UNCHANGED <<stack, call>>  BY <1>5 DEF AnswerTrivial
  <2>2. /\ call /= NIL /\ task.args \in Triple
        /\ IteMeaning(task.args) = Wanted(stack, call, Len(stack))
    BY <2>1, Situation
  <2>. DEFINE c == VarToConst(OneNode, task.args)
  <2>3. PICK p : /\ task' = Return(p)
                 /\ \/ IS_CONSTANT(OneNode, c.f) /\ p = IF c.f = One THEN task.args.g ELSE task.args.h
                    \/ Trivial(OneNode, c) /\ p = TrivialValue(OneNode, c)
    BY <1>5 DEF AnswerTrivial
  <2>4. p \in Ptr /\ Meaning(p) = IteMeaning(task.args)
    BY <2>2, <2>3, TrivialAnswer
  <2>5. TaskOK(Return(p), stack, call)  BY <2>2, <2>4, Tasks DEF TaskOK
  <2>. QED  BY <1>0, <2>1, <2>2, <2>3, <2>5, CallIntro
<1>6. CASE AnswerCached
  <2>1. task.do = "ite" /\ UNCHANGED <<stack, call>>  BY <1>6 DEF AnswerCached
  <2>2. /\ call /= NIL /\ task.args \in Triple
        /\ IteMeaning(task.args) = Wanted(stack, call, Len(stack))
    BY <2>1, Situation
  <2>3. PICK can \in Candidates : Hit(can.key) /\ task' = Return(Flip(can.complement, cache.data))
    BY <1>6 DEF AnswerCached
  <2>4. /\ can.complement \in BOOLEAN
        /\ IteMeaning(task.args) = Signed(can.complement, IteMeaning(can.key))
    BY <2>2, CandidateFacts
  <2>5. cache.data \in Ptr /\ Meaning(cache.data) = IteMeaning(can.key)
    BY <2>3 DEF Hit, CacheInv, CacheOK
  <2>. DEFINE p == Flip(can.complement, cache.data)
  <2>6. p \in Ptr /\ Meaning(p) = IteMeaning(task.args)  BY <2>4, <2>5, MeaningOfValues
  <2>7. TaskOK(Return(p), stack, call)
    <3>. HIDE DEF p
    <3>. QED  BY <2>2, <2>6, Tasks DEF TaskOK
  <2>. QED  BY <1>0, <2>1, <2>2, <2>3, <2>7, CallIntro
<1>7. CASE EnterShortcut
  <2>1. task.do = "ite" /\ UNCHANGED call  BY <1>7 DEF EnterShortcut
  <2>2. /\ call /= NIL /\ task.args \in Triple
        /\ IteMeaning(task.args) = Wanted(stack, call, Len(stack))
        /\ stack /= <<>> => Awaiting(stack[Len(stack)])
    BY <2>1, Situation DEF Current
  <2>3. PICK can \in Candidates :
           /\ Shortcut(can.key)
           /\ stack' = Append(stack, Activation(can, Top(can.key.f), "shortcut"))
           /\ task' = CallAdd([id |-> Top(can.key.f), T |-> can.key.g, E |-> can.key.h])
    BY <1>7 DEF EnterShortcut
  <2>4. /\ can.complement \in BOOLEAN /\ Regular(can.key) /\ can.key.g /= can.key.h
        /\ IteMeaning(task.args) = Signed(can.complement, IteMeaning(can.key))
    BY <2>2, CandidateFacts
  <2>. DEFINE n == [id |-> Top(can.key.f), T |-> can.key.g, E |-> can.key.h]
              a == Activation(can, Top(can.key.f), "shortcut")
  <2>5. /\ Top(can.key.f) \in Var /\ TopsFrom(can.key, Top(can.key.f))
        /\ n \in Node \ {OneNode} /\ NodeMeaning[n] = IteMeaning(can.key)
    BY <2>3, <2>4, NodeOfShortcut
  <2>6. /\ FrameOK(a) /\ a.key = can.key /\ a.complement = can.complement
        /\ a.wait = "shortcut"
    BY <2>4, <2>5, ActivationFacts
  <2>7. stack' = Append(stack, a) /\ task' = CallAdd(n)  BY <2>3
  <2>. HIDE DEF n, a
  <2>8. /\ StackOK(stack', call) /\ stack'[Len(stack')] = a
        /\ Wanted(stack', call, Len(stack')) = IteMeaning(can.key)
    <3>. DEFINE s == Append(stack, a)
    <3>1. /\ StackOK(stack, call) /\ FrameOK(a)
          /\ stack /= <<>> => Awaiting(stack[Len(stack)])
          /\ Signed(a.complement, IteMeaning(a.key)) = Wanted(stack, call, Len(stack))
      BY <1>0, <2>2, <2>4, <2>6, <2>7
    <3>2. /\ StackOK(s, call) /\ s[Len(s)] = a
          /\ Wanted(s, call, Len(s)) = IF a.wait = "T" THEN IteMeaning(a.cofactors.v)
                                      ELSE IF a.wait = "E" THEN IteMeaning(a.cofactors.nv)
                                      ELSE IteMeaning(a.key)
      BY <3>1, StackPush
    <3>3. stack' = s  BY <1>0, <2>2, <2>4, <2>6, <2>7
    <3>. HIDE DEF s
    <3>. QED  BY <1>0, <2>2, <2>4, <2>6, <2>7, <3>2, <3>3
  <2>9. ~Awaiting(a)  BY <2>6 DEF Awaiting
  <2>10. TaskOK(task', stack', call)  BY <2>5, <2>7, <2>8, <2>9, Tasks DEF TaskOK
  <2>. QED  BY <1>0, <2>1, <2>2, <2>8, <2>10, CallIntro
<1>8. CASE EnterRecursion
  <2>1. task.do = "ite" /\ UNCHANGED call  BY <1>8 DEF EnterRecursion
  <2>2. /\ call /= NIL /\ task.args \in Triple
        /\ IteMeaning(task.args) = Wanted(stack, call, Len(stack))
        /\ stack /= <<>> => Awaiting(stack[Len(stack)])
    BY <2>1, Situation DEF Current
  <2>3. PICK can \in Candidates :
           LET x == Least({Top(can.key.f), Top(can.key.g), Top(can.key.h)})
               a == Activation(can, x, "T")
           IN stack' = Append(stack, a) /\ task' = CallIte(a.cofactors.v)
    BY <1>8 DEF EnterRecursion
  <2>. DEFINE x == Least({Top(can.key.f), Top(can.key.g), Top(can.key.h)})
              a == Activation(can, x, "T")
  <2>4. /\ can.complement \in BOOLEAN /\ Regular(can.key)
        /\ IteMeaning(task.args) = Signed(can.complement, IteMeaning(can.key))
        /\ x \in Var /\ TopsFrom(can.key, x)
    BY <2>2, CandidateFacts
  <2>5. stack' = Append(stack, a) /\ task' = CallIte(a.cofactors.v)  BY <2>3
  <2>. HIDE DEF x
  <2>6. /\ FrameOK(a) /\ a.key = can.key /\ a.complement = can.complement
        /\ a.wait = "T" /\ a.cofactors.v \in Triple
    BY <2>4, ActivationFacts
  <2>. HIDE DEF a
  <2>7. /\ StackOK(stack', call) /\ stack'[Len(stack')] = a
        /\ Wanted(stack', call, Len(stack')) = IteMeaning(a.cofactors.v)
    <3>. DEFINE s == Append(stack, a)
    <3>1. /\ StackOK(stack, call) /\ FrameOK(a)
          /\ stack /= <<>> => Awaiting(stack[Len(stack)])
          /\ Signed(a.complement, IteMeaning(a.key)) = Wanted(stack, call, Len(stack))
      BY <1>0, <2>2, <2>4, <2>5, <2>6
    <3>2. /\ StackOK(s, call) /\ s[Len(s)] = a
          /\ Wanted(s, call, Len(s)) = IF a.wait = "T" THEN IteMeaning(a.cofactors.v)
                                      ELSE IF a.wait = "E" THEN IteMeaning(a.cofactors.nv)
                                      ELSE IteMeaning(a.key)
      BY <3>1, StackPush
    <3>3. stack' = s  BY <1>0, <2>2, <2>4, <2>5, <2>6
    <3>. HIDE DEF s
    <3>. QED  BY <1>0, <2>2, <2>4, <2>5, <2>6, <3>2, <3>3
  <2>8. Awaiting(a)  BY <2>6 DEF Awaiting
  <2>9. TaskOK(task', stack', call)  BY <2>5, <2>6, <2>7, <2>8, Tasks DEF TaskOK
  <2>. QED  BY <1>0, <2>1, <2>2, <2>7, <2>9, CallIntro
<1>9. CASE ReturnT
  <2>1. Returned /\ Current.wait = "T" /\ call' = call  BY <1>9 DEF ReturnT
  <2>. DEFINE a == Current
              b == [a EXCEPT !.T = task.value, !.wait = "E"]
  <2>2. stack' = Append(Below, b) /\ task' = CallIte(a.cofactors.nv)
    BY <1>9 DEF ReturnT
  <2>3. /\ call \in Calls /\ task.value \in Ptr
        /\ FrameOK(a) /\ StackOK(Below, call)
        /\ Below /= <<>> => Awaiting(Below[Len(Below)])
        /\ Signed(a.complement, IteMeaning(a.key)) = Wanted(Below, call, Len(Below))
        /\ Meaning(task.value) = IteMeaning(a.cofactors.v)
    BY <2>1, ReturnedFacts
  <2>. HIDE DEF a
  <2>4. /\ b.key = a.key /\ b.complement = a.complement /\ b.x = a.x
        /\ b.cofactors = a.cofactors /\ b.T = task.value /\ b.wait = "E" /\ b \in Frame
    BY <2>3 DEF FrameOK, Frame, PtrOrNIL
  <2>. HIDE DEF b
  <2>5. FrameOK(b)  BY <2>3, <2>4 DEF FrameOK
  <2>6. /\ StackOK(stack', call) /\ stack'[Len(stack')] = b
        /\ Wanted(stack', call, Len(stack')) = IteMeaning(a.cofactors.nv)
    <3>. DEFINE s == Append(Below, b)
    <3>1. /\ StackOK(Below, call) /\ FrameOK(b)
          /\ Below /= <<>> => Awaiting(Below[Len(Below)])
          /\ Signed(b.complement, IteMeaning(b.key)) = Wanted(Below, call, Len(Below))
      BY <2>2, <2>3, <2>4, <2>5
    <3>2. /\ StackOK(s, call) /\ s[Len(s)] = b
          /\ Wanted(s, call, Len(s)) = IF b.wait = "T" THEN IteMeaning(b.cofactors.v)
                                      ELSE IF b.wait = "E" THEN IteMeaning(b.cofactors.nv)
                                      ELSE IteMeaning(b.key)
      BY <3>1, StackPush
    <3>3. stack' = s  BY <2>2, <2>3, <2>4, <2>5
    <3>. HIDE DEF s
    <3>. QED  BY <2>2, <2>3, <2>4, <2>5, <3>2, <3>3
  <2>7. Awaiting(b) /\ a.cofactors.nv \in Triple
    BY <2>3, <2>4 DEF Awaiting, FrameOK, Frame
  <2>8. TaskOK(task', stack', call)  BY <2>2, <2>6, <2>7, Tasks DEF TaskOK
  <2>. QED  BY <2>1, <2>3, <2>6, <2>8, CallIntro
<1>10. CASE ReturnSame
  <2>1. /\ Returned /\ Current.wait = "E" /\ task.value = Current.T /\ stack' = Below
        /\ task' = Return(Flip(Current.complement, Current.T)) /\ call' = call
    BY <1>10 DEF ReturnSame, Leave
  <2>2. /\ FrameOK(Current) /\ task.value \in Ptr
        /\ Meaning(task.value) = IteMeaning(Current.cofactors.nv)
    BY <2>1, ReturnedFacts
  <2>3. Meaning(Current.T) = IteMeaning(Current.key)  BY <2>1, <2>2, ValueOfRecursion
  <2>. QED  BY <2>1, <2>2, <2>3, LeaveStep
<1>11. CASE ReturnE
  <2>1. Returned /\ Current.wait = "E" /\ task.value /= Current.T /\ call' = call
    BY <1>11 DEF ReturnE
  <2>. DEFINE a == Current
              b == [a EXCEPT !.wait = "node"]
              n == [id |-> a.x, T |-> a.T, E |-> task.value]
  <2>2. stack' = Append(Below, b) /\ task' = CallAdd(n)  BY <1>11 DEF ReturnE
  <2>3. /\ call \in Calls /\ task.value \in Ptr
        /\ FrameOK(a) /\ StackOK(Below, call)
        /\ Below /= <<>> => Awaiting(Below[Len(Below)])
        /\ Signed(a.complement, IteMeaning(a.key)) = Wanted(Below, call, Len(Below))
        /\ Meaning(task.value) = IteMeaning(a.cofactors.nv)
    BY <2>1, ReturnedFacts
  <2>. HIDE DEF a
  <2>4. /\ b.key = a.key /\ b.complement = a.complement /\ b.x = a.x
        /\ b.cofactors = a.cofactors /\ b.T = a.T /\ b.wait = "node" /\ b \in Frame
    BY <2>3 DEF FrameOK, Frame
  <2>5. a.wait = "E" /\ task.value /= a.T  BY <2>1 DEF a
  <2>6. n \in Node \ {OneNode} /\ NodeMeaning[n] = IteMeaning(a.key)
    BY <2>3, <2>5, ValueOfRecursion
  <2>. HIDE DEF b, n
  <2>7. FrameOK(b)  BY <2>3, <2>4, <2>5 DEF FrameOK
  <2>8. /\ StackOK(stack', call) /\ stack'[Len(stack')] = b
        /\ Wanted(stack', call, Len(stack')) = IteMeaning(a.key)
    <3>. DEFINE s == Append(Below, b)
    <3>1. /\ StackOK(Below, call) /\ FrameOK(b)
          /\ Below /= <<>> => Awaiting(Below[Len(Below)])
          /\ Signed(b.complement, IteMeaning(b.key)) = Wanted(Below, call, Len(Below))
      BY <2>2, <2>3, <2>4, <2>7
    <3>2. /\ StackOK(s, call) /\ s[Len(s)] = b
          /\ Wanted(s, call, Len(s)) = IF b.wait = "T" THEN IteMeaning(b.cofactors.v)
                                      ELSE IF b.wait = "E" THEN IteMeaning(b.cofactors.nv)
                                      ELSE IteMeaning(b.key)
      BY <3>1, StackPush
    <3>3. stack' = s  BY <2>2, <2>3, <2>4, <2>7
    <3>. HIDE DEF s
    <3>. QED  BY <2>2, <2>3, <2>4, <2>7, <3>2, <3>3
  <2>9. ~Awaiting(b)  BY <2>4 DEF Awaiting
  <2>10. TaskOK(task', stack', call)  BY <2>2, <2>6, <2>8, <2>9, Tasks DEF TaskOK
  <2>. QED  BY <2>1, <2>3, <2>8, <2>10, CallIntro
<1>12. CASE ReturnNode \/ ReturnShortcut
  <2>1. /\ Returned /\ Current.wait \in {"node", "shortcut"} /\ stack' = Below
        /\ task' = Return(Flip(Current.complement, task.value)) /\ call' = call
    BY <1>12 DEF ReturnNode, ReturnShortcut, Leave
  <2>2. task.value \in Ptr /\ Meaning(task.value) = IteMeaning(Current.key)
    BY <2>1, ReturnedFacts
  <2>. QED  BY <2>1, <2>2, LeaveStep
<1>13. CASE FindOrAdd
  <2>1. /\ task.do = "find_or_add" /\ UNCHANGED <<stack, call>>
        /\ task' = IF task.node \in heap THEN Return(Reg(task.node)) ELSE NewNode(task.node)
    BY <1>13 DEF FindOrAdd
  <2>2. /\ call /= NIL /\ task.node \in Node \ {OneNode}
        /\ NodeMeaning[task.node] = Wanted(stack, call, Len(stack))
        /\ stack /= <<>> => ~Awaiting(stack[Len(stack)])
    BY <2>1, Situation DEF Current
  <2>3. Reg(task.node) \in Ptr /\ Meaning(Reg(task.node)) = NodeMeaning[task.node]
    BY <2>2, MeaningOfValues DEF Reg, Ptr
  <2>4. TaskOK(Return(Reg(task.node)), stack, call)  BY <2>2, <2>3, Tasks DEF TaskOK
  <2>5. TaskOK(NewNode(task.node), stack, call)  BY <2>2, Tasks DEF TaskOK
  <2>. QED  BY <1>0, <2>1, <2>2, <2>4, <2>5, CallIntro
<1>14. CASE AddNode
  <2>1. /\ task.do \in {"new_node", "collected"} /\ UNCHANGED <<stack, call>>
        /\ task' = Return(Reg(task.node))
    BY <1>14 DEF AddNode
  <2>2. /\ call /= NIL /\ task.node \in Node \ {OneNode}
        /\ NodeMeaning[task.node] = Wanted(stack, call, Len(stack))
    BY <2>1, Situation
  <2>3. Reg(task.node) \in Ptr /\ Meaning(Reg(task.node)) = NodeMeaning[task.node]
    BY <2>2, MeaningOfValues DEF Reg, Ptr
  <2>4. TaskOK(Return(Reg(task.node)), stack, call)  BY <2>2, <2>3, Tasks DEF TaskOK
  <2>. QED  BY <1>0, <2>1, <2>2, <2>4, CallIntro
<1>15. CASE Collect
  <2>1. /\ task.do = "new_node" /\ UNCHANGED <<stack, call>> /\ task' = Collected(task.node)
    BY <1>15 DEF Collect
  <2>2. /\ call /= NIL /\ task.node \in Node \ {OneNode}
        /\ NodeMeaning[task.node] = Wanted(stack, call, Len(stack))
        /\ stack /= <<>> => ~Awaiting(stack[Len(stack)])
    BY <2>1, Situation DEF Current
  <2>3. TaskOK(Collected(task.node), stack, call)  BY <2>2, Tasks DEF TaskOK
  <2>. QED  BY <1>0, <2>1, <2>2, <2>3, CallIntro
<1>16. CASE Abandon \/ Finish
  BY <1>0, <1>16 DEF Abandon, Finish, CallInv
<1>17. CASE UNCHANGED vars
  BY <1>17 DEF vars, CallInv, StackOK, TaskOK, Wanted
<1>. QED
  BY <1>1, <1>2, <1>3, <1>4, <1>5, <1>6, <1>7, <1>8, <1>9, <1>10, <1>11, <1>12, <1>13, <1>14,
     <1>15, <1>16, <1>17 DEF Next, User, Running, Not, Branch

-----------------------------------------------------------------------------
(* What is still to be used stays in the heap.                             *)

LEMMA KeptPointer ==
    ASSUME NEW p \in Ptr, NEW hp
    PROVE  Kept(hp, p) <=> Cone[p.cell] \subseteq hp
BY AbsentAssumption DEF Kept

LEMMA KeptConstants == \A hp : OneNode \in hp => Kept(hp, One) /\ Kept(hp, Zero)
BY ConeIs, MeaningOfConstants DEF Kept

LEMMA KeptCells ==
    ASSUME NEW hp, OneNode \in hp, NEW k \in Triple, KeptTriple(hp, k),
           NEW p \in Ptr, p.cell \in Cells(k) \union {OneNode}
    PROVE  Kept(hp, p)
<1>1. k.f \in Ptr /\ k.g \in Ptr /\ k.h \in Ptr  BY DEF Triple
<1>2. Cone[k.f.cell] \subseteq hp /\ Cone[k.g.cell] \subseteq hp /\ Cone[k.h.cell] \subseteq hp
  BY <1>1, KeptPointer DEF KeptTriple
<1>3. Cone[OneNode] \subseteq hp  BY ConeIs
<1>4. Cone[p.cell] \subseteq hp  BY <1>2, <1>3 DEF Cells
<1>. QED  BY <1>4, KeptPointer

LEMMA KeptRewritten ==
    ASSUME NEW hp, OneNode \in hp, NEW k \in Triple, KeptTriple(hp, k),
           NEW r \in Triple, Cells(r) \subseteq Cells(k) \union {OneNode}
    PROVE  KeptTriple(hp, r)
<1>1. r.f \in Ptr /\ r.g \in Ptr /\ r.h \in Ptr  BY DEF Triple
<1>2. r.f.cell \in Cells(k) \union {OneNode} /\ r.g.cell \in Cells(k) \union {OneNode}
      /\ r.h.cell \in Cells(k) \union {OneNode}
  BY DEF Cells
<1>. QED  BY <1>1, <1>2, KeptCells DEF KeptTriple

LEMMA KeptCofactors ==
    ASSUME NEW hp, NEW k \in Triple, KeptTriple(hp, k), NEW x \in Var
    PROVE  KeptTriple(hp, Cofactors(k, x).v) /\ KeptTriple(hp, Cofactors(k, x).nv)
<1>1. k.f \in Ptr /\ k.g \in Ptr /\ k.h \in Ptr  BY DEF Triple
<1>2. ASSUME NEW p \in Ptr, Kept(hp, p)
      PROVE  Kept(hp, CofactorV(p, x)) /\ Kept(hp, CofactorNv(p, x))
  BY <1>2, ConeOfCofactors, KeptPointer
<1>3. Kept(hp, k.f) /\ Kept(hp, k.g) /\ Kept(hp, k.h)  BY DEF KeptTriple
<1>. QED  BY <1>1, <1>2, <1>3 DEF KeptTriple, Cofactors

LEMMA KeptMore ==
    ASSUME NEW hp, NEW more, hp \subseteq more
    PROVE  /\ \A p : Kept(hp, p) => Kept(more, p)
           /\ \A k : KeptTriple(hp, k) => KeptTriple(more, k)
           /\ \A a : KeptFrame(hp, a) => KeptFrame(more, a)
           /\ \A c : KeptCache(hp, c) => KeptCache(more, c)
<1>1. \A p : Kept(hp, p) => Kept(more, p)  BY DEF Kept
<1>2. \A k : KeptTriple(hp, k) => KeptTriple(more, k)  BY <1>1 DEF KeptTriple
<1>. QED  BY <1>1, <1>2 DEF KeptFrame, KeptCache

LEMMA KeptTasks ==
    ASSUME NEW hp
    PROVE  /\ \A k : KeptTriple(hp, k) => KeptTask(hp, CallIte(k))
           /\ \A n : Kept(hp, n.T) /\ Kept(hp, n.E) =>
                /\ KeptTask(hp, CallAdd(n)) /\ KeptTask(hp, NewNode(n))
                /\ KeptTask(hp, Collected(n))
           /\ \A p : Kept(hp, p) => KeptTask(hp, Return(p))
           /\ KeptTask(hp, Idle)
<1>. USE DEF KeptTask, AtIte, AtNode, AtReturn
<1>1. ASSUME NEW k, KeptTriple(hp, k)  PROVE KeptTask(hp, CallIte(k))
  BY <1>1 DEF CallIte
<1>2. ASSUME NEW n, Kept(hp, n.T), Kept(hp, n.E)
      PROVE  KeptTask(hp, CallAdd(n)) /\ KeptTask(hp, NewNode(n)) /\ KeptTask(hp, Collected(n))
  BY <1>2 DEF CallAdd, NewNode, Collected
<1>3. ASSUME NEW p, Kept(hp, p)  PROVE KeptTask(hp, Return(p))
  BY <1>3 DEF Return
<1>4. KeptTask(hp, Idle)  BY DEF Idle
<1>. QED  BY <1>1, <1>2, <1>3, <1>4

LEMMA KeptPush ==
    ASSUME NEW hp, NEW stk \in Seq(Frame), KeptStack(hp, stk), NEW a, KeptFrame(hp, a), a \in Frame
    PROVE  KeptStack(hp, Append(stk, a))
<1>1. /\ Len(Append(stk, a)) = Len(stk) + 1 /\ Append(stk, a)[Len(stk) + 1] = a
      /\ \A i \in 1 .. Len(stk) : Append(stk, a)[i] = stk[i]
  BY AppendProperties
<1>2. Len(stk) \in Nat  OBVIOUS
<1>3. ASSUME NEW i \in 1 .. Len(stk) + 1  PROVE i = Len(stk) + 1 \/ i \in 1 .. Len(stk)
  BY <1>2
<1>. QED  BY <1>1, <1>3 DEF KeptStack

LEMMA KeptPop ==
    ASSUME CallInv, Returned, NEW hp, KeptStack(hp, stack)
    PROVE  KeptStack(hp, Below) /\ KeptFrame(hp, Current)
<1>1. stack /= <<>> /\ StackOK(stack, call)  BY ReturnedFacts, Situation
<1>2. /\ Len(stack) \in 1 .. Len(stack)
      /\ \A i \in 1 .. Len(Below) : i \in 1 .. Len(stack) /\ Below[i] = stack[i]
  BY <1>1, StackPop DEF Below
<1>. QED  BY <1>2 DEF KeptStack, Current

(* A collection keeps what it was given as roots, and of the cache only    *)
(* what is left of it.                                                     *)
LEMMA CollectionKeeps ==
    ASSUME HeapInv, CacheInv, KeptCache(heap, cache), NEW roots, One \in roots,
           \A p \in roots : p \in PtrOrNIL /\ Kept(heap, p),
           GarbageCollect(roots)
    PROVE  /\ heap' \subseteq Node /\ OneNode \in heap'
           /\ \A p \in roots : Kept(heap', p)
           /\ CacheOK(cache') /\ KeptCache(heap', cache')
<1>. DEFINE kept == Copied(roots)
<1>1. kept = heap \intersect UNION {Cone[p.cell] : p \in roots \ {NIL}}  BY DEF Copied
<1>2. \A p \in roots \ {NIL} : p \in Ptr /\ Cone[p.cell] \subseteq heap
  BY DEF PtrOrNIL, Kept
<1>3. \A p \in roots : Kept(kept, p)  BY <1>1, <1>2 DEF Kept
<1>4. ASSUME NEW m \in kept  PROVE Cone[m] \subseteq kept
  <2>1. PICK p \in roots \ {NIL} : m \in Cone[p.cell]  BY <1>1
  <2>2. Cone[m] \subseteq Cone[p.cell] /\ Cone[p.cell] \subseteq kept
    BY <1>1, <1>2, <2>1, ConeFacts, PtrParts
  <2>. QED  BY <2>2
<1>5. kept \subseteq Node /\ OneNode \in kept
  <2>1. Kept(kept, One)  BY <1>3
  <2>2. OneNode \in kept  BY <2>1, KeptPointer, MeaningOfConstants, ConeIs
  <2>. QED  BY <1>1, <2>2 DEF HeapInv
<1>. HIDE DEF kept
<1>6. CASE heap' = kept /\ cache' = EntryAfter(kept)
  <2>. DEFINE can == Canonicalize(OneNode, GreaterThanEqual(id), cache.key)
  <2>1. CASE cache' = NIL  BY <1>3, <1>5, <1>6, <2>1 DEF CacheOK, KeptCache
  <2>2. CASE cache' /= NIL
    <3>1. /\ cache /= NIL /\ cache' = [cache EXCEPT !.key = can.key]
          /\ Cells(cache.key) \subseteq kept /\ cache.data.cell \in kept
      BY <1>6, <2>2 DEF EntryAfter, Cells
    <3>2. /\ cache \in [key: Triple, data: Ptr] /\ Regular(cache.key)
          /\ Meaning(cache.data) = IteMeaning(cache.key)
      BY <3>1 DEF CacheInv, CacheOK
    <3>3. cache.key \in Triple /\ cache.data \in Ptr  BY <3>2
    <3>4. /\ Regular(can.key) /\ ~can.complement
          /\ IteMeaning(cache.key) = Signed(can.complement, IteMeaning(can.key))
          /\ Cells(can.key) = Cells(cache.key)
      BY <3>2, <3>3, CanonicalizeKeepsFunction, CanonicalizeKeepsCells
    <3>. HIDE DEF can
    <3>5. cache' = [key |-> can.key, data |-> cache.data]  BY <3>1, <3>2
    <3>6. IteMeaning(can.key) = Meaning(cache.data)  BY <3>2, <3>4 DEF Signed
    <3>7. CacheOK(cache')  BY <3>3, <3>4, <3>5, <3>6 DEF CacheOK, Regular
    <3>8. KeptTriple(kept, can.key)
      <4>1. can.key.f \in Ptr /\ can.key.g \in Ptr /\ can.key.h \in Ptr
        BY <3>4 DEF Regular, Triple
      <4>2. can.key.f.cell \in kept /\ can.key.g.cell \in kept /\ can.key.h.cell \in kept
        BY <3>1, <3>4 DEF Cells
      <4>. QED  BY <1>4, <4>1, <4>2, KeptPointer DEF KeptTriple
    <3>9. Kept(kept, cache.data)  BY <1>4, <3>1, <3>3, KeptPointer
    <3>10. KeptCache(kept, cache')  BY <3>5, <3>8, <3>9 DEF KeptCache
    <3>. QED  BY <1>3, <1>5, <1>6, <3>7, <3>10
  <2>. QED  BY <2>1, <2>2
<1>7. CASE UNCHANGED <<heap, cache>>  BY <1>7 DEF HeapInv, CacheInv
<1>. QED  BY <1>6, <1>7 DEF GarbageCollect, kept

LEMMA KeptIntro ==
    ASSUME heap' \subseteq Node, OneNode \in heap', handle' \in [Handle -> PtrOrNIL],
           CacheOK(cache'),
           \A p \in Handle : Kept(heap', handle'[p]), KeptCache(heap', cache'),
           KeptStack(heap', stack'), KeptTask(heap', task')
    PROVE  HeapInv' /\ CacheInv' /\ KeptInv'
BY DEF HeapInv, CacheInv, KeptInv

LEMMA LeaveKeeps ==
    ASSUME IInv, Returned, NEW p \in Ptr, Meaning(p) = IteMeaning(Current.key), Kept(heap, p),
           Leave(p)
    PROVE  HeapInv' /\ CacheInv' /\ KeptInv'
<1>. USE DEF IInv
<1>1. /\ cache' \in {[key |-> Current.key, data |-> p], cache, NIL}
      /\ stack' = Below /\ task' = Return(Flip(Current.complement, p))
      /\ heap' = heap /\ handle' = handle
  BY DEF Leave
<1>2. FrameOK(Current)  BY ReturnedFacts
<1>3. KeptStack(heap, Below) /\ KeptFrame(heap, Current)  BY KeptPop DEF KeptInv
<1>4. CacheOK(cache') /\ KeptCache(heap, cache')
  <2>1. CacheOK(cache) /\ KeptCache(heap, cache)  BY DEF CacheInv, KeptInv
  <2>. QED  BY <1>1, <1>2, <1>3, <2>1 DEF CacheOK, KeptCache, KeptFrame, FrameOK, Regular
<1>5. Flip(Current.complement, p) \in Ptr /\ Flip(Current.complement, p).cell = p.cell
  BY <1>2, MeaningOfValues DEF FrameOK, Frame
<1>6. Kept(heap, Flip(Current.complement, p))  BY <1>5, KeptPointer
<1>7. KeptTask(heap, task')  BY <1>1, <1>6, KeptTasks
<1>. QED  BY <1>1, <1>3, <1>4, <1>7, KeptIntro DEF HeapInv, KeptInv

LEMMA StoreStep == IInv /\ [Next]_vars => HeapInv' /\ CacheInv' /\ KeptInv'
<1>. SUFFICES ASSUME IInv, [Next]_vars  PROVE HeapInv' /\ CacheInv' /\ KeptInv'  OBVIOUS
<1>0. /\ heap \subseteq Node /\ OneNode \in heap /\ handle \in [Handle -> PtrOrNIL]
      /\ CacheOK(cache) /\ CallInv
      /\ \A p \in Handle : Kept(heap, handle[p])
      /\ KeptCache(heap, cache) /\ KeptStack(heap, stack) /\ KeptTask(heap, task)
  BY DEF IInv, HeapInv, CacheInv, KeptInv
<1>0a. ASSUME UNCHANGED <<heap, cache>>, handle' = handle,
             KeptStack(heap, stack'), KeptTask(heap, task')
      PROVE  HeapInv' /\ CacheInv' /\ KeptInv'
  BY <1>0, <1>0a, KeptIntro
<1>0b. task.do = "ite" => task.args \in Triple /\ KeptTriple(heap, task.args)
  BY <1>0, Situation, Tasks DEF KeptTask
<1>0c. task.do \in {"find_or_add", "new_node", "collected"} =>
         task.node \in Node \ {OneNode} /\ Kept(heap, task.node.T) /\ Kept(heap, task.node.E)
  <2>. SUFFICES ASSUME task.do \in {"find_or_add", "new_node", "collected"}
                PROVE  task.node \in Node \ {OneNode} /\ Kept(heap, task.node.T)
                       /\ Kept(heap, task.node.E)
    OBVIOUS
  <2>1. task.node \in Node \ {OneNode} /\ call /= NIL  BY <1>0, Situation
  <2>2. AtNode(task)
    <3>1. TaskOK(task, stack, call)  BY <1>0, <2>1, Situation
    <3>. QED  BY <3>1 DEF TaskOK, AtIte, AtReturn
  <2>. QED  BY <1>0, <2>1, <2>2 DEF KeptTask
<1>0d. task.do = "return" => task.value \in Ptr /\ Kept(heap, task.value)
  <2>. SUFFICES ASSUME task.do = "return"  PROVE task.value \in Ptr /\ Kept(heap, task.value)
    OBVIOUS
  <2>1. task.value \in Ptr /\ call /= NIL  BY <1>0, Situation
  <2>2. AtReturn(task)
    <3>1. TaskOK(task, stack, call)  BY <1>0, <2>1, Situation
    <3>. QED  BY <3>1 DEF TaskOK, AtIte, AtNode
  <2>. QED  BY <1>0, <2>1, <2>2 DEF KeptTask
<1>0e. stack \in Seq(Frame)
  <2>1. CASE call = NIL
    <3>1. stack = <<>>  BY <1>0, <2>1, Situation
    <3>2. <<>> \in Seq(Frame)  BY EmptySeq
    <3>. QED  BY <3>1, <3>2
  <2>2. CASE call /= NIL
    <3>1. StackOK(stack, call)  BY <1>0, <2>2, Situation
    <3>. QED  BY <3>1 DEF StackOK
  <2>. QED  BY <2>1, <2>2
<1>1. ASSUME NEW p \in Handle, NEW k \in Operands, StartIte(p, k)
      PROVE  HeapInv' /\ CacheInv' /\ KeptInv'
  <2>1. task' = CallIte(k) /\ UNCHANGED <<heap, handle, cache, stack>>  BY <1>1 DEF StartIte
  <2>2. KeptTriple(heap, k)
    <3>. DEFINE held == {handle[q] : q \in Handle} \ {NIL}
                phases == held \union {NOT(f) : f \in held}
    <3>1. \A f \in held : f \in Ptr /\ Kept(heap, f)  BY <1>0 DEF PtrOrNIL
    <3>2. \A f \in phases : Kept(heap, f)
      <4>. HIDE DEF held
      <4>1. \A f \in held : NOT(f) \in Ptr /\ NOT(f).cell = f.cell  BY <3>1, PtrOperators
      <4>2. \A f \in held : Kept(heap, NOT(f))  BY <3>1, <4>1, KeptPointer
      <4>. QED  BY <3>1, <4>2
    <3>3. Operands = [f: phases, g: phases, h: phases \union {Zero}]
                       \union [f: phases, g: {One}, h: phases]
      BY DEF Operands
    <3>4. Kept(heap, One) /\ Kept(heap, Zero)  BY <1>0, KeptConstants
    <3>. HIDE DEF phases, held
    <3>. QED  BY <3>2, <3>3, <3>4 DEF KeptTriple
  <2>3. KeptTask(heap, task')  BY <2>1, <2>2, KeptTasks
  <2>. QED  BY <1>0, <1>0a, <2>1, <2>3
<1>2. ASSUME NEW p \in Handle, NEW x \in Var, StartVariable(p, x)
      PROVE  HeapInv' /\ CacheInv' /\ KeptInv'
  <2>1. task' = CallAdd(Variable(x)) /\ UNCHANGED <<heap, handle, cache, stack>>
    BY <1>2 DEF StartVariable
  <2>2. Variable(x).T = One /\ Variable(x).E = Zero  BY DEF Variable
  <2>3. KeptTask(heap, task')  BY <1>0, <2>1, <2>2, KeptConstants, KeptTasks
  <2>. QED  BY <1>0, <1>0a, <2>1, <2>3
<1>3. ASSUME NEW p \in Handle, NEW q \in Handle, handle[q] /= NIL,
             NEW value \in Ptr, Cone[value.cell] \subseteq Cone[handle[q].cell], Make(p, value)
      PROVE  HeapInv' /\ CacheInv' /\ KeptInv'
  <2>1. handle' = [handle EXCEPT ![p] = value] /\ UNCHANGED <<heap, cache, stack, task>>
    BY <1>3 DEF Make
  <2>2. Kept(heap, value)
    <3>1. handle[q] \in Ptr /\ Kept(heap, handle[q])  BY <1>0, <1>3 DEF PtrOrNIL
    <3>. QED  BY <1>3, <3>1, KeptPointer
  <2>3. handle' \in [Handle -> PtrOrNIL] /\ \A h \in Handle : Kept(heap, handle'[h])
    BY <1>0, <2>1, <2>2 DEF PtrOrNIL
  <2>. QED  BY <1>0, <2>1, <2>3, KeptIntro
<1>4. ASSUME NEW p \in Handle, NEW q \in Handle, Not(p, q)
      PROVE  HeapInv' /\ CacheInv' /\ KeptInv'
  <2>1. handle[q] /= NIL /\ Make(p, NOT(handle[q]))  BY <1>4 DEF Not
  <2>2. handle[q] \in Ptr  BY <1>0, <2>1 DEF PtrOrNIL
  <2>3. NOT(handle[q]) \in Ptr /\ NOT(handle[q]).cell = handle[q].cell
    BY <2>2, PtrOperators
  <2>. QED  BY <1>3, <2>1, <2>3
<1>5. ASSUME NEW p \in Handle, NEW q \in Handle, Branch(p, q)
      PROVE  HeapInv' /\ CacheInv' /\ KeptInv'
  <2>. DEFINE f == handle[q]
              x == Top(f)
  <2>1. f \in Ptr /\ f /= NIL /\ f.cell /= OneNode
    BY <1>0, <1>5 DEF Branch, PtrOrNIL, IS_CONSTANT
  <2>2. x \in Var  BY <2>1, PtrParts, VarFacts DEF Var, ONE_ID
  <2>3. Make(p, CofactorV(f, x)) \/ Make(p, CofactorNv(f, x))
    BY <1>5 DEF Branch, CofactorV, CofactorNv
  <2>4. /\ CofactorV(f, x) \in Ptr /\ Cone[CofactorV(f, x).cell] \subseteq Cone[f.cell]
        /\ CofactorNv(f, x) \in Ptr /\ Cone[CofactorNv(f, x).cell] \subseteq Cone[f.cell]
    BY <2>1, <2>2, ConeOfCofactors
  <2>. QED  BY <1>3, <2>1, <2>3, <2>4
<1>6. ASSUME NEW p \in Handle, Free(p)  PROVE HeapInv' /\ CacheInv' /\ KeptInv'
  <2>1. handle' = [handle EXCEPT ![p] = NIL] /\ UNCHANGED <<heap, cache, stack, task>>
    BY <1>6 DEF Free
  <2>2. handle' \in [Handle -> PtrOrNIL] /\ \A h \in Handle : Kept(heap, handle'[h])
    BY <1>0, <2>1 DEF PtrOrNIL, Kept
  <2>. QED  BY <1>0, <2>1, <2>2, KeptIntro
<1>7. CASE AnswerTrivial
  <2>. DEFINE c == VarToConst(OneNode, task.args)
  <2>1. task.do = "ite" /\ UNCHANGED <<heap, handle, cache, stack>>  BY <1>7 DEF AnswerTrivial
  <2>2. PICK p : /\ task' = Return(p)
                 /\ \/ IS_CONSTANT(OneNode, c.f) /\ p = IF c.f = One THEN task.args.g ELSE task.args.h
                    \/ Trivial(OneNode, c) /\ p = TrivialValue(OneNode, c)
    BY <1>7 DEF AnswerTrivial
  <2>3. p \in Ptr /\ p.cell \in Cells(task.args) \union {OneNode}
    BY <1>0b, <2>1, <2>2, TrivialAnswer
  <2>4. Kept(heap, p)  BY <1>0, <1>0b, <2>1, <2>3, KeptCells
  <2>5. KeptTask(heap, task')  BY <2>2, <2>4, KeptTasks
  <2>. QED  BY <1>0, <1>0a, <2>1, <2>5
<1>8. CASE AnswerCached
  <2>1. task.do = "ite" /\ UNCHANGED <<heap, handle, cache, stack>>  BY <1>8 DEF AnswerCached
  <2>2. PICK can \in Candidates : Hit(can.key) /\ task' = Return(Flip(can.complement, cache.data))
    BY <1>8 DEF AnswerCached
  <2>3. can.complement \in BOOLEAN  BY <1>0b, <2>1, CandidateFacts
  <2>4. cache.data \in Ptr /\ Kept(heap, cache.data)
    BY <1>0, <2>2 DEF Hit, CacheOK, KeptCache
  <2>5. Flip(can.complement, cache.data) \in Ptr
        /\ Flip(can.complement, cache.data).cell = cache.data.cell
    BY <2>3, <2>4, MeaningOfValues
  <2>6. Kept(heap, Flip(can.complement, cache.data))  BY <2>4, <2>5, KeptPointer
  <2>7. KeptTask(heap, task')  BY <2>2, <2>6, KeptTasks
  <2>. QED  BY <1>0, <1>0a, <2>1, <2>7
<1>9. ASSUME task.do = "ite", NEW can \in Candidates, NEW x \in Var, TopsFrom(can.key, x),
             NEW w \in {"T", "shortcut"}
      PROVE  LET a == Activation(can, x, w)
             IN /\ KeptStack(heap, Append(stack, a))
                /\ KeptTriple(heap, can.key) /\ KeptTriple(heap, a.cofactors.v)
  <2>. DEFINE a == Activation(can, x, w)
  <2>1. /\ can.complement \in BOOLEAN /\ Regular(can.key) /\ can.key \in Triple
        /\ Cells(can.key) \subseteq Cells(task.args) \union {OneNode}
    BY <1>0b, <1>9, CandidateFacts DEF Regular
  <2>2. KeptTriple(heap, can.key)  BY <1>0, <1>0b, <1>9, <2>1, KeptRewritten
  <2>3. /\ FrameOK(a) /\ a.key = can.key /\ a.T = NIL
        /\ a.cofactors = Cofactors(can.key, x)
    BY <1>9, <2>1, ActivationFacts
  <2>4. KeptTriple(heap, Cofactors(can.key, x).v) /\ KeptTriple(heap, Cofactors(can.key, x).nv)
    BY <2>1, <2>2, KeptCofactors
  <2>. HIDE DEF a
  <2>5. KeptFrame(heap, a)  BY <2>2, <2>3, <2>4 DEF KeptFrame, Kept
  <2>6. a \in Frame  BY <2>3 DEF FrameOK
  <2>7. KeptStack(heap, Append(stack, a))  BY <1>0, <1>0e, <2>5, <2>6, KeptPush
  <2>. QED  BY <2>2, <2>3, <2>4, <2>7 DEF a
<1>10. CASE EnterShortcut
  <2>1. task.do = "ite" /\ UNCHANGED <<heap, handle, cache>>  BY <1>10 DEF EnterShortcut
  <2>2. PICK can \in Candidates :
           /\ Shortcut(can.key)
           /\ stack' = Append(stack, Activation(can, Top(can.key.f), "shortcut"))
           /\ task' = CallAdd([id |-> Top(can.key.f), T |-> can.key.g, E |-> can.key.h])
    BY <1>10 DEF EnterShortcut
  <2>3. Regular(can.key) /\ can.key.g /= can.key.h  BY <1>0b, <2>1, CandidateFacts
  <2>4. Top(can.key.f) \in Var /\ TopsFrom(can.key, Top(can.key.f))
    BY <2>2, <2>3, NodeOfShortcut
  <2>5. KeptStack(heap, stack') /\ KeptTriple(heap, can.key)  BY <1>9, <2>1, <2>2, <2>4
  <2>6. KeptTask(heap, task')
    <3>. DEFINE n == [id |-> Top(can.key.f), T |-> can.key.g, E |-> can.key.h]
    <3>1. n.T = can.key.g /\ n.E = can.key.h /\ task' = CallAdd(n)  BY <2>2
    <3>. HIDE DEF n
    <3>. QED  BY <2>5, <3>1, KeptTasks DEF KeptTriple
  <2>. QED  BY <1>0a, <2>1, <2>5, <2>6
<1>11. CASE EnterRecursion
  <2>1. task.do = "ite" /\ UNCHANGED <<heap, handle, cache>>  BY <1>11 DEF EnterRecursion
  <2>2. PICK can \in Candidates :
           LET x == Least({Top(can.key.f), Top(can.key.g), Top(can.key.h)})
               a == Activation(can, x, "T")
           IN stack' = Append(stack, a) /\ task' = CallIte(a.cofactors.v)
    BY <1>11 DEF EnterRecursion
  <2>. DEFINE x == Least({Top(can.key.f), Top(can.key.g), Top(can.key.h)})
              a == Activation(can, x, "T")
  <2>3. x \in Var /\ TopsFrom(can.key, x)  BY <1>0b, <2>1, CandidateFacts
  <2>4. stack' = Append(stack, a) /\ task' = CallIte(a.cofactors.v)  BY <2>2
  <2>. HIDE DEF x
  <2>5. KeptStack(heap, Append(stack, a)) /\ KeptTriple(heap, a.cofactors.v)
    BY <1>9, <2>1, <2>3
  <2>. HIDE DEF a
  <2>6. KeptTask(heap, task')  BY <2>4, <2>5, KeptTasks
  <2>. QED  BY <1>0a, <2>1, <2>4, <2>5, <2>6
<1>12. CASE ReturnT
  <2>. DEFINE a == Current
              b == [a EXCEPT !.T = task.value, !.wait = "E"]
  <2>1. /\ Returned /\ UNCHANGED <<heap, handle, cache>>
        /\ stack' = Append(Below, b) /\ task' = CallIte(a.cofactors.nv)
    BY <1>12 DEF ReturnT
  <2>2. FrameOK(a) /\ StackOK(Below, call) /\ KeptStack(heap, Below) /\ KeptFrame(heap, a)
    BY <1>0, <2>1, ReturnedFacts, KeptPop
  <2>3. task.value \in Ptr /\ Kept(heap, task.value)  BY <1>0d, <2>1 DEF Returned
  <2>. HIDE DEF a
  <2>4. /\ b.key = a.key /\ b.cofactors = a.cofactors /\ b.T = task.value /\ b \in Frame
    BY <2>2, <2>3 DEF FrameOK, Frame, PtrOrNIL
  <2>. HIDE DEF b
  <2>5. KeptFrame(heap, b) /\ KeptTriple(heap, a.cofactors.nv)
    BY <2>2, <2>3, <2>4 DEF KeptFrame
  <2>6. KeptStack(heap, stack')
    <3>1. Below \in Seq(Frame)  BY <2>2 DEF StackOK
    <3>. QED  BY <2>1, <2>2, <2>4, <2>5, <3>1, KeptPush
  <2>7. KeptTask(heap, task')  BY <2>1, <2>5, KeptTasks
  <2>. QED  BY <1>0a, <2>1, <2>6, <2>7
<1>13. CASE ReturnSame
  <2>1. /\ Returned /\ Current.wait = "E" /\ task.value = Current.T /\ Leave(Current.T)
    BY <1>13 DEF ReturnSame
  <2>2. /\ FrameOK(Current) /\ task.value \in Ptr
        /\ Meaning(task.value) = IteMeaning(Current.cofactors.nv)
    BY <1>0, <2>1, ReturnedFacts
  <2>3. Meaning(Current.T) = IteMeaning(Current.key)  BY <2>1, <2>2, ValueOfRecursion
  <2>4. Kept(heap, Current.T)  BY <1>0d, <2>1 DEF Returned
  <2>. QED  BY <2>1, <2>2, <2>3, <2>4, LeaveKeeps
<1>14. CASE ReturnE
  <2>. DEFINE a == Current
              b == [a EXCEPT !.wait = "node"]
              n == [id |-> a.x, T |-> a.T, E |-> task.value]
  <2>1. /\ Returned /\ UNCHANGED <<heap, handle, cache>>
        /\ stack' = Append(Below, b) /\ task' = CallAdd(n)
    BY <1>14 DEF ReturnE
  <2>2. FrameOK(a) /\ StackOK(Below, call) /\ KeptStack(heap, Below) /\ KeptFrame(heap, a)
    BY <1>0, <2>1, ReturnedFacts, KeptPop
  <2>3. task.value \in Ptr /\ Kept(heap, task.value)  BY <1>0d, <2>1 DEF Returned
  <2>. HIDE DEF a
  <2>4. /\ b.key = a.key /\ b.cofactors = a.cofactors /\ b.T = a.T /\ b \in Frame
    BY <2>2 DEF FrameOK, Frame
  <2>5. n.T = a.T /\ n.E = task.value  OBVIOUS
  <2>. HIDE DEF b, n
  <2>6. KeptFrame(heap, b) /\ Kept(heap, a.T)  BY <2>2, <2>4 DEF KeptFrame
  <2>7. KeptStack(heap, stack')
    <3>1. Below \in Seq(Frame)  BY <2>2 DEF StackOK
    <3>. QED  BY <2>1, <2>2, <2>4, <2>6, <3>1, KeptPush
  <2>8. KeptTask(heap, task')  BY <2>1, <2>3, <2>5, <2>6, KeptTasks
  <2>. QED  BY <1>0a, <2>1, <2>7, <2>8
<1>15. CASE ReturnNode
  <2>1. Returned /\ Current.wait = "node" /\ Leave(task.value)  BY <1>15 DEF ReturnNode
  <2>2. task.value \in Ptr /\ Meaning(task.value) = IteMeaning(Current.key)
    BY <1>0, <2>1, ReturnedFacts
  <2>3. Kept(heap, task.value)  BY <1>0d, <2>1 DEF Returned
  <2>. QED  BY <2>1, <2>2, <2>3, LeaveKeeps
<1>16. CASE ReturnShortcut
  <2>1. /\ Returned /\ UNCHANGED <<heap, handle, cache>> /\ stack' = Below
        /\ task' = Return(Flip(Current.complement, task.value))
    BY <1>16 DEF ReturnShortcut
  <2>2. FrameOK(Current) /\ KeptStack(heap, Below)  BY <1>0, <2>1, ReturnedFacts, KeptPop
  <2>3. task.value \in Ptr /\ Kept(heap, task.value)  BY <1>0d, <2>1 DEF Returned
  <2>4. /\ Flip(Current.complement, task.value) \in Ptr
        /\ Flip(Current.complement, task.value).cell = task.value.cell
    BY <2>2, <2>3, MeaningOfValues DEF FrameOK, Frame
  <2>5. Kept(heap, Flip(Current.complement, task.value))  BY <2>3, <2>4, KeptPointer
  <2>6. KeptTask(heap, task')  BY <2>1, <2>5, KeptTasks
  <2>. QED  BY <1>0a, <2>1, <2>2, <2>6
<1>17. ASSUME task.do \in {"find_or_add", "new_node", "collected"},
              NEW hp, heap \subseteq hp, task.node \in hp
       PROVE  KeptTask(hp, Return(Reg(task.node)))
  <2>. DEFINE n == task.node
  <2>1. n \in Node \ {OneNode} /\ Kept(heap, n.T) /\ Kept(heap, n.E)  BY <1>0c, <1>17
  <2>2. n.T \in Ptr /\ n.E \in Ptr  BY <2>1, NodeCases
  <2>3. Cone[n.T.cell] \subseteq heap /\ Cone[n.E.cell] \subseteq heap
    BY <2>1, <2>2, KeptPointer
  <2>4. Cone[n] \subseteq hp  BY <1>17, <2>1, <2>3, ConeIs
  <2>5. Reg(n) \in Ptr /\ Reg(n).cell = n  BY <2>1 DEF Reg, Ptr
  <2>6. Kept(hp, Reg(n))  BY <2>4, <2>5, KeptPointer
  <2>. QED  BY <2>6, KeptTasks
<1>18. CASE FindOrAdd
  <2>1. /\ task.do = "find_or_add" /\ UNCHANGED <<heap, handle, cache, stack>>
        /\ task' = IF task.node \in heap THEN Return(Reg(task.node)) ELSE NewNode(task.node)
    BY <1>18 DEF FindOrAdd
  <2>2. task.node \in heap => KeptTask(heap, Return(Reg(task.node)))  BY <1>17, <2>1
  <2>3. KeptTask(heap, NewNode(task.node))  BY <1>0c, <2>1, KeptTasks
  <2>. QED  BY <1>0, <1>0a, <2>1, <2>2, <2>3
<1>19. CASE AddNode
  <2>1. /\ task.do \in {"new_node", "collected"} /\ UNCHANGED <<handle, cache, stack>>
        /\ heap' = heap \union {task.node} /\ task' = Return(Reg(task.node))
    BY <1>19 DEF AddNode
  <2>2. heap' \subseteq Node /\ OneNode \in heap' /\ heap \subseteq heap'
    BY <1>0, <1>0c, <2>1
  <2>3. KeptTask(heap', task')  BY <1>17, <2>1, <2>2
  <2>4. /\ \A p \in Handle : Kept(heap', handle[p])
        /\ KeptCache(heap', cache) /\ KeptStack(heap', stack)
    BY <1>0, <2>2, KeptMore DEF KeptStack
  <2>. QED  BY <1>0, <2>1, <2>2, <2>3, <2>4, KeptIntro
<1>20. CASE Collect
  <2>. DEFINE roots == External \union Internal
  <2>1. /\ task.do = "new_node" /\ GarbageCollect(roots) /\ task' = Collected(task.node)
        /\ UNCHANGED <<handle, stack>>
    BY <1>20 DEF Collect
  <2>2. \A p \in External : p \in PtrOrNIL /\ Kept(heap, p)
    BY <1>0, KeptConstants, MeaningOfConstants DEF External, PtrOrNIL
  <2>3. \A p \in ArgumentPointers : p \in PtrOrNIL /\ Kept(heap, p)
    <3>1. task.node \in Node \ {OneNode} /\ Kept(heap, task.node.T) /\ Kept(heap, task.node.E)
      BY <1>0c, <2>1
    <3>. QED  BY <3>1, NodeCases DEF ArgumentPointers, PtrOrNIL
  <2>4. \A i \in 1 .. Len(stack) : \A p \in FramePointers(stack[i]) :
           p \in PtrOrNIL /\ Kept(heap, p)
    <3>1. ASSUME NEW i \in 1 .. Len(stack)
          PROVE  \A p \in FramePointers(stack[i]) : p \in PtrOrNIL /\ Kept(heap, p)
      <4>. DEFINE a == stack[i]
      <4>1. a \in Frame /\ KeptFrame(heap, a)
        BY <1>0, <1>0e, ElementOfSeq DEF KeptStack
      <4>. HIDE DEF a
      <4>2. /\ a.key \in Triple /\ a.cofactors.v \in Triple /\ a.cofactors.nv \in Triple
            /\ a.T \in PtrOrNIL
        BY <4>1 DEF Frame
      <4>3. \A k \in Triple : k.f \in PtrOrNIL /\ k.g \in PtrOrNIL /\ k.h \in PtrOrNIL
        BY DEF Triple, PtrOrNIL
      <4>4. \A k \in Triple : KeptTriple(heap, k) =>
               \A j \in {"f", "g", "h"} : k[j] \in PtrOrNIL /\ Kept(heap, k[j])
        BY <4>3 DEF KeptTriple
      <4>5. KeptTriple(heap, a.key) /\ Kept(heap, a.T)
            /\ KeptTriple(heap, a.cofactors.v) /\ KeptTriple(heap, a.cofactors.nv)
        BY <4>1 DEF KeptFrame
      <4>6. \A p \in FramePointers(a) : p \in PtrOrNIL /\ Kept(heap, p)
        BY <4>2, <4>4, <4>5 DEF FramePointers
      <4>. QED  BY <4>6 DEF a
    <3>. QED  BY <3>1
  <2>5. DOMAIN stack = 1 .. Len(stack)  BY <1>0e
  <2>6. \A p \in roots : p \in PtrOrNIL /\ Kept(heap, p)
    BY <2>2, <2>3, <2>4, <2>5 DEF Internal
  <2>7. One \in roots  BY DEF External
  <2>. HIDE DEF roots
  <2>8. /\ heap' \subseteq Node /\ OneNode \in heap'
        /\ \A p \in roots : Kept(heap', p)
        /\ CacheOK(cache') /\ KeptCache(heap', cache')
    BY <1>0, <2>1, <2>6, <2>7, CollectionKeeps DEF HeapInv, CacheInv
  <2>9. \A p \in Handle : Kept(heap', handle[p])  BY <2>8 DEF roots, External
  <2>10. KeptTask(heap', Collected(task.node))
    <3>1. Kept(heap', task.node.T) /\ Kept(heap', task.node.E)
      BY <2>8 DEF roots, Internal, ArgumentPointers
    <3>. QED  BY <3>1, KeptTasks
  <2>11. KeptStack(heap', stack)
    <3>1. ASSUME NEW i \in 1 .. Len(stack)  PROVE KeptFrame(heap', stack[i])
      <4>1. \A p \in FramePointers(stack[i]) : Kept(heap', p)
        BY <2>5, <2>8 DEF roots, Internal
      <4>. QED  BY <4>1 DEF FramePointers, KeptFrame, KeptTriple
    <3>. QED  BY <3>1 DEF KeptStack
  <2>. QED  BY <1>0, <2>1, <2>8, <2>9, <2>10, <2>11, KeptIntro
<1>21. CASE Abandon
  <2>1. GarbageCollect(External) /\ stack' = <<>> /\ task' = Idle /\ handle' = handle
    BY <1>21 DEF Abandon
  <2>2. \A p \in External : p \in PtrOrNIL /\ Kept(heap, p)
    BY <1>0, KeptConstants, MeaningOfConstants DEF External, PtrOrNIL
  <2>3. /\ heap' \subseteq Node /\ OneNode \in heap'
        /\ \A p \in External : Kept(heap', p)
        /\ CacheOK(cache') /\ KeptCache(heap', cache')
    BY <1>0, <2>1, <2>2, CollectionKeeps DEF HeapInv, CacheInv, External
  <2>4. \A p \in Handle : Kept(heap', handle[p])  BY <2>3 DEF External
  <2>5. KeptStack(heap', <<>>)  BY DEF KeptStack
  <2>6. KeptTask(heap', Idle)  BY KeptTasks
  <2>. QED  BY <1>0, <2>1, <2>3, <2>4, <2>5, <2>6, KeptIntro
<1>22. CASE Finish
  <2>1. /\ call /= NIL /\ task.do = "return" /\ task' = Idle
        /\ handle' = [handle EXCEPT ![call.to] = task.value]
        /\ UNCHANGED <<heap, cache, stack>>
    BY <1>22 DEF Finish
  <2>2. task.value \in Ptr /\ Kept(heap, task.value)  BY <1>0d, <2>1
  <2>3. handle' \in [Handle -> PtrOrNIL] /\ \A h \in Handle : Kept(heap, handle'[h])
    BY <1>0, <2>1, <2>2 DEF PtrOrNIL
  <2>4. KeptTask(heap, Idle)  BY KeptTasks
  <2>. QED  BY <1>0, <2>1, <2>3, <2>4, KeptIntro
<1>23. CASE UNCHANGED vars
  BY <1>0, <1>0a, <1>23 DEF vars
<1>. QED
  BY <1>1, <1>2, <1>4, <1>5, <1>6, <1>7, <1>8, <1>10, <1>11, <1>12, <1>13, <1>14, <1>15,
     <1>16, <1>18, <1>19, <1>20, <1>21, <1>22, <1>23 DEF Next, User, Running

-----------------------------------------------------------------------------
(* What holds of every behaviour.                                          *)

LEMMA InitHolds == Init => IInv
<1>. SUFFICES ASSUME Init  PROVE IInv  OBVIOUS
<1>1. /\ heap = {OneNode} /\ handle = [p \in Handle |-> NIL] /\ cache = NIL
      /\ stack = <<>> /\ task = Idle /\ call = NIL
  BY DEF Init
<1>2. HeapInv  BY <1>1, OneIsNode DEF HeapInv, PtrOrNIL
<1>3. CacheInv  BY <1>1 DEF CacheInv, CacheOK
<1>4. CallInv  BY <1>1 DEF CallInv
<1>5. KeptStack(heap, stack)  BY <1>1 DEF KeptStack
<1>6. KeptTask(heap, task)  BY <1>1, KeptTasks
<1>7. KeptInv  BY <1>1, <1>5, <1>6 DEF KeptInv, Kept, KeptCache
<1>. QED  BY <1>2, <1>3, <1>4, <1>7 DEF IInv

LEMMA IInvHolds == Spec => []IInv
<1>1. IInv /\ [Next]_vars => IInv'  BY CallStep, StoreStep DEF IInv
<1>. QED  BY InitHolds, <1>1, PTL DEF Spec

(* The state of the engine is what its fields and arguments say: a heap of *)
(* nodes with the constant among them, handles and cached entries that are *)
(* pointers, and activations of bdd__ITE_ about triples of pointers.       *)
THEOREM TypeCorrect == Spec => []TypeOK
<1>1. IInv => TypeOK
  <2>. SUFFICES ASSUME IInv  PROVE TypeOK  OBVIOUS
  <2>1. heap \subseteq Node /\ OneNode \in heap /\ handle \in [Handle -> PtrOrNIL]
    BY DEF IInv, HeapInv
  <2>2. cache \in [key: Triple, data: Ptr] \union {NIL}  BY DEF IInv, CacheInv, CacheOK
  <2>3. CallInv  BY DEF IInv
  <2>4. /\ task.do \in {"nothing", "ite", "find_or_add", "new_node", "collected", "return"}
        /\ (task.do = "nothing") = (call = NIL)
    BY <2>3, Situation
  <2>5. ASSUME NEW i \in DOMAIN stack
        PROVE  /\ stack[i].key \in Triple /\ stack[i].complement \in BOOLEAN
               /\ stack[i].x \in Var /\ stack[i].T \in PtrOrNIL
               /\ stack[i].wait \in {"T", "E", "node", "shortcut"}
    <3>1. CASE call = NIL
      <4>1. stack = <<>>  BY <2>3, <3>1, Situation
      <4>. QED  BY <2>5, <4>1
    <3>2. CASE call /= NIL
      <4>1. stack \in Seq(Frame)  BY <2>3, <3>2, Situation DEF StackOK
      <4>2. stack[i] \in Frame  BY <4>1, ElementOfSeq
      <4>. QED  BY <4>2 DEF Frame
    <3>. QED  BY <3>1, <3>2
  <2>. QED  BY <2>1, <2>2, <2>4, <2>5 DEF TypeOK
<1>. QED  BY IInvHolds, <1>1, PTL

(* bdd_find_or_add is only asked for nodes a diagram may have: the assert  *)
(* at its head never fails, and what it does not assert, that both branches*)
(* are below the variable and differ, holds too.                           *)
THEOREM ProperNodes == Spec => []AsksForProperNodes
<1>1. IInv => AsksForProperNodes  BY Situation DEF IInv, AsksForProperNodes
<1>. QED  BY IInvHolds, <1>1, PTL

(* bdd__ITE_ returns the if-then-else of its arguments, to the user and at *)
(* every level of the recursion, whatever the cache, the rewriting, the    *)
(* shortcuts and the collections in the middle of it did.                  *)
THEOREM ReturnsAreRight == Spec => []ReturnsMeanTheirArguments
<1>1. IInv => ReturnsMeanTheirArguments
  <2>. SUFFICES ASSUME IInv, task.do = "return"  PROVE ReturnsMeanTheirArguments
    BY DEF ReturnsMeanTheirArguments
  <2>1. Meaning(task.value) = Wanted(stack, call, Len(stack)) /\ CallInv
    BY Situation DEF IInv
  <2>2. CASE stack = <<>>
    <3>1. Len(stack) = 0  BY <2>2
    <3>. QED  BY <2>1, <2>2, <3>1 DEF ReturnsMeanTheirArguments, Wanted
  <2>3. CASE stack /= <<>>
    <3>1. Returned  BY <2>3 DEF Returned
    <3>2. Meaning(task.value) = IF Current.wait = "T" THEN IteMeaning(Current.cofactors.v)
                                ELSE IF Current.wait = "E" THEN IteMeaning(Current.cofactors.nv)
                                ELSE IteMeaning(Current.key)
      BY <2>1, <3>1, ReturnedFacts
    <3>3. Current.wait = "T" => Meaning(task.value) = IteMeaning(Current.cofactors.v)  BY <3>2
    <3>4. Current.wait = "E" => Meaning(task.value) = IteMeaning(Current.cofactors.nv)  BY <3>2
    <3>5. Current.wait \notin {"T", "E"} => Meaning(task.value) = IteMeaning(Current.key)
      BY <3>2
    <3>. QED  BY <2>3, <3>3, <3>4, <3>5 DEF ReturnsMeanTheirArguments
  <2>. QED  BY <2>2, <2>3
<1>. QED  BY IInvHolds, <1>1, PTL

(* No collection, at whatever depth of the recursion it comes, takes away  *)
(* a node below a pointer that is still to be used: of the user, of the    *)
(* cache, of the safe frames or on its way between two activations.        *)
THEOREM NoPointerDangles == Spec => []NothingDangles
<1>1. IInv => NothingDangles
  <2>. SUFFICES ASSUME IInv  PROVE NothingDangles  OBVIOUS
  <2>. DEFINE tasks == CASE task.do = "ite" -> {task.args.f, task.args.g, task.args.h}
                         [] task.do = "return" -> {task.value}
                         [] task.do \in {"find_or_add", "new_node", "collected"} -> ArgumentPointers
                         [] OTHER -> {}
              cached == IF cache = NIL THEN {}
                        ELSE {cache.key.f, cache.key.g, cache.key.h, cache.data}
              framed == UNION {FramePointers(stack[i]) : i \in DOMAIN stack}
  <2>1. /\ CallInv /\ OneNode \in heap
        /\ \A p \in Handle : Kept(heap, handle[p])
        /\ KeptCache(heap, cache) /\ KeptStack(heap, stack) /\ KeptTask(heap, task)
    BY DEF IInv, HeapInv, KeptInv
  <2>2. \A p \in External : Kept(heap, p)  BY <2>1, KeptConstants DEF External
  <2>3. \A p \in cached : Kept(heap, p)  BY <2>1 DEF KeptCache, KeptTriple
  <2>4. \A p \in tasks : Kept(heap, p)
    <3>1. CASE task.do = "ite"
      <4>1. KeptTriple(heap, task.args)
        <5>1. AtIte(task)  BY <2>1, <3>1, Situation, Tasks
        <5>. QED  BY <2>1, <5>1 DEF KeptTask
      <4>. QED  BY <3>1, <4>1 DEF KeptTriple
    <3>2. CASE task.do = "return"
      <4>1. AtReturn(task)
        <5>1. TaskOK(task, stack, call)  BY <2>1, <3>2, Situation
        <5>. QED  BY <3>2, <5>1 DEF TaskOK, AtIte, AtNode
      <4>. QED  BY <2>1, <3>2, <4>1 DEF KeptTask
    <3>3. CASE task.do \in {"find_or_add", "new_node", "collected"}
      <4>1. AtNode(task)
        <5>1. TaskOK(task, stack, call)  BY <2>1, <3>3, Situation
        <5>. QED  BY <3>3, <5>1 DEF TaskOK, AtIte, AtReturn
      <4>2. tasks = ArgumentPointers  BY <3>3
      <4>. QED  BY <2>1, <4>1, <4>2 DEF KeptTask, ArgumentPointers
    <3>4. CASE task.do = "nothing"  BY <3>4
    <3>. QED  BY <2>1, <3>1, <3>2, <3>3, <3>4, Situation
  <2>5. \A p \in framed : Kept(heap, p)
    <3>1. DOMAIN stack = 1 .. Len(stack)
      <4>1. CASE call = NIL
        <5>1. stack = <<>>  BY <2>1, <4>1, Situation
        <5>. QED  BY <5>1
      <4>2. CASE call /= NIL
        <5>1. stack \in Seq(Frame)  BY <2>1, <4>2, Situation DEF StackOK
        <5>. QED  BY <5>1
      <4>. QED  BY <4>1, <4>2
    <3>2. ASSUME NEW i \in DOMAIN stack, NEW p \in FramePointers(stack[i])  PROVE Kept(heap, p)
      <4>1. KeptFrame(heap, stack[i])  BY <2>1, <3>1 DEF KeptStack
      <4>. QED  BY <3>2, <4>1 DEF KeptFrame, KeptTriple, FramePointers
    <3>. QED  BY <3>2
  <2>. HIDE DEF tasks, cached, framed
  <2>6. \A p \in (External \union tasks \union cached \union framed) \ {NIL} : Cone[p.cell] \subseteq heap
    BY <2>2, <2>3, <2>4, <2>5 DEF Kept
  <2>. QED  BY <2>6 DEF NothingDangles, tasks, cached, framed
<1>. QED  BY IInvHolds, <1>1, PTL

-----------------------------------------------------------------------------
(* The package does what BddApi promises.                                  *)

\* What the external pointers stand for when none of them dangles.
Denoted(hd) == [p \in Handle |-> IF hd[p] = NIL THEN NIL ELSE Meaning(hd[p])]

LEMMA DenotedFunctions ==
    ASSUME NEW hd \in [Handle -> PtrOrNIL]
    PROVE  \A p \in Handle :
              /\ hd[p] = NIL <=> Denoted(hd)[p] = NIL
              /\ hd[p] /= NIL => /\ hd[p] \in Ptr /\ Denoted(hd)[p] = Meaning(hd[p])
                                /\ Meaning(hd[p]) \subseteq Valuations
<1>1. ASSUME NEW p \in Handle, hd[p] /= NIL
      PROVE  hd[p] \in Ptr /\ Meaning(hd[p]) \subseteq Valuations /\ Meaning(hd[p]) /= NIL
  <2>1. hd[p] \in Ptr  BY <1>1 DEF PtrOrNIL
  <2>2. Meaning(hd[p]) \in SUBSET Valuations  BY <2>1, MeaningIs
  <2>. QED  BY <2>1, <2>2, AbsentAssumption
<1>. QED  BY <1>1 DEF Denoted

LEMMA NothingKeptDangles ==
    ASSUME NEW hd, NEW hp, \A p \in Handle : Kept(hp, hd[p])
    PROVE  [p \in Handle |-> IF hd[p] = NIL THEN NIL
                             ELSE IF Cone[hd[p].cell] \subseteq hp THEN Meaning(hd[p])
                             ELSE <<"dangling">>] = Denoted(hd)
BY DEF Denoted, Kept

LEMMA ApiFnIs ==
    /\ IInv => ApiFn = Denoted(handle)
    /\ IInv' => ApiFn' = Denoted(handle')
<1>1. IInv => ApiFn = Denoted(handle)
  BY NothingKeptDangles DEF IInv, KeptInv, ApiFn
<1>2. ASSUME IInv'  PROVE ApiFn' = Denoted(handle')
  <2>1. \A p \in Handle : Kept(heap', handle'[p])  BY <1>2 DEF IInv, KeptInv
  <2>2. ApiFn' = [p \in Handle |-> IF handle'[p] = NIL THEN NIL
                             ELSE IF Cone[handle'[p].cell] \subseteq heap' THEN Meaning(handle'[p])
                             ELSE <<"dangling">>]
    BY DEF ApiFn
  <2>. QED  BY <2>1, <2>2, NothingKeptDangles
<1>. QED  BY <1>1, <1>2

LEMMA ApiNotions ==
    /\ Api!Valuation = Valuations
    /\ \A S : Api!Complement(S) = Valuations \ S
    /\ \A S, x, b : Api!Cofactor(S, x, b) = {v \in Valuations : SetTo(v, x, b) \in S}
BY DEF Api!Valuation, Valuations, Api!Complement, Api!Cofactor, SetTo

(* The arguments an operation starts from are functions the user holds.    *)
LEMMA OperandsAreKnown ==
    ASSUME IInv, NEW k \in Operands
    PROVE  Meanings(k) \in Api!IteArgs
<1>. DEFINE held == {handle[p] : p \in Handle} \ {NIL}
            phases == held \union {NOT(f) : f \in held}
            known == {ApiFn[p] : p \in Handle} \ {NIL}
<1>0. handle \in [Handle -> PtrOrNIL]  BY DEF IInv, HeapInv
<1>1. \A f \in held : f \in Ptr /\ Meaning(f) \in known
  <2>1. ASSUME NEW p \in Handle, handle[p] /= NIL
        PROVE  handle[p] \in Ptr /\ Meaning(handle[p]) \in known
    <3>1. ApiFn[p] = Denoted(handle)[p]  BY ApiFnIs
    <3>. QED  BY <1>0, <2>1, <3>1, DenotedFunctions
  <2>. HIDE DEF known
  <2>. QED  BY <2>1
<1>2. Api!Operand = known \union {Valuations \ S : S \in known} \union {{}, Valuations}
  BY ApiNotions DEF Api!Operand
<1>. HIDE DEF known, held
<1>3. \A f \in phases : Meaning(f) \in Api!Operand
  <2>1. ASSUME NEW f \in held
        PROVE  Meaning(f) \in Api!Operand /\ Meaning(NOT(f)) \in Api!Operand
    <3>1. f \in Ptr /\ Meaning(f) \in known  BY <1>1
    <3>2. Meaning(NOT(f)) = Valuations \ Meaning(f)  BY <3>1, MeaningOfComplement
    <3>. QED  BY <1>2, <3>1, <3>2
  <2>. QED  BY <2>1
<1>4. Meaning(One) \in Api!Operand /\ Meaning(Zero) \in Api!Operand
  BY <1>2, MeaningOfConstants
<1>5. Operands = [f: phases, g: phases, h: phases \union {Zero}]
                   \union [f: phases, g: {One}, h: phases]
  BY DEF Operands, held
<1>. HIDE DEF phases
<1>6. Meaning(k.f) \in Api!Operand /\ Meaning(k.g) \in Api!Operand /\ Meaning(k.h) \in Api!Operand
  BY <1>3, <1>4, <1>5
<1>. QED  BY <1>6 DEF Meanings, Api!IteArgs

(* bdd_then and bdd_else give the cofactors by the first variable the      *)
(* function depends on: the top of a diagram is that variable.             *)
LEMMA BranchesAreDerived ==
    ASSUME NEW p \in Ptr, p.cell /= OneNode
    PROVE  LET x == Top(p)
           IN /\ CofactorV(p, x) \in Ptr /\ Meaning(CofactorV(p, x)) \in Api!Derived(Meaning(p))
              /\ CofactorNv(p, x) \in Ptr /\ Meaning(CofactorNv(p, x)) \in Api!Derived(Meaning(p))
<1>. DEFINE x == Top(p)
<1>1. x \in Var /\ x \in Nat /\ Top(p) >= x  BY PtrParts, VarFacts DEF Var, ONE_ID
<1>2. CofactorV(p, x) /= CofactorNv(p, x)  BY <1>1, BranchesOfPointer
<1>3. Top(p) = x  OBVIOUS
<1>. HIDE DEF x
<1>4. /\ CofactorV(p, x) \in Ptr /\ CofactorNv(p, x) \in Ptr
      /\ \A v \in Valuations :
            /\ v \in Meaning(CofactorV(p, x)) <=> SetTo(v, x, TRUE) \in Meaning(p)
            /\ v \in Meaning(CofactorNv(p, x)) <=> SetTo(v, x, FALSE) \in Meaning(p)
  BY <1>1, CofactorsOfPointer
<1>5. /\ Meaning(CofactorV(p, x)) = Api!Cofactor(Meaning(p), x, TRUE)
      /\ Meaning(CofactorNv(p, x)) = Api!Cofactor(Meaning(p), x, FALSE)
  BY <1>4, MeaningIs, ApiNotions
<1>6. Api!DependsOn(Meaning(p), x)
  BY <1>2, <1>4, <1>5, FunctionsHaveOneDiagram DEF Api!DependsOn
<1>7. ASSUME NEW y \in Var, y < x  PROVE ~Api!DependsOn(Meaning(p), y)
  <2>1. ASSUME NEW v \in Valuations, NEW b \in BOOLEAN
        PROVE  SetTo(v, y, b) \in Meaning(p) <=> v \in Meaning(p)
    <3>1. SetTo(v, y, b) \in Valuations /\ AgreeFrom(x, v, SetTo(v, y, b))
      BY <1>1, <1>7, SetToFacts
    <3>. QED  BY <1>1, <3>1, VariablesBeforeTop
  <2>2. \A v \in Valuations : SetTo(v, y, TRUE) \in Meaning(p) <=> SetTo(v, y, FALSE) \in Meaning(p)
    BY <2>1
  <2>3. Api!Cofactor(Meaning(p), y, TRUE) = Api!Cofactor(Meaning(p), y, FALSE)
    BY <2>2, ApiNotions
  <2>. QED  BY <2>3 DEF Api!DependsOn
<1>8. Api!IsTop(Meaning(p), x)  BY <1>6, <1>7 DEF Api!IsTop
<1>9. \A b \in BOOLEAN : Api!Cofactor(Meaning(p), x, b) \in Api!Derived(Meaning(p))
  BY <1>1, <1>8 DEF Api!Derived
<1>. QED  BY <1>4, <1>5, <1>9 DEF x

LEMMA ApiStep == IInv /\ IInv' /\ [Next]_vars => [Api!Next]_(Api!vars)
<1>. SUFFICES ASSUME IInv, IInv', [Next]_vars  PROVE [Api!Next]_(Api!vars)  OBVIOUS
<1>0. /\ ApiFn = Denoted(handle) /\ ApiFn' = Denoted(handle')
      /\ handle \in [Handle -> PtrOrNIL] /\ handle' \in [Handle -> PtrOrNIL] /\ CallInv
  BY ApiFnIs DEF IInv, HeapInv
<1>0a. \A p \in Handle :
         /\ handle[p] = NIL <=> ApiFn[p] = NIL
         /\ handle[p] /= NIL => handle[p] \in Ptr /\ ApiFn[p] = Meaning(handle[p])
  BY <1>0, DenotedFunctions
<1>0b. ASSUME handle' = handle, call' = call  PROVE UNCHANGED Api!vars
  BY <1>0, <1>0b DEF Api!vars
<1>0c. ASSUME NEW p \in Handle, NEW value \in Ptr, handle' = [handle EXCEPT ![p] = value]
       PROVE  ApiFn' = [ApiFn EXCEPT ![p] = Meaning(value)]
  <2>1. value /= NIL  BY AbsentAssumption
  <2>2. \A q \in Handle : handle'[q] = IF q = p THEN value ELSE handle[q]  BY <1>0, <1>0c
  <2>. QED  BY <1>0, <2>1, <2>2 DEF Denoted
<1>1. ASSUME NEW p \in Handle, NEW k \in Operands, StartIte(p, k)  PROVE Api!Next
  <2>1. /\ call = NIL /\ handle[p] = NIL /\ handle' = handle
        /\ call' = [to |-> p, args |-> Meanings(k)]
    BY <1>1 DEF StartIte
  <2>2. ApiFn[p] = NIL /\ ApiFn' = ApiFn  BY <1>0, <1>0a, <2>1
  <2>3. call' \in [to: {p}, args: Api!IteArgs]  BY <2>1, OperandsAreKnown
  <2>4. Api!Start  BY <2>1, <2>2, <2>3 DEF Api!Start
  <2>. QED  BY <2>4 DEF Api!Next
<1>2. ASSUME NEW p \in Handle, NEW x \in Var, StartVariable(p, x)  PROVE Api!Next
  <2>1. /\ call = NIL /\ handle[p] = NIL /\ handle' = handle
        /\ call' = [to |-> p, args |-> [f |-> {v \in Valuations : v[x]}, g |-> Valuations,
                                        h |-> {}]]
    BY <1>2 DEF StartVariable
  <2>2. ApiFn[p] = NIL /\ ApiFn' = ApiFn  BY <1>0, <1>0a, <2>1
  <2>3. [f |-> {v \in Valuations : v[x]}, g |-> Valuations, h |-> {}] \in Api!VariableArgs
    BY ApiNotions DEF Api!VariableArgs, Api!Projection
  <2>4. call' \in [to: {p}, args: Api!VariableArgs]  BY <2>1, <2>3
  <2>5. Api!Start  BY <2>1, <2>2, <2>4 DEF Api!Start
  <2>. QED  BY <2>5 DEF Api!Next
<1>3. ASSUME NEW p \in Handle, NEW q \in Handle, handle[q] /= NIL, NEW value \in Ptr,
             Meaning(value) \in Api!Derived(Meaning(handle[q])), Make(p, value)
      PROVE  Api!Next
  <2>1. /\ call = NIL /\ handle[p] = NIL /\ call' = call
        /\ handle' = [handle EXCEPT ![p] = value]
    BY <1>3 DEF Make
  <2>2. ApiFn[p] = NIL /\ ApiFn[q] /= NIL /\ ApiFn[q] = Meaning(handle[q])
    BY <1>0a, <1>3, <2>1
  <2>3. ApiFn' = [ApiFn EXCEPT ![p] = Meaning(value)]  BY <1>0c, <2>1
  <2>4. Api!Derive  BY <1>3, <2>1, <2>2, <2>3 DEF Api!Derive
  <2>. QED  BY <2>4 DEF Api!Next
<1>4. ASSUME NEW p \in Handle, NEW q \in Handle, Not(p, q)  PROVE Api!Next
  <2>1. handle[q] /= NIL /\ Make(p, NOT(handle[q]))  BY <1>4 DEF Not
  <2>2. handle[q] \in Ptr  BY <1>0a, <2>1
  <2>3. NOT(handle[q]) \in Ptr /\ Meaning(NOT(handle[q])) = Valuations \ Meaning(handle[q])
    BY <2>2, PtrOperators, MeaningOfComplement
  <2>4. Meaning(NOT(handle[q])) \in Api!Derived(Meaning(handle[q]))
    BY <2>3, ApiNotions DEF Api!Derived
  <2>. QED  BY <1>3, <2>1, <2>3, <2>4
<1>5. ASSUME NEW p \in Handle, NEW q \in Handle, Branch(p, q)  PROVE Api!Next
  <2>. DEFINE f == handle[q]
              x == Top(f)
  <2>1. f /= NIL /\ f.cell /= OneNode  BY <1>5 DEF Branch, IS_CONSTANT
  <2>2. f \in Ptr  BY <1>0a, <2>1
  <2>3. Make(p, CofactorV(f, x)) \/ Make(p, CofactorNv(f, x))
    BY <1>5 DEF Branch, CofactorV, CofactorNv
  <2>4. /\ CofactorV(f, x) \in Ptr /\ Meaning(CofactorV(f, x)) \in Api!Derived(Meaning(f))
        /\ CofactorNv(f, x) \in Ptr /\ Meaning(CofactorNv(f, x)) \in Api!Derived(Meaning(f))
    BY <2>1, <2>2, BranchesAreDerived
  <2>. QED  BY <1>3, <2>1, <2>3, <2>4
<1>6. ASSUME NEW p \in Handle, Free(p)  PROVE Api!Next
  <2>1. /\ call = NIL /\ handle[p] /= NIL /\ call' = call
        /\ handle' = [handle EXCEPT ![p] = NIL]
    BY <1>6 DEF Free
  <2>2. \A q \in Handle : handle'[q] = IF q = p THEN NIL ELSE handle[q]  BY <1>0, <2>1
  <2>3. ApiFn' = [ApiFn EXCEPT ![p] = NIL]  BY <1>0, <2>2 DEF Denoted
  <2>4. ApiFn[p] /= NIL  BY <1>0a, <2>1
  <2>5. Api!Free  BY <2>1, <2>3, <2>4 DEF Api!Free
  <2>. QED  BY <2>5 DEF Api!Next
<1>7. CASE Finish
  <2>1. /\ call /= NIL /\ task.do = "return" /\ stack = <<>> /\ call' = NIL
        /\ handle' = [handle EXCEPT ![call.to] = task.value]
    BY <1>7 DEF Finish
  <2>2. /\ task.value \in Ptr /\ call \in Calls
        /\ Meaning(task.value) = Wanted(stack, call, Len(stack))
    BY <1>0, <2>1, Situation
  <2>3. Len(stack) = 0  BY <2>1
  <2>4. Meaning(task.value) = IteOf(call.args)  BY <2>2, <2>3 DEF Wanted
  <2>5. call.to \in Handle /\ call.args \in [f: Function, g: Function, h: Function]
    BY <2>2 DEF Calls
  <2>6. call.args.h \subseteq Valuations  BY <2>5 DEF Function
  <2>7. IteOf(call.args) = Api!Ite(call.args)
    BY <2>6, ApiNotions DEF IteOf, Api!Ite
  <2>8. ApiFn' = [ApiFn EXCEPT ![call.to] = Api!Ite(call.args)]
    BY <1>0c, <2>1, <2>2, <2>4, <2>5, <2>7
  <2>9. Api!Finish  BY <2>1, <2>8 DEF Api!Finish
  <2>. QED  BY <2>9 DEF Api!Next
<1>8. CASE Abandon
  <2>1. task.do = "collected" /\ call' = NIL /\ handle' = handle  BY <1>8 DEF Abandon
  <2>2. call /= NIL  BY <1>0, <2>1, Situation
  <2>3. Api!Abandon  BY <1>0, <2>1, <2>2 DEF Api!Abandon
  <2>. QED  BY <2>3 DEF Api!Next
<1>9. CASE \/ AnswerTrivial \/ AnswerCached \/ EnterShortcut \/ EnterRecursion
           \/ ReturnT \/ ReturnE \/ ReturnShortcut \/ FindOrAdd \/ AddNode \/ Collect
  BY <1>0b, <1>9 DEF AnswerTrivial, AnswerCached, EnterShortcut, EnterRecursion, ReturnT,
                     ReturnE, ReturnShortcut, FindOrAdd, AddNode, Collect
<1>10. CASE ReturnSame \/ ReturnNode
  BY <1>0b, <1>10 DEF ReturnSame, ReturnNode, Leave
<1>11. CASE UNCHANGED vars  BY <1>0b, <1>11 DEF vars
<1>. QED
  BY <1>1, <1>2, <1>4, <1>5, <1>6, <1>7, <1>8, <1>9, <1>10, <1>11 DEF Next, User, Running

(* The package keeps its promise: an operation gives its bdd_t the function*)
(* it is named for or is abandoned without a trace, bdd_then and bdd_else  *)
(* give the cofactors by the first variable the function depends on, and   *)
(* neither a collection nor an abandoned computation changes what another  *)
(* bdd_t stands for.                                                       *)
THEOREM PromiseKept == Spec => KeepsItsPromise
<1>1. Init => Api!Init
  <2>. SUFFICES ASSUME Init  PROVE Api!Init  OBVIOUS
  <2>1. ApiFn = Denoted(handle)  BY InitHolds, ApiFnIs
  <2>. QED  BY <2>1 DEF Init, Api!Init, Denoted
<1>. QED  BY <1>1, IInvHolds, ApiStep, PTL DEF Spec, KeepsItsPromise, Api!Spec

=============================================================================
